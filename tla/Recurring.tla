----------------------------- MODULE Recurring -----------------------------
(***************************************************************************)
(* A month of a household that is filled from the month before:            *)
(* generateIncomeFromPrevious of TransactionService copies the recurring   *)
(* incomes, generateFromPrevious of BudgetService the budgets.  Meanwhile  *)
(* rows are entered, changed and removed by hand.  A generation reads the  *)
(* previous month, then the month to fill, and then saves row by row,      *)
(* without a transaction.                                                  *)
(*                                                                         *)
(* Incomes with the same category, description and amount have the same    *)
(* key.  The table of budgets is unique by category and month.             *)
(***************************************************************************)
EXTENDS Naturals

CONSTANTS
  Keys,       \* incomes, by category, description and amount
  Budgeted,   \* categories of expenses
  Amounts,    \* amounts of budgets
  Callers,    \* slots for requests under way
  MaxRows,    \* bound: how many rows are entered by hand or saved in all
  MaxCalls    \* bound: how many requests begin

ASSUME RecurringBoundsAssumption == MaxRows \in Nat /\ MaxCalls \in Nat

VARIABLES
  regular,   \* the recurring incomes of the previous month, by key
  entered,   \* those of the month to fill that were entered by hand
  made,      \* and those that were generated, by the generation
  plan,      \* the budgets of the previous month
  budget,    \* those of the month to fill
  call,      \* the requests
  calls,     \* how many began
  saves,     \* how many rows were saved
  overlapped \* history: keys generated while another generation that had
             \* not seen them was under way

recurringVars ==
  <<regular, entered, made, plan, budget, call, calls, saves, overlapped>>

-----------------------------------------------------------------------------
NoBudget == [id |-> 0, amount |-> 0]
Budget == [id : 0..MaxRows, amount : Amounts \cup {0}]
Unplanned == [c \in Budgeted |-> NoBudget]
NoKeys == [k \in Keys |-> 0]
Generations == 1..MaxCalls

Call ==
  [at : {"idle", "looking", "saving"}, does : {"income", "budgets", "upsert", "none"},
   number : 0..MaxCalls,                                       \* of a generation
   overwrite : BOOLEAN,
   todo : [Keys -> 0..MaxRows], known : SUBSET Keys,           \* incomes
   wanted : [Budgeted -> Amounts \cup {0}], found : [Budgeted -> Budget]] \* budgets
NoCall ==
  [at |-> "idle", does |-> "none", number |-> 0, overwrite |-> FALSE, todo |-> NoKeys, known |-> {},
   wanted |-> [c \in Budgeted |-> 0], found |-> Unplanned]

(* Mutant of Present: copies are not saved as recurring, and no later      *)
(* generation finds them.                                                  *)
PresentByHand(k) == entered[k] > 0

Present(k) == entered[k] > 0 \/ \E g \in Generations : made[k][g] > 0
Blind(r, k) == call[r].does = "income" /\ call[r].at = "saving" /\ k \notin call[r].known

RecurringTypeOK ==
  /\ regular \in [Keys -> 0..MaxRows]
  /\ entered \in [Keys -> 0..MaxRows]
  /\ made \in [Keys -> [Generations -> 0..MaxRows]]
  /\ plan \in [Budgeted -> Amounts \cup {0}]
  /\ budget \in [Budgeted -> Budget]
  /\ call \in [Callers -> Call]
  /\ calls \in 0..MaxCalls /\ saves \in 0..MaxRows
  /\ overlapped \in SUBSET Keys

RecurringInit ==
  /\ regular = NoKeys /\ entered = NoKeys
  /\ made = [k \in Keys |-> [g \in Generations |-> 0]]
  /\ plan \in [Budgeted -> Amounts \cup {0}]
  /\ budget = Unplanned
  /\ call = [r \in Callers |-> NoCall]
  /\ calls = 0 /\ saves = 0
  /\ overlapped = {}

BeginCall(r, does) ==
  /\ call[r].at = "idle" /\ calls < MaxCalls
  /\ calls' = calls + 1
  /\ call' = [call EXCEPT ![r] = does]
Saves == saves < MaxRows /\ saves' = saves + 1
Over(r) == call' = [call EXCEPT ![r] = NoCall]

-----------------------------------------------------------------------------
(* Incomes                                                                 *)

(* The recurring incomes of the previous month are read.                   *)
GenerateIncome(r) ==
  /\ \E k \in Keys : regular[k] > 0
  /\ BeginCall(r, [NoCall EXCEPT !.at = "looking", !.does = "income",
                             !.number = calls + 1, !.todo = regular])
  /\ UNCHANGED <<regular, entered, made, plan, budget, saves, overlapped>>

LookForIncomes(r) ==
  /\ call[r].at = "looking" /\ call[r].does = "income"
  /\ call' = [call EXCEPT ![r].at = "saving", ![r].known = {k \in Keys : Present(k)}]
  /\ UNCHANGED <<regular, entered, made, plan, budget, calls, saves, overlapped>>

(* Mutant of SkipIncome: the loop passes over an item again.               *)
SkipIncomeAgain(r, k) ==
  /\ call[r].at = "saving" /\ k \in call[r].known
  /\ call' = [call EXCEPT ![r].todo[k] = @ - 1]
  /\ UNCHANGED <<regular, entered, made, plan, budget, calls, saves, overlapped>>

SkipIncome(r, k) ==
  /\ call[r].at = "saving" /\ call[r].todo[k] > 0 /\ k \in call[r].known
  /\ call' = [call EXCEPT ![r].todo[k] = @ - 1]
  /\ UNCHANGED <<regular, entered, made, plan, budget, calls, saves, overlapped>>

SaveIncome(r, k) ==
  /\ call[r].at = "saving" /\ call[r].todo[k] > 0 /\ k \notin call[r].known
  /\ Saves
  /\ made' = [made EXCEPT ![k][call[r].number] = @ + 1]
  /\ call' = [call EXCEPT ![r].todo[k] = @ - 1, ![r].known = @ \cup {k}]
  /\ overlapped' = IF \E q \in Callers \ {r} : Blind(q, k) THEN overlapped \cup {k} ELSE overlapped
  /\ UNCHANGED <<regular, entered, plan, budget, calls>>

IncomeDone(r) ==
  /\ call[r].at = "saving" /\ call[r].does = "income" /\ call[r].todo = NoKeys
  /\ Over(r)
  /\ UNCHANGED <<regular, entered, made, plan, budget, calls, saves, overlapped>>

(* Entered by hand in either month.                                        *)
EnterIncome(k) ==
  /\ Saves
  /\ \/ regular' = [regular EXCEPT ![k] = @ + 1] /\ UNCHANGED entered
     \/ entered' = [entered EXCEPT ![k] = @ + 1] /\ UNCHANGED regular
  /\ UNCHANGED <<made, plan, budget, call, calls, overlapped>>

(* Removed, or changed to another key, which counts as entered by hand.    *)
RemoveIncome(k) ==
  /\ \/ \E g \in Generations :
          /\ made[k][g] > 0 /\ made' = [made EXCEPT ![k][g] = @ - 1]
          /\ \/ UNCHANGED <<entered, saves>>
             \/ \E j \in Keys \ {k} : Saves /\ entered' = [entered EXCEPT ![j] = @ + 1]
     \/ entered[k] > 0 /\ entered' = [entered EXCEPT ![k] = @ - 1] /\ UNCHANGED <<made, saves>>
  /\ UNCHANGED <<regular, plan, budget, call, calls, overlapped>>

-----------------------------------------------------------------------------
(* Budgets                                                                 *)

(* The budgets of the previous month are read.                             *)
GenerateBudgets(r, overwrite) ==
  /\ \E c \in Budgeted : plan[c] # 0
  /\ BeginCall(r, [NoCall EXCEPT !.at = "looking", !.does = "budgets", !.overwrite = overwrite,
                             !.wanted = plan])
  /\ UNCHANGED <<regular, entered, made, plan, budget, saves, overlapped>>

(* upsert: the category is there.                                          *)
Upsert(r, c, amount) ==
  /\ BeginCall(r, [NoCall EXCEPT !.at = "looking", !.does = "upsert", !.overwrite = TRUE,
                             !.wanted[c] = amount])
  /\ UNCHANGED <<regular, entered, made, plan, budget, saves, overlapped>>

(* The budgets that are there are read; those of categories that are not   *)
(* wanted play no part.                                                    *)
LookForBudgets(r) ==
  /\ call[r].at = "looking" /\ call[r].does \in {"budgets", "upsert"}
  /\ call' = [call EXCEPT ![r].at = "saving",
       ![r].found = [c \in Budgeted |-> IF call[r].wanted[c] # 0 THEN budget[c] ELSE NoBudget]]
  /\ UNCHANGED <<regular, entered, made, plan, budget, calls, saves, overlapped>>

SkipBudget(r, c) ==
  /\ call[r].at = "saving" /\ call[r].wanted[c] # 0
  /\ call[r].found[c] # NoBudget /\ ~call[r].overwrite
  /\ call' = [call EXCEPT ![r].wanted[c] = 0]
  /\ UNCHANGED <<regular, entered, made, plan, budget, calls, saves, overlapped>>

(* A row that is not there under its id is inserted, and fails the unique  *)
(* constraint when there is another one.                                   *)
Insertable(c, id) == budget[c] = NoBudget \/ (budget[c].id = id /\ id # 0)

SaveBudget(r, c) ==
  LET found == call[r].found[c]
  IN /\ call[r].at = "saving" /\ call[r].wanted[c] # 0
     /\ found = NoBudget \/ call[r].overwrite
     /\ Saves
     /\ Insertable(c, found.id)
     /\ budget' = [budget EXCEPT ![c] =
          [id |-> IF found = NoBudget THEN saves + 1 ELSE found.id,
           amount |-> call[r].wanted[c]]]
     /\ call' = [call EXCEPT ![r].wanted[c] = 0]
     /\ UNCHANGED <<regular, entered, made, plan, calls, overlapped>>

BudgetsDone(r) ==
  /\ call[r].at = "saving" /\ call[r].does \in {"budgets", "upsert"}
  /\ \A c \in Budgeted : call[r].wanted[c] = 0
  /\ Over(r)
  /\ UNCHANGED <<regular, entered, made, plan, budget, calls, saves, overlapped>>

(* remove deletes the row.                                                 *)
RemoveBudget(c) ==
  /\ budget[c] # NoBudget
  /\ budget' = [budget EXCEPT ![c] = NoBudget]
  /\ UNCHANGED <<regular, entered, made, plan, call, calls, saves, overlapped>>

(* A query fails, the unique constraint among others, or the process ends: *)
(* what was saved stays.                                                   *)
CallFails(r) ==
  /\ call[r].at # "idle"
  /\ Over(r)
  /\ UNCHANGED <<regular, entered, made, plan, budget, calls, saves, overlapped>>

-----------------------------------------------------------------------------
RecurringNext ==
  \/ \E r \in Callers :
       \/ GenerateIncome(r) \/ LookForIncomes(r) \/ IncomeDone(r)
       \/ \E k \in Keys : SkipIncome(r, k) \/ SaveIncome(r, k)
       \/ \E overwrite \in BOOLEAN : GenerateBudgets(r, overwrite)
       \/ \E c \in Budgeted, amount \in Amounts : Upsert(r, c, amount)
       \/ LookForBudgets(r) \/ BudgetsDone(r) \/ CallFails(r)
       \/ \E c \in Budgeted : SkipBudget(r, c) \/ SaveBudget(r, c)
  \/ \E k \in Keys : EnterIncome(k) \/ RemoveIncome(k)
  \/ \E c \in Budgeted : RemoveBudget(c)

RecurringSpec == RecurringInit /\ [][RecurringNext]_recurringVars

-----------------------------------------------------------------------------
(* However often a month is generated, after failures and removals, the    *)
(* copies of an income come from one generation, unless generations        *)
(* overlapped.  How many copies that one makes is another matter: of two   *)
(* incomes of one key it copies one (SaveIncome), although the comment of  *)
(* generateIncomeFromPrevious speaks of a copy of each item.               *)
GeneratedOnce ==
  \A k \in Keys \ overlapped : \A g, h \in Generations :
    made[k][g] > 0 /\ made[k][h] > 0 => g = h
=============================================================================
