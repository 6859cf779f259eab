-------------------------- MODULE BackofficeProofs --------------------------
(* What is proved of the back office: the recurring incomes and the sums   *)
(* of a household, the tokens of the guards, the menus, the accounts and   *)
(* the lists. Each part names its inductive invariant, shows that every    *)
(* action keeps it, and ends in the theorems.                              *)
EXTENDS MCBackoffice, RightsProofs,
  FiniteSetTheorems, FunctionTheorems, TLAPS

(***************************************************************************)
(* Recurring: a month that is filled from the month before, for every set  *)
(* of incomes, categories and requests.                                    *)
(***************************************************************************)

(* Rows of one key are never more than rows were saved.                    *)
SavesInv ==
  \A k \in Keys :
    /\ regular[k] <= saves /\ entered[k] <= saves
    /\ \A g \in Generations : made[k][g] <= saves

(* No generation has left a copy of the income.                            *)
Uncopied(k) == \A g \in Generations : made[k][g] = 0

(* Not two of them have.                                                   *)
OneCopied(k) ==
  \A g, h \in Generations : made[k][g] > 0 /\ made[k][h] > 0 => g = h

(* Unless generations overlapped, the copies come from one of them, and a  *)
(* generation that has still to copy the income has not been preceded.     *)
OnceInv ==
  \A k \in Keys \ overlapped :
    /\ OneCopied(k)
    /\ \A r \in Callers : Blind(r, k) => Uncopied(k)

(* Only a generation of incomes has incomes to copy.                       *)
HasWork(c, k) == c.todo[k] > 0 => c.does = "income" /\ c.number \in Generations

WorkInv == \A r \in Callers : \A k \in Keys : HasWork(call[r], k)

RecurringInv == RecurringTypeOK /\ SavesInv /\ OnceInv /\ WorkInv

LEMMA NoCallIsCall ==
  /\ NoCall \in Call
  /\ NoCall.at = "idle" /\ NoCall.known = {} /\ \A k \in Keys : NoCall.todo[k] = 0
  /\ \A k \in Keys : HasWork(NoCall, k)
BY RecurringBoundsAssumption DEF NoCall, Call, NoKeys, Unplanned, NoBudget, Budget, HasWork

LEMMA RecurringStarts == RecurringInit => RecurringInv
<1> SUFFICES ASSUME RecurringInit PROVE RecurringInv
  OBVIOUS
<1>0. MaxRows \in Nat /\ MaxCalls \in Nat
  BY RecurringBoundsAssumption
<1>1. RecurringTypeOK
  BY <1>0, NoCallIsCall
     DEF RecurringInit, RecurringTypeOK, NoKeys, Unplanned, NoBudget, Budget
<1>a. /\ regular = NoKeys /\ entered = NoKeys
      /\ made = [k \in Keys |-> [g \in Generations |-> 0]]
      /\ saves = 0 /\ call = [r \in Callers |-> NoCall]
  BY Zenon DEF RecurringInit
<1>2. \A k \in Keys : /\ regular[k] = 0 /\ entered[k] = 0
                      /\ \A g \in Generations : made[k][g] = 0
  BY <1>a DEF NoKeys
<1>3. saves = 0 /\ \A r \in Callers : call[r] = NoCall
  BY <1>a
<1>4. SavesInv
  <2>1. 0 <= 0
    OBVIOUS
  <2>2. QED
    BY Zenon, <1>2, <1>3, <2>1 DEF SavesInv
<1>5. OnceInv
  <2>1. ~(0 > 0)
    OBVIOUS
  <2>2. QED
    BY Zenon, <1>2, <2>1 DEF OnceInv, OneCopied, Uncopied
<1>6. WorkInv
  BY <1>3, NoCallIsCall DEF WorkInv
<1>7. QED
  BY <1>1, <1>4, <1>5, <1>6 DEF RecurringInv

-----------------------------------------------------------------------------
(* One request becomes another: the table of requests keeps its type, and  *)
(* what holds for all others goes on.                                      *)
LEMMA CallStep ==
  ASSUME RecurringTypeOK, NEW r \in Callers, NEW new \in Call,
         call' = [call EXCEPT ![r] = new]
  PROVE  /\ call' \in [Callers -> Call] /\ call'[r] = new
         /\ \A q \in Callers \ {r} : call'[q] = call[q]
BY DEF RecurringTypeOK

(* Steps that save no income keep the invariant when they blind no request *)
(* and give none incomes to copy.                                          *)
LEMMA AsideKeeps ==
  ASSUME RecurringInv, RecurringTypeOK',
         UNCHANGED <<regular, entered, made, overlapped>>, saves <= saves',
         \A r \in Callers, k \in Keys : Blind(r, k)' => Blind(r, k),
         \A r \in Callers, k \in Keys : HasWork(call'[r], k)
  PROVE  RecurringInv'
<1>1. /\ saves \in Nat /\ saves' \in Nat
      /\ \A k \in Keys : /\ regular[k] \in Nat /\ entered[k] \in Nat
                          /\ \A g \in Generations : made[k][g] \in Nat
  BY RecurringBoundsAssumption DEF RecurringInv, RecurringTypeOK
<1>2. SavesInv'
  BY <1>1 DEF RecurringInv, SavesInv
<1>3. OnceInv'
  BY DEF RecurringInv, OnceInv, OneCopied, Uncopied
<1>4. WorkInv'
  BY DEF WorkInv
<1>5. QED
  BY <1>2, <1>3, <1>4 DEF RecurringInv

(* A request begins, with nothing known and nothing to save yet.           *)
LEMMA BeginKeeps ==
  ASSUME RecurringInv, NEW r \in Callers, NEW does \in Call, does.at = "looking",
         \A k \in Keys : HasWork(does, k),
         BeginCall(r, does),
         UNCHANGED <<regular, entered, made, plan, budget, saves, overlapped>>
  PROVE  RecurringInv'
<1>0. MaxCalls \in Nat /\ saves \in Nat
  BY RecurringBoundsAssumption DEF RecurringInv, RecurringTypeOK
<1>1. /\ call' \in [Callers -> Call] /\ call'[r] = does
      /\ \A q \in Callers \ {r} : call'[q] = call[q]
  BY CallStep DEF BeginCall, RecurringInv
<1>2. RecurringTypeOK'
  BY <1>0, <1>1 DEF BeginCall, RecurringInv, RecurringTypeOK
<1>3. \A q \in Callers, k \in Keys : Blind(q, k)' => Blind(q, k)
  BY <1>1 DEF Blind
<1>4. \A q \in Callers, k \in Keys : HasWork(call'[q], k)
  BY <1>1 DEF RecurringInv, WorkInv
<1>5. QED
  BY <1>0, <1>2, <1>3, <1>4, AsideKeeps

(* A request goes on or ends without a copy.                               *)
LEMMA GoOnKeeps ==
  ASSUME RecurringInv, NEW r \in Callers, NEW new \in Call,
         call' = [call EXCEPT ![r] = new],
         UNCHANGED <<regular, entered, made, plan, budget, calls, saves, overlapped>>,
         \A k \in Keys : HasWork(new, k),
         \A k \in Keys : new.does = "income" /\ new.at = "saving" /\ k \notin new.known
                           => Blind(r, k)
  PROVE  RecurringInv'
<1>1. /\ call' \in [Callers -> Call] /\ call'[r] = new
      /\ \A q \in Callers \ {r} : call'[q] = call[q]
  BY CallStep DEF RecurringInv
<1>2. RecurringTypeOK' /\ saves \in Nat
  BY <1>1, RecurringBoundsAssumption DEF RecurringInv, RecurringTypeOK
<1>3. \A q \in Callers, k \in Keys : Blind(q, k)' => Blind(q, k)
  BY <1>1 DEF Blind
<1>4. \A q \in Callers, k \in Keys : HasWork(call'[q], k)
  BY <1>1 DEF RecurringInv, WorkInv
<1>5. QED
  BY <1>2, <1>3, <1>4, AsideKeeps

(* A request ends.                                                         *)
LEMMA OverKeeps ==
  ASSUME RecurringInv, NEW r \in Callers, Over(r),
         UNCHANGED <<regular, entered, made, plan, budget, calls, saves, overlapped>>
  PROVE  RecurringInv'
<1>1. \A k \in Keys : HasWork(NoCall, k) /\ NoCall.at # "saving"
  BY NoCallIsCall
<1>2. call' = [call EXCEPT ![r] = NoCall]
  BY Zenon DEF Over
<1>3. QED
  BY <1>1, <1>2, NoCallIsCall, GoOnKeeps

-----------------------------------------------------------------------------
(* Incomes                                                                 *)

(* What the month has already is known before anything is copied.          *)
LEMMA LookForIncomesKeeps ==
  ASSUME RecurringInv, NEW r \in Callers, LookForIncomes(r)
  PROVE  RecurringInv'
<1> DEFINE new == [call[r] EXCEPT !.at = "saving", !.known = {k \in Keys : Present(k)}]
<1>0. call[r] \in Call
  BY DEF RecurringInv, RecurringTypeOK
<1>1. /\ new \in Call /\ new.does = call[r].does /\ new.todo = call[r].todo
      /\ new.known = {k \in Keys : Present(k)} /\ new.number = call[r].number
  BY <1>0 DEF Call
<1>2. call' = [call EXCEPT ![r] = new]
  BY DEF LookForIncomes
<1>3. /\ call' \in [Callers -> Call] /\ call'[r] = new
      /\ \A q \in Callers \ {r} : call'[q] = call[q]
  BY <1>1, <1>2, CallStep DEF RecurringInv
<1>4. RecurringTypeOK'
  BY <1>3 DEF LookForIncomes, RecurringInv, RecurringTypeOK
<1>5. SavesInv'
  BY DEF LookForIncomes, RecurringInv, SavesInv
<1>6. OnceInv'
  <2> SUFFICES ASSUME NEW k \in Keys \ overlapped
               PROVE  /\ OneCopied(k)
                      /\ \A q \in Callers : Blind(q, k)' => Uncopied(k)
    BY DEF LookForIncomes, OnceInv, OneCopied, Uncopied
  <2>1. OneCopied(k) /\ \A q \in Callers : Blind(q, k) => Uncopied(k)
    BY DEF RecurringInv, OnceInv
  <2>2. \A g \in Generations : made[k][g] \in Nat
    BY RecurringBoundsAssumption DEF RecurringInv, RecurringTypeOK
  <2>3. k \notin new.known => Uncopied(k)
    BY <1>1, <2>2 DEF Present, Uncopied
  <2>4. Blind(r, k)' => Uncopied(k)
    BY <1>3, <2>3 DEF Blind
  <2>5. \A q \in Callers \ {r} : Blind(q, k)' => Uncopied(k)
    BY <1>3, <2>1 DEF Blind
  <2>6. QED
    BY <2>1, <2>4, <2>5
<1>7. WorkInv'
  BY <1>1, <1>3 DEF RecurringInv, WorkInv, HasWork
<1>8. QED
  BY <1>4, <1>5, <1>6, <1>7 DEF RecurringInv

LEMMA SkipIncomeKeeps ==
  ASSUME RecurringInv, NEW r \in Callers, NEW k \in Keys, SkipIncome(r, k)
  PROVE  RecurringInv'
<1> DEFINE new == [call[r] EXCEPT !.todo[k] = @ - 1]
<1>0. call[r] \in Call /\ MaxRows \in Nat
  BY RecurringBoundsAssumption DEF RecurringInv, RecurringTypeOK
<1>1. call[r].todo \in [Keys -> 0..MaxRows] /\ call[r].todo[k] > 0
  BY <1>0 DEF SkipIncome, Call
<1>2. [call[r].todo EXCEPT ![k] = @ - 1] \in [Keys -> 0..MaxRows]
  BY <1>0, <1>1
<1>3. /\ new \in Call /\ new.does = call[r].does /\ new.at = call[r].at
      /\ new.known = call[r].known /\ new.number = call[r].number
  BY <1>0, <1>2 DEF Call
<1>4. call' = [call EXCEPT ![r] = new]
  BY DEF SkipIncome
<1>5. call[r].does = "income" /\ call[r].number \in Generations
  BY <1>1 DEF RecurringInv, WorkInv, HasWork
<1>6. \A j \in Keys : HasWork(new, j)
  BY <1>3, <1>5 DEF HasWork
<1>7. \A j \in Keys : new.does = "income" /\ new.at = "saving" /\ j \notin new.known
                       => Blind(r, j)
  BY <1>3 DEF Blind
<1>8. UNCHANGED <<regular, entered, made, plan, budget, calls, saves, overlapped>>
  BY DEF SkipIncome
<1> HIDE DEF new
<1>9. QED
  BY <1>3, <1>4, <1>6, <1>7, <1>8, GoOnKeeps

(* The copy of a second generation is made beside another request that     *)
(* has not seen the first.                                                 *)
LEMMA SaveIncomeKeeps ==
  ASSUME RecurringInv, NEW r \in Callers, NEW k \in Keys, SaveIncome(r, k)
  PROVE  RecurringInv'
<1> DEFINE new == [call[r] EXCEPT !.todo[k] = @ - 1, !.known = @ \cup {k}]
           n == call[r].number
           copies == [made[k] EXCEPT ![n] = @ + 1]
<1>0. /\ call[r] \in Call /\ MaxRows \in Nat /\ MaxCalls \in Nat /\ saves \in 0..MaxRows
      /\ made \in [Keys -> [Generations -> 0..MaxRows]]
  BY RecurringBoundsAssumption DEF RecurringInv, RecurringTypeOK
<1>1. /\ call[r].todo \in [Keys -> 0..MaxRows] /\ call[r].todo[k] > 0
      /\ call[r].known \in SUBSET Keys
  BY <1>0 DEF SaveIncome, Call
<1>2. [call[r].todo EXCEPT ![k] = @ - 1] \in [Keys -> 0..MaxRows]
  BY <1>0, <1>1
<1>3. /\ new \in Call /\ new.does = call[r].does /\ new.at = call[r].at
      /\ new.known = call[r].known \cup {k} /\ new.number = n
  BY <1>0, <1>1, <1>2 DEF Call
<1>4. call' = [call EXCEPT ![r] = new]
  BY DEF SaveIncome
<1>5. /\ call' \in [Callers -> Call] /\ call'[r] = new
      /\ \A q \in Callers \ {r} : call'[q] = call[q]
  BY <1>3, <1>4, CallStep DEF RecurringInv
<1>13. call[r].does = "income" /\ n \in Generations
  BY <1>1 DEF RecurringInv, WorkInv, HasWork
<1>6. /\ saves' = saves + 1 /\ saves' \in 0..MaxRows
      /\ made' = [made EXCEPT ![k] = copies]
      /\ UNCHANGED <<regular, entered, plan, budget, calls>>
  BY <1>0 DEF SaveIncome, Saves
<1>7. \A g \in Generations : made[k][g] <= saves /\ made[k][g] \in Nat
  BY <1>0 DEF RecurringInv, SavesInv
<1>8. /\ copies \in [Generations -> 0..MaxRows]
      /\ \A g \in Generations : copies[g] <= saves' /\ (g # n => copies[g] = made[k][g])
  BY <1>0, <1>6, <1>7, <1>13
<1>16. /\ made' \in [Keys -> [Generations -> 0..MaxRows]] /\ made'[k] = copies
       /\ \A j \in Keys \ {k} : made'[j] = made[j]
  <2> HIDE DEF copies
  <2>1. QED
    BY <1>0, <1>6, <1>8
<1> HIDE DEF copies
<1>9. /\ overlapped' \in SUBSET Keys /\ overlapped \in SUBSET overlapped'
      /\ (\E q \in Callers \ {r} : Blind(q, k)) => k \in overlapped'
  BY DEF SaveIncome, RecurringInv, RecurringTypeOK
<1>10. RecurringTypeOK'
  BY <1>5, <1>6, <1>16, <1>9 DEF RecurringInv, RecurringTypeOK
<1>11. SavesInv'
  <2>1. \A j \in Keys : /\ regular[j] \in Nat /\ entered[j] \in Nat
                        /\ regular[j] <= saves /\ entered[j] <= saves
                        /\ \A g \in Generations : made[j][g] \in Nat /\ made[j][g] <= saves
    BY <1>0 DEF RecurringInv, RecurringTypeOK, SavesInv
  <2>2. \A j \in Keys : regular'[j] <= saves' /\ entered'[j] <= saves'
    BY <1>0, <1>6, <2>1
  <2>3. \A j \in Keys : \A g \in Generations : made'[j][g] <= saves'
    BY <1>0, <1>6, <1>8, <1>16, <2>1
  <2>4. QED
    BY <2>2, <2>3 DEF SavesInv
<1>12. OnceInv'
  <2> SUFFICES ASSUME NEW j \in Keys \ overlapped'
               PROVE  /\ OneCopied(j)'
                      /\ \A q \in Callers : Blind(q, j)' => Uncopied(j)'
    BY DEF OnceInv
  <2>0. OneCopied(j) /\ \A q \in Callers : Blind(q, j) => Uncopied(j)
    BY <1>9 DEF RecurringInv, OnceInv
  <2>1. \A q \in Callers : Blind(q, j)' => Blind(q, j)
    BY <1>3, <1>5 DEF Blind
  <2>2. CASE j # k
    BY <1>16, <2>0, <2>1, <2>2 DEF OneCopied, Uncopied
  <2>3. CASE j = k
    <3>1. Uncopied(k)
      BY <1>13, <2>0, <2>3 DEF SaveIncome, Blind
    <3>2. \A q \in Callers \ {r} : ~Blind(q, k)'
      BY <1>5, <1>9, <2>3 DEF Blind
    <3>3. ~Blind(r, k)'
      BY <1>3, <1>5 DEF Blind
    <3>4. \A g \in Generations : copies[g] > 0 => g = n
      BY <1>8, <3>1 DEF Uncopied
    <3>5. OneCopied(k)'
      BY <1>16, <3>4 DEF OneCopied
    <3>6. QED
      BY <2>3, <3>2, <3>3, <3>5
  <2>4. QED
    BY <2>2, <2>3
<1>14. WorkInv'
  BY <1>3, <1>5, <1>13 DEF RecurringInv, WorkInv, HasWork
<1>15. QED
  BY <1>10, <1>11, <1>12, <1>14 DEF RecurringInv

(* Rows entered, changed and removed by hand.                              *)
LEMMA ByHandKeeps ==
  ASSUME RecurringInv, saves \in Nat, saves' \in Nat, saves <= saves', saves' <= MaxRows,
         made \in [Keys -> [Generations -> Nat]],
         regular' \in [Keys -> Nat], entered' \in [Keys -> Nat],
         made' \in [Keys -> [Generations -> Nat]],
         \A j \in Keys : regular'[j] <= saves' /\ entered'[j] <= saves',
         \A j \in Keys : \A g \in Generations : made'[j][g] <= made[j][g],
         UNCHANGED <<plan, budget, call, calls, overlapped>>
  PROVE  RecurringInv'
<1>0. MaxRows \in Nat
  BY RecurringBoundsAssumption
<1>1. \A j \in Keys : \A g \in Generations : made[j][g] <= saves
  BY DEF RecurringInv, SavesInv
<1>2. SavesInv'
  BY <1>1 DEF SavesInv
<1>3. /\ regular' \in [Keys -> 0..MaxRows] /\ entered' \in [Keys -> 0..MaxRows]
      /\ made' \in [Keys -> [Generations -> 0..MaxRows]]
  BY <1>0, <1>2 DEF SavesInv
<1>4. RecurringTypeOK'
  BY <1>0, <1>3 DEF RecurringInv, RecurringTypeOK
<1>5. OnceInv'
  <2> SUFFICES ASSUME NEW k \in Keys \ overlapped'
               PROVE  /\ OneCopied(k)'
                      /\ \A r \in Callers : Blind(r, k)' => Uncopied(k)'
    BY DEF OnceInv
  <2>1. /\ OneCopied(k)
        /\ \A r \in Callers : Blind(r, k) => Uncopied(k)
    BY DEF RecurringInv, OnceInv
  <2>2. \A r \in Callers : Blind(r, k)' => Blind(r, k)
    BY DEF Blind
  <2>3. \A g \in Generations :
          made'[k][g] \in Nat /\ made'[k][g] <= made[k][g] /\ made[k][g] \in Nat
    OBVIOUS
  <2>4. OneCopied(k)' /\ (Uncopied(k) => Uncopied(k)')
    BY <2>1, <2>3 DEF OneCopied, Uncopied
  <2>5. QED
    BY <2>1, <2>2, <2>4
<1>6. WorkInv'
  BY DEF RecurringInv, WorkInv
<1>7. QED
  BY <1>2, <1>4, <1>5, <1>6 DEF RecurringInv

(* What the cases of the following two lemmas start from.                  *)
LEMMA CountsAre ==
  ASSUME RecurringInv
  PROVE  /\ saves \in Nat /\ saves <= MaxRows /\ MaxRows \in Nat
         /\ regular \in [Keys -> Nat] /\ entered \in [Keys -> Nat]
         /\ made \in [Keys -> [Generations -> Nat]]
         /\ \A j \in Keys : regular[j] <= saves /\ entered[j] <= saves
BY RecurringBoundsAssumption DEF RecurringInv, RecurringTypeOK, SavesInv

LEMMA EnterIncomeKeeps ==
  ASSUME RecurringInv, NEW k \in Keys, EnterIncome(k)
  PROVE  RecurringInv'
<1>1. /\ saves \in Nat /\ saves' = saves + 1 /\ saves' <= MaxRows /\ MaxRows \in Nat
      /\ UNCHANGED <<made, plan, budget, call, calls, overlapped>>
  BY CountsAre DEF EnterIncome, Saves
<1>2. CASE regular' = [regular EXCEPT ![k] = @ + 1] /\ UNCHANGED entered
  <2>1. /\ regular' \in [Keys -> Nat]
        /\ \A j \in Keys : regular'[j] <= saves' /\ entered'[j] <= saves'
    BY <1>1, <1>2, CountsAre
  <2>2. QED
    BY <1>1, <1>2, <2>1, CountsAre, ByHandKeeps
<1>3. CASE entered' = [entered EXCEPT ![k] = @ + 1] /\ UNCHANGED regular
  <2>1. /\ entered' \in [Keys -> Nat]
        /\ \A j \in Keys : regular'[j] <= saves' /\ entered'[j] <= saves'
    BY <1>1, <1>3, CountsAre
  <2>2. QED
    BY <1>1, <1>3, <2>1, CountsAre, ByHandKeeps
<1>4. QED
  BY <1>2, <1>3 DEF EnterIncome

LEMMA RemoveIncomeKeeps ==
  ASSUME RecurringInv, NEW k \in Keys, RemoveIncome(k)
  PROVE  RecurringInv'
<1>0. UNCHANGED <<regular, plan, budget, call, calls, overlapped>>
  BY DEF RemoveIncome
<1>1. ASSUME NEW g \in Generations, made[k][g] > 0, made' = [made EXCEPT ![k][g] = @ - 1],
             \/ UNCHANGED <<entered, saves>>
             \/ \E j \in Keys \ {k} : Saves /\ entered' = [entered EXCEPT ![j] = @ + 1]
      PROVE  RecurringInv'
  <2>1. made[k] \in [Generations -> Nat]
    BY CountsAre
  <2>2. /\ [made[k] EXCEPT ![g] = @ - 1] \in [Generations -> Nat]
        /\ \A h \in Generations : [made[k] EXCEPT ![g] = @ - 1][h] <= made[k][h]
    BY <1>1, <2>1
  <2>3. made' = [made EXCEPT ![k] = [made[k] EXCEPT ![g] = @ - 1]]
    BY <1>1
  <2>4. /\ made' \in [Keys -> [Generations -> Nat]]
        /\ \A j \in Keys : \A h \in Generations : made'[j][h] <= made[j][h]
    BY <2>2, <2>3, CountsAre
  <2>5. CASE UNCHANGED <<entered, saves>>
    BY <1>0, <2>4, <2>5, CountsAre, ByHandKeeps
  <2>6. ASSUME NEW j \in Keys \ {k}, Saves, entered' = [entered EXCEPT ![j] = @ + 1]
        PROVE  RecurringInv'
    <3>1. saves' = saves + 1 /\ saves' <= MaxRows
      BY <2>6, CountsAre DEF Saves
    <3>2. entered' \in [Keys -> Nat] /\ \A i \in Keys : entered'[i] <= saves'
      BY <2>6, <3>1, CountsAre
    <3>3. \A i \in Keys : regular'[i] <= saves'
      BY <1>0, <3>1, CountsAre
    <3>4. QED
      BY <1>0, <2>4, <3>1, <3>2, <3>3, CountsAre, ByHandKeeps
  <2>7. QED
    BY <1>1, <2>5, <2>6
<1>2. CASE entered[k] > 0 /\ entered' = [entered EXCEPT ![k] = @ - 1]
             /\ UNCHANGED <<made, saves>>
  <2>1. entered' \in [Keys -> Nat] /\ \A j \in Keys : entered'[j] <= saves
    BY <1>2, CountsAre
  <2>2. QED
    BY <1>0, <1>2, <2>1, CountsAre, ByHandKeeps
<1>4. QED
  BY <1>1, <1>2 DEF RemoveIncome

LEMMA GenerateIncomeKeeps ==
  ASSUME RecurringInv, NEW r \in Callers, GenerateIncome(r)
  PROVE  RecurringInv'
<1> DEFINE does == [NoCall EXCEPT !.at = "looking", !.does = "income",
                                  !.number = calls + 1, !.todo = regular]
<1>1. /\ regular \in [Keys -> 0..MaxRows]
      /\ calls \in 0..MaxCalls /\ MaxCalls \in Nat /\ calls < MaxCalls
  BY RecurringBoundsAssumption DEF RecurringInv, RecurringTypeOK, GenerateIncome, BeginCall
<1>5. calls + 1 \in Generations /\ calls + 1 \in 0..MaxCalls
  BY <1>1 DEF Generations
<1>2. /\ does \in Call /\ does.at = "looking" /\ does.does = "income"
      /\ does.number = calls + 1
  BY <1>1, <1>5, NoCallIsCall DEF Call
<1>6. \A k \in Keys : HasWork(does, k)
  BY <1>2, <1>5 DEF HasWork
<1>3. /\ BeginCall(r, does)
      /\ UNCHANGED <<regular, entered, made, plan, budget, saves, overlapped>>
  BY DEF GenerateIncome
<1> HIDE DEF does
<1>4. QED
  BY <1>2, <1>3, <1>6, BeginKeeps

-----------------------------------------------------------------------------
(* Budgets, which touch no income.                                         *)

(* A generation or an upsert of budgets has no income to copy.             *)
LEMMA GenerateBudgetsKeeps ==
  ASSUME RecurringInv, NEW r \in Callers, NEW overwrite \in BOOLEAN,
         GenerateBudgets(r, overwrite)
  PROVE  RecurringInv'
<1> DEFINE does == [NoCall EXCEPT !.at = "looking", !.does = "budgets",
                                  !.overwrite = overwrite, !.wanted = plan]
<1>1. plan \in [Budgeted -> Amounts \cup {0}]
  BY DEF RecurringInv, RecurringTypeOK
<1>2. does \in Call /\ does.at = "looking" /\ does.todo = NoCall.todo
  BY <1>1, NoCallIsCall DEF Call
<1>4. /\ BeginCall(r, does)
      /\ UNCHANGED <<regular, entered, made, plan, budget, saves, overlapped>>
  BY DEF GenerateBudgets
<1> HIDE DEF does
<1>3. \A k \in Keys : HasWork(does, k)
  <2>1. \A k \in Keys : does.todo[k] = 0
    BY Zenon, <1>2, NoCallIsCall
  <2>2. ~(0 > 0)
    OBVIOUS
  <2>3. QED
    BY Zenon, <2>1, <2>2 DEF HasWork
<1>5. QED
  BY <1>2, <1>3, <1>4, BeginKeeps

LEMMA UpsertKeeps ==
  ASSUME RecurringInv, NEW r \in Callers, NEW c \in Budgeted, NEW amount \in Amounts,
         Upsert(r, c, amount)
  PROVE  RecurringInv'
<1> DEFINE does == [NoCall EXCEPT !.at = "looking", !.does = "upsert", !.overwrite = TRUE,
                                  !.wanted[c] = amount]
<1>1. [NoCall.wanted EXCEPT ![c] = amount] \in [Budgeted -> Amounts \cup {0}]
  BY NoCallIsCall DEF Call
<1>2. does \in Call /\ does.at = "looking" /\ does.todo = NoCall.todo
  BY <1>1, NoCallIsCall DEF Call
<1>4. /\ BeginCall(r, does)
      /\ UNCHANGED <<regular, entered, made, plan, budget, saves, overlapped>>
  BY DEF Upsert
<1> HIDE DEF does
<1>3. \A k \in Keys : HasWork(does, k)
  <2>1. \A k \in Keys : does.todo[k] = 0
    BY Zenon, <1>2, NoCallIsCall
  <2>2. ~(0 > 0)
    OBVIOUS
  <2>3. QED
    BY Zenon, <2>1, <2>2 DEF HasWork
<1>5. QED
  BY <1>2, <1>3, <1>4, BeginKeeps

LEMMA LookForBudgetsKeeps ==
  ASSUME RecurringInv, NEW r \in Callers, LookForBudgets(r)
  PROVE  RecurringInv'
<1> DEFINE there == [c \in Budgeted |-> IF call[r].wanted[c] # 0 THEN budget[c] ELSE NoBudget]
           new == [call[r] EXCEPT !.at = "saving", !.found = there]
<1>0. call[r] \in Call /\ budget \in [Budgeted -> Budget] /\ NoBudget \in Budget
  BY RecurringBoundsAssumption DEF RecurringInv, RecurringTypeOK, NoBudget, Budget
<1>1. there \in [Budgeted -> Budget]
  BY <1>0
<1>2. /\ new \in Call /\ new.does = call[r].does /\ new.todo = call[r].todo
      /\ new.number = call[r].number
  BY <1>0, <1>1 DEF Call
<1>3. call' = [call EXCEPT ![r] = new]
  BY DEF LookForBudgets
<1>4. call[r].does \in {"budgets", "upsert"}
  BY DEF LookForBudgets
<1>5. \A k \in Keys : HasWork(new, k)
  BY <1>2 DEF RecurringInv, WorkInv, HasWork
<1>6. new.does # "income"
  BY <1>2, <1>4
<1>7. UNCHANGED <<regular, entered, made, plan, budget, calls, saves, overlapped>>
  BY DEF LookForBudgets
<1> HIDE DEF new
<1>8. QED
  BY <1>2, <1>3, <1>5, <1>6, <1>7, GoOnKeeps

(* A category is done with: nothing else of the request changes.           *)
LEMMA WantedStep ==
  ASSUME RecurringInv, NEW r \in Callers, NEW c \in Budgeted,
         call' = [call EXCEPT ![r].wanted[c] = 0]
  PROVE  LET new == [call[r] EXCEPT !.wanted[c] = 0]
         IN /\ new \in Call /\ call' = [call EXCEPT ![r] = new]
            /\ new.does = call[r].does /\ new.at = call[r].at
            /\ new.todo = call[r].todo /\ new.known = call[r].known
            /\ new.number = call[r].number
<1>1. call[r] \in Call
  BY DEF RecurringInv, RecurringTypeOK
<1>2. [call[r].wanted EXCEPT ![c] = 0] \in [Budgeted -> Amounts \cup {0}]
  BY <1>1 DEF Call
<1>3. QED
  BY <1>1, <1>2 DEF Call

LEMMA SkipBudgetKeeps ==
  ASSUME RecurringInv, NEW r \in Callers, NEW c \in Budgeted, SkipBudget(r, c)
  PROVE  RecurringInv'
<1> DEFINE new == [call[r] EXCEPT !.wanted[c] = 0]
<1>1. /\ call' = [call EXCEPT ![r].wanted[c] = 0]
      /\ UNCHANGED <<regular, entered, made, plan, budget, calls, saves, overlapped>>
  BY DEF SkipBudget
<1>2. /\ new \in Call /\ call' = [call EXCEPT ![r] = new]
      /\ new.does = call[r].does /\ new.at = call[r].at
      /\ new.todo = call[r].todo /\ new.known = call[r].known
      /\ new.number = call[r].number
  BY <1>1, WantedStep
<1> HIDE DEF new
<1>3. \A k \in Keys : HasWork(new, k)
  BY <1>2 DEF RecurringInv, WorkInv, HasWork
<1>4. \A k \in Keys : new.does = "income" /\ new.at = "saving" /\ k \notin new.known
                       => Blind(r, k)
  BY <1>2 DEF Blind
<1>5. QED
  BY <1>1, <1>2, <1>3, <1>4, GoOnKeeps

LEMMA SaveBudgetKeeps ==
  ASSUME RecurringInv, NEW r \in Callers, NEW c \in Budgeted, SaveBudget(r, c)
  PROVE  RecurringInv'
<1> DEFINE new == [call[r] EXCEPT !.wanted[c] = 0]
           found == call[r].found[c]
           value == [id |-> IF found = NoBudget THEN saves + 1 ELSE found.id,
                   amount |-> call[r].wanted[c]]
<1>0. /\ saves \in 0..MaxRows /\ MaxRows \in Nat
      /\ call[r] \in Call /\ budget \in [Budgeted -> Budget]
  BY RecurringBoundsAssumption DEF RecurringInv, RecurringTypeOK
<1>1. /\ call' = [call EXCEPT ![r].wanted[c] = 0]
      /\ saves < MaxRows /\ saves' = saves + 1
      /\ budget' = [budget EXCEPT ![c] = value]
      /\ UNCHANGED <<regular, entered, made, plan, calls, overlapped>>
  BY DEF SaveBudget, Saves
<1>2. /\ new \in Call /\ call' = [call EXCEPT ![r] = new]
      /\ new.does = call[r].does /\ new.at = call[r].at
      /\ new.todo = call[r].todo /\ new.known = call[r].known
      /\ new.number = call[r].number
  BY <1>1, WantedStep
<1>3. value \in Budget
  BY <1>0, <1>1 DEF Call, Budget
<1> HIDE DEF new, value, found
<1>4. /\ call' \in [Callers -> Call] /\ call'[r] = new
      /\ \A q \in Callers \ {r} : call'[q] = call[q]
  BY <1>2, CallStep DEF RecurringInv
<1>5. saves' \in 0..MaxRows /\ saves <= saves'
  BY <1>0, <1>1
<1>6. RecurringTypeOK'
  BY <1>0, <1>1, <1>3, <1>4, <1>5 DEF RecurringInv, RecurringTypeOK
<1>7. \A q \in Callers, k \in Keys : Blind(q, k)' => Blind(q, k)
  BY <1>2, <1>4 DEF Blind
<1>8. \A q \in Callers, k \in Keys : HasWork(call'[q], k)
  BY <1>2, <1>4 DEF RecurringInv, WorkInv, HasWork
<1>9. QED
  BY <1>1, <1>5, <1>6, <1>7, <1>8, AsideKeeps

LEMMA RemoveBudgetKeeps ==
  ASSUME RecurringInv, NEW c \in Budgeted, RemoveBudget(c)
  PROVE  RecurringInv'
<1>1. /\ budget' = [budget EXCEPT ![c] = NoBudget]
      /\ UNCHANGED <<regular, entered, made, plan, call, calls, saves, overlapped>>
  BY DEF RemoveBudget
<1>2. NoBudget \in Budget /\ saves \in Nat
  BY RecurringBoundsAssumption DEF RecurringInv, RecurringTypeOK, NoBudget, Budget
<1>3. RecurringTypeOK'
  BY <1>1, <1>2 DEF RecurringInv, RecurringTypeOK
<1>4. \A q \in Callers, k \in Keys : Blind(q, k)' => Blind(q, k)
  BY <1>1 DEF Blind
<1>5. \A q \in Callers, k \in Keys : HasWork(call'[q], k)
  BY <1>1 DEF RecurringInv, WorkInv
<1>6. QED
  BY <1>1, <1>2, <1>3, <1>4, <1>5, AsideKeeps

-----------------------------------------------------------------------------
LEMMA RecurringStep == RecurringInv /\ [RecurringNext]_recurringVars => RecurringInv'
<1> SUFFICES ASSUME RecurringInv, [RecurringNext]_recurringVars
             PROVE  RecurringInv'
  OBVIOUS
<1>1. ASSUME NEW r \in Callers, GenerateIncome(r) PROVE RecurringInv'
  BY <1>1, GenerateIncomeKeeps
<1>2. ASSUME NEW r \in Callers, LookForIncomes(r) PROVE RecurringInv'
  BY <1>2, LookForIncomesKeeps
<1>3. ASSUME NEW r \in Callers, IncomeDone(r) PROVE RecurringInv'
  BY <1>3, OverKeeps DEF IncomeDone
<1>4. ASSUME NEW r \in Callers, NEW k \in Keys, SkipIncome(r, k) PROVE RecurringInv'
  BY <1>4, SkipIncomeKeeps
<1>5. ASSUME NEW r \in Callers, NEW k \in Keys, SaveIncome(r, k) PROVE RecurringInv'
  BY <1>5, SaveIncomeKeeps
<1>6. ASSUME NEW r \in Callers, NEW overwrite \in BOOLEAN, GenerateBudgets(r, overwrite)
      PROVE  RecurringInv'
  BY <1>6, GenerateBudgetsKeeps
<1>7. ASSUME NEW r \in Callers, NEW c \in Budgeted, NEW amount \in Amounts,
             Upsert(r, c, amount)
      PROVE  RecurringInv'
  BY <1>7, UpsertKeeps
<1>8. ASSUME NEW r \in Callers, LookForBudgets(r) PROVE RecurringInv'
  BY <1>8, LookForBudgetsKeeps
<1>9. ASSUME NEW r \in Callers, BudgetsDone(r) PROVE RecurringInv'
  BY <1>9, OverKeeps DEF BudgetsDone
<1>10. ASSUME NEW r \in Callers, CallFails(r) PROVE RecurringInv'
  BY <1>10, OverKeeps DEF CallFails
<1>11. ASSUME NEW r \in Callers, NEW c \in Budgeted, SkipBudget(r, c) PROVE RecurringInv'
  BY <1>11, SkipBudgetKeeps
<1>12. ASSUME NEW r \in Callers, NEW c \in Budgeted, SaveBudget(r, c) PROVE RecurringInv'
  BY <1>12, SaveBudgetKeeps
<1>13. ASSUME NEW k \in Keys, EnterIncome(k) PROVE RecurringInv'
  BY <1>13, EnterIncomeKeeps
<1>14. ASSUME NEW k \in Keys, RemoveIncome(k) PROVE RecurringInv'
  BY <1>14, RemoveIncomeKeeps
<1>15. ASSUME NEW c \in Budgeted, RemoveBudget(c) PROVE RecurringInv'
  BY <1>15, RemoveBudgetKeeps
<1>16. CASE UNCHANGED recurringVars
  BY <1>16 DEF recurringVars, RecurringInv, RecurringTypeOK, SavesInv, OnceInv, WorkInv, Blind,
     OneCopied, Uncopied
<1>17. QED
  BY <1>1, <1>2, <1>3, <1>4, <1>5, <1>6, <1>7, <1>8, <1>9, <1>10, <1>11, <1>12, <1>13,
     <1>14, <1>15, <1>16 DEF RecurringNext

(* However often and whenever a month is generated, the copies of an       *)
(* income come from one generation unless generations overlapped.          *)
THEOREM IncomeIsCopiedOnce == RecurringSpec => []GeneratedOnce
<1>1. RecurringInv => GeneratedOnce
  BY DEF RecurringInv, OnceInv, OneCopied, GeneratedOnce
<1>2. QED
  BY <1>1, RecurringStarts, RecurringStep, PTL DEF RecurringSpec

(* Every variable keeps its type.                                          *)
THEOREM RecurringIsTyped == RecurringSpec => []RecurringTypeOK
<1>1. RecurringInv => RecurringTypeOK
  BY DEF RecurringInv
<1>2. QED
  BY <1>1, RecurringStarts, RecurringStep, PTL DEF RecurringSpec

(***************************************************************************)
(* AccessTokens: a token that was logged out is refused wherever the guard *)
(* looks it up, for any number of requests and tokens and every lifetime   *)
(* and granularity of the clock.                                           *)
(***************************************************************************)

(* A second is over when its last tick is.                                 *)
LEMMA SecondBounds ==
  ASSUME NEW t \in Nat
  PROVE  /\ SecondOf(t) \in Nat
         /\ TicksPerSecond * SecondOf(t) <= t
         /\ t < TicksPerSecond * (SecondOf(t) + 1)
<1> DEFINE k == TicksPerSecond
           s == t \div k
<1>1. k \in Nat \ {0}
  BY AccessTokensAssumption
<1>2. s \in Nat /\ t % k \in 0 .. (k - 1) /\ t = k * s + (t % k)
  BY <1>1
<1>3. k * (s + 1) = k * s + k
  BY <1>1, <1>2
<1> QED
  BY <1>1, <1>2, <1>3 DEF SecondOf

(* The whole seconds of a time that is not before the start of a second.   *)
LEMMA SecondReached ==
  ASSUME NEW t \in Nat, NEW e \in Nat, TicksPerSecond * e <= t
  PROVE  e <= SecondOf(t)
<1>1. TicksPerSecond \in Nat \ {0} /\ SecondOf(t) \in Nat
  BY AccessTokensAssumption, SecondBounds
<1>2. TicksPerSecond * e < TicksPerSecond * (SecondOf(t) + 1)
  BY <1>1, SecondBounds
<1>3. SUFFICES ASSUME SecondOf(t) + 1 <= e PROVE FALSE
  BY <1>1
<1>4. PICK d \in Nat : e = SecondOf(t) + 1 + d
  <2>1. e - (SecondOf(t) + 1) \in Nat /\ e = SecondOf(t) + 1 + (e - (SecondOf(t) + 1))
    BY <1>1, <1>3
  <2> QED
    BY <2>1
<1>5. TicksPerSecond * e = TicksPerSecond * (SecondOf(t) + 1) + TicksPerSecond * d
  BY <1>1, <1>4
<1>6. TicksPerSecond * d \in Nat
  BY <1>1, <1>4
<1> QED
  BY <1>1, <1>2, <1>5, <1>6

LEMMA SecondsPass ==
  ASSUME NEW t \in Nat PROVE SecondOf(t) <= SecondOf(t + 1)
<1>1. SecondOf(t) \in Nat /\ TicksPerSecond * SecondOf(t) <= t
  BY SecondBounds
<1>2. TicksPerSecond * SecondOf(t) <= t + 1
  BY <1>1, AccessTokensAssumption
<1> QED
  BY <1>1, <1>2, SecondReached

(* A key that is set when a whole number of seconds is left of a token     *)
(* outlives it (ExpiresIn).                                                *)
LEMMA TimeLeft ==
  ASSUME NEW t \in Nat, NEW e \in Nat, NEW left \in Nat, left = e - SecondOf(t)
  PROVE  TicksPerSecond * e <= t + left * TicksPerSecond
<1>1. /\ TicksPerSecond \in Nat \ {0} /\ SecondOf(t) \in Nat
      /\ TicksPerSecond * SecondOf(t) <= t
  BY AccessTokensAssumption, SecondBounds
<1>2. e = SecondOf(t) + left
  BY <1>1
<1>3. TicksPerSecond * e = TicksPerSecond * SecondOf(t) + left * TicksPerSecond
  BY <1>1, <1>2
<1>4. left * TicksPerSecond \in Nat /\ TicksPerSecond * SecondOf(t) \in Nat
  BY <1>1
<1> QED
  BY <1>1, <1>3, <1>4

-----------------------------------------------------------------------------
Inside == {"in", "revoking", "sweeping", "barring"}

(* The key of a token that is out lasts until the token does not; a SET    *)
(* under way will see to that.  A request that came with such a token and  *)
(* was looked up without a key is refused for the time.                    *)
Lasting(token) == Expired(token) \/ TicksPerSecond * Exp(token) <= barred[token]

VisitInv(v) ==
  /\ visit[v].at # "idle" =>
       visit[v].token \in Tokens /\ visit[v].token <= SecondOf(clock)
  /\ visit[v].at = "barring" =>
       TicksPerSecond * Exp(visit[v].token) <= clock + visit[v].left * TicksPerSecond
  /\ visit[v].at = "checking" /\ visit[v].looked /\ visit[v].gone => Expired(visit[v].token)
  /\ visit[v].at \in Inside /\ visit[v].looked => ~visit[v].gone

BarInv ==
  /\ \A token \in signed : token <= SecondOf(clock)
  /\ \A token \in out : Lasting(token)
  /\ \A v \in Visits : VisitInv(v)

LEMMA TokenFacts ==
  ASSUME NEW token \in Tokens
  PROVE  /\ Exp(token) \in Nat
         /\ TicksPerSecond * Exp(token) \in Nat
<1>1. token \in Nat /\ Lifetime \in Nat /\ TicksPerSecond \in Nat
  BY AccessTokensAssumption DEF Tokens
<1>2. Exp(token) \in Nat
  BY <1>1 DEF Exp
<1> QED
  BY <1>1, <1>2

LEMMA NoVisitType ==
  /\ NoVisit \in Visit /\ NoVisit.at = "idle"
  /\ NoVisit.gone = FALSE /\ NoVisit.looked = FALSE
BY AccessTokensAssumption DEF NoVisit, Visit

LEMMA InitTokens == AccessTokensInit => AccessTokensTypeOK /\ BarInv
<1> SUFFICES ASSUME AccessTokensInit PROVE AccessTokensTypeOK /\ BarInv
  OBVIOUS
<1>1. AccessTokensTypeOK
  BY NoVisitType, AccessTokensAssumption DEF AccessTokensInit, AccessTokensTypeOK, Ticks
<1>2. BarInv
  BY NoVisitType DEF AccessTokensInit, BarInv, VisitInv, Inside
<1> QED
  BY <1>1, <1>2

LEMMA TypeStep ==
  AccessTokensTypeOK /\ BarInv /\ [AccessTokensNext]_accessTokenVars => AccessTokensTypeOK'
<1> SUFFICES ASSUME AccessTokensTypeOK, BarInv, [AccessTokensNext]_accessTokenVars
             PROVE  AccessTokensTypeOK'
  OBVIOUS
<1> USE DEF AccessTokensTypeOK
<1>0. clock \in Nat /\ \A v \in Visits : visit[v] \in Visit
  BY AccessTokensAssumption DEF Ticks
<1>1. ASSUME SignToken PROVE AccessTokensTypeOK'
  BY <1>1 DEF SignToken
<1>2. ASSUME NEW v \in Visits, NEW token \in Tokens, NEW looked \in BOOLEAN,
             CanActivate(v, token, looked)
      PROVE  AccessTokensTypeOK'
  <2>1. [NoVisit EXCEPT !.at = "checking", !.token = token, !.looked = looked,
                        !.gone = token \in out] \in Visit
    <3>1. (token \in out) \in BOOLEAN
      OBVIOUS
    <3>2. \A r \in Visit : \A gone \in BOOLEAN :
            [r EXCEPT !.at = "checking", !.token = token, !.looked = looked,
                      !.gone = gone] \in Visit
      BY DEF Visit
    <3> QED
      BY <3>1, <3>2, NoVisitType
  <2> QED
    BY <1>2, <2>1 DEF CanActivate
<1>3. ASSUME NEW v \in Visits, Validate(v) \/ EndVisit(v) \/ Logout(v) \/ Revoke(v)
      PROVE  AccessTokensTypeOK'
  <2>1. \A at \in {"in", "revoking", "sweeping"} : [visit[v] EXCEPT !.at = at] \in Visit
    BY <1>0 DEF Visit
  <2> QED
    BY <1>3, <2>1, NoVisitType DEF Validate, EndVisit, Logout, Revoke
<1>4. ASSUME NEW v \in Visits, Decode(v) PROVE AccessTokensTypeOK'
  <2>0. PICK k : k = visit[v].token
    OBVIOUS
  <2> DEFINE left == ExpiresIn(k)
  <2>1. k \in Tokens /\ k <= SecondOf(clock)
    BY <1>4, <2>0 DEF Decode, BarInv, VisitInv
  <2>2. left > 0 => left \in 0 .. Lifetime
    <3>1. SecondOf(clock) \in Nat /\ k \in Nat /\ Lifetime \in Nat
      BY <1>0, <2>1, SecondBounds, AccessTokensAssumption DEF Tokens
    <3>2. left = (k + Lifetime) - SecondOf(clock)
      BY DEF ExpiresIn, Exp
    <3> QED
      BY <2>1, <3>1, <3>2
  <2>3. left > 0 => [visit[v] EXCEPT !.at = "barring", !.left = left] \in Visit
    BY <1>0, <2>2 DEF Visit
  <2>4. out' \in SUBSET Tokens
    BY <1>4, <2>0, <2>1 DEF Decode
  <2>5. visit' \in [Visits -> Visit]
    BY <1>4, <2>0, <2>3, NoVisitType DEF Decode
  <2> QED
    BY <1>4, <2>4, <2>5 DEF Decode
<1>5. ASSUME NEW v \in Visits, Bar(v) PROVE AccessTokensTypeOK'
  <2>1. visit[v].token \in Tokens /\ visit[v].left \in Nat
    BY <1>0, <1>5 DEF Bar, BarInv, VisitInv, Visit
  <2>2. clock + visit[v].left * TicksPerSecond \in Nat
    BY <1>0, <2>1, AccessTokensAssumption
  <2> QED
    BY <1>5, <2>1, <2>2, NoVisitType DEF Bar
<1>6. ASSUME Elapse PROVE AccessTokensTypeOK'
  BY <1>6, AccessTokensAssumption DEF Elapse, Ticks
<1>7. ASSUME AccessTokensCrash PROVE AccessTokensTypeOK'
  BY <1>7, NoVisitType DEF AccessTokensCrash
<1>8. ASSUME UNCHANGED accessTokenVars PROVE AccessTokensTypeOK'
  BY <1>8 DEF accessTokenVars
<1> QED
  BY <1>1, <1>2, <1>3, <1>4, <1>5, <1>6, <1>7, <1>8 DEF AccessTokensNext

(* What a request has found holds on when only the clock and the keys of   *)
(* other tokens change.                                                    *)
LEMMA VisitKept ==
  ASSUME NEW v \in Visits, VisitInv(v), visit'[v] = visit[v],
         visit[v].at # "idle" => Exp(visit[v].token) \in Nat,
         visit[v].left \in Nat,
         clock \in Nat, clock' \in {clock, clock + 1}
  PROVE  VisitInv(v)'
<1>1. /\ TicksPerSecond \in Nat /\ visit[v].left * TicksPerSecond \in Nat
      /\ visit[v].at # "idle" => TicksPerSecond * Exp(visit[v].token) \in Nat
      /\ clock' \in Nat /\ clock <= clock'
      /\ SecondOf(clock) \in Nat /\ SecondOf(clock') \in Nat
  BY AccessTokensAssumption, SecondBounds
<1>2. SecondOf(clock) <= SecondOf(clock')
  BY <1>1, SecondsPass
<1>3. visit[v].at # "idle" =>
        visit[v].token \in Tokens /\ visit[v].token <= SecondOf(clock')
  BY <1>1, <1>2, AccessTokensAssumption DEF VisitInv, Tokens
<1>4. visit[v].at = "barring" =>
        TicksPerSecond * Exp(visit[v].token) <= clock' + visit[v].left * TicksPerSecond
  BY <1>1 DEF VisitInv
<1>5. visit[v].at # "idle" /\ SecondOf(clock) >= Exp(visit[v].token) =>
        SecondOf(clock') >= Exp(visit[v].token)
  BY <1>1, <1>2
<1>6. visit[v].at = "checking" /\ visit[v].looked /\ visit[v].gone =>
        SecondOf(clock') >= Exp(visit[v].token)
  BY <1>5 DEF VisitInv, Expired
<1> QED
  BY <1>3, <1>4, <1>6 DEF VisitInv, Expired

LEMMA BarStep ==
  AccessTokensTypeOK /\ BarInv /\ [AccessTokensNext]_accessTokenVars => BarInv'
<1> SUFFICES ASSUME AccessTokensTypeOK, BarInv, [AccessTokensNext]_accessTokenVars
             PROVE  BarInv'
  OBVIOUS
<1>0. /\ clock \in Nat /\ SecondOf(clock) \in Nat /\ TicksPerSecond \in Nat \ {0}
      /\ visit \in [Visits -> Visit] /\ out \subseteq Tokens
      /\ barred \in [Tokens -> Nat] /\ signed \subseteq Tokens
      /\ \A v \in Visits : VisitInv(v) /\ visit[v] \in Visit
  BY AccessTokensAssumption, SecondBounds DEF AccessTokensTypeOK, Ticks, BarInv
<1>a. \A v \in Visits : visit[v].left \in Nat
  BY <1>0, AccessTokensAssumption DEF Visit
<1>b. \A v \in Visits : visit[v].at # "idle" =>
        Exp(visit[v].token) \in Nat /\ visit[v].token \in Tokens
  BY <1>0, TokenFacts DEF VisitInv
<1>c. ASSUME clock' \in {clock, clock + 1}, NEW v \in Visits, visit'[v] = visit[v]
      PROVE  VisitInv(v)'
  BY <1>0, <1>a, <1>b, <1>c, VisitKept
<1>d. ASSUME NEW v \in Visits, visit'[v] = NoVisit PROVE VisitInv(v)'
  BY <1>d, NoVisitType DEF VisitInv, Inside
(* The clock and the keys stay, and nothing is out that was not.           *)
<1>e. ASSUME UNCHANGED <<clock, barred, out>>
      PROVE  \A token \in out' : Lasting(token)'
  BY <1>e DEF BarInv, Lasting, Expired
<1>f. ASSUME UNCHANGED <<clock, signed>>
      PROVE  \A token \in signed' : token <= SecondOf(clock')
  BY <1>f DEF BarInv
<1>1. ASSUME SignToken PROVE BarInv'
  <2>1. \A token \in signed' : token <= SecondOf(clock')
    BY <1>0, <1>1 DEF SignToken, BarInv
  <2> QED
    BY <1>1, <1>c, <1>e, <2>1 DEF SignToken, BarInv
<1>2. ASSUME NEW w \in Visits, NEW token \in Tokens, NEW looked \in BOOLEAN,
             CanActivate(w, token, looked)
      PROVE  BarInv'
  <2>1. /\ visit'[w].at = "checking" /\ visit'[w].token = token
        /\ visit'[w].looked = looked
        /\ visit'[w].gone = (token \in out) /\ clock' = clock
    BY <1>0, <1>2 DEF CanActivate, NoVisit
  <2>2. token \in Tokens /\ token <= SecondOf(clock)
    BY <1>2 DEF CanActivate, BarInv
  <2>3. ASSUME looked, token \in out PROVE Expired(token)
    <3>1. Lasting(token) /\ ~(clock < barred[token])
      BY <1>2, <2>3 DEF BarInv, CanActivate, Barred
    <3>2. CASE TicksPerSecond * Exp(token) <= barred[token]
      <4>1. barred[token] \in Nat /\ Exp(token) \in Nat /\ TicksPerSecond * Exp(token) \in Nat
        BY <1>0, TokenFacts
      <4>2. TicksPerSecond * Exp(token) <= clock
        BY <1>0, <3>1, <3>2, <4>1
      <4>3. Exp(token) <= SecondOf(clock)
        BY <1>0, <4>1, <4>2, SecondReached
      <4> QED
        BY <1>0, <4>1, <4>3 DEF Expired
    <3> QED
      BY <3>1, <3>2 DEF Lasting
  <2>4. VisitInv(w)'
    BY <2>1, <2>2, <2>3 DEF VisitInv, Inside, Expired
  <2>5. \A v \in Visits : VisitInv(v)'
    BY <1>2, <1>c, <2>4 DEF CanActivate
  <2> QED
    BY <1>2, <1>e, <1>f, <2>5 DEF CanActivate, BarInv
<1>3. ASSUME NEW w \in Visits, Validate(w) PROVE BarInv'
  <2>1. visit[w].looked => ~visit[w].gone
    BY <1>0, <1>3 DEF Validate, VisitInv
  <2>2. /\ visit'[w].at = "in" /\ visit'[w].token = visit[w].token
        /\ visit'[w].looked = visit[w].looked
        /\ visit'[w].gone = visit[w].gone /\ clock' = clock
    BY <1>0, <1>3 DEF Validate, Visit
  <2>3. VisitInv(w)'
    BY <1>0, <1>3, <2>1, <2>2 DEF Validate, VisitInv, Inside
  <2>4. \A v \in Visits : VisitInv(v)'
    BY <1>3, <1>c, <2>3 DEF Validate
  <2> QED
    BY <1>3, <1>e, <1>f, <2>4 DEF Validate, BarInv
<1>4. ASSUME NEW w \in Visits, EndVisit(w) PROVE BarInv'
  <2>1. \A v \in Visits : VisitInv(v)'
    BY <1>0, <1>4, <1>c, <1>d DEF EndVisit
  <2> QED
    BY <1>4, <1>e, <1>f, <2>1 DEF EndVisit, BarInv
<1>5. ASSUME NEW w \in Visits, Logout(w) \/ Revoke(w) PROVE BarInv'
  <2>1. /\ visit[w].at \in {"in", "revoking"} /\ visit'[w].at \in {"revoking", "sweeping"}
        /\ visit'[w].token = visit[w].token
        /\ visit'[w].looked = visit[w].looked
        /\ visit'[w].gone = visit[w].gone /\ clock' = clock
        /\ \A v \in Visits \ {w} : visit'[v] = visit[v]
    BY <1>0, <1>5 DEF Logout, Revoke, Visit
  <2>2. VisitInv(w)'
    BY <1>0, <2>1 DEF VisitInv, Inside
  <2>3. \A v \in Visits : VisitInv(v)'
    BY <1>c, <2>1, <2>2
  <2> QED
    BY <1>5, <1>e, <1>f, <2>3 DEF Logout, Revoke, BarInv
<1>6. ASSUME NEW w \in Visits, Decode(w) PROVE BarInv'
  <2>0. PICK k : k = visit[w].token
    OBVIOUS
  <2> DEFINE left == ExpiresIn(k)
  <2>1. /\ visit[w].at = "sweeping" /\ k \in Tokens /\ Exp(k) \in Nat
        /\ clock' = clock /\ barred' = barred /\ signed' = signed
        /\ visit[w].looked => ~visit[w].gone
        /\ k <= SecondOf(clock)
    BY <1>0, <1>6, <1>b, <2>0 DEF Decode, VisitInv, Inside
  <2>2. CASE left > 0 /\ visit' = [visit EXCEPT ![w].at = "barring", ![w].left = left] /\ out' = out
    <3>1. left \in Nat /\ left = Exp(k) - SecondOf(clock)
      BY <1>0, <2>1, <2>2 DEF ExpiresIn
    <3>2. TicksPerSecond * Exp(k) <= clock + left * TicksPerSecond
      BY <1>0, <2>1, <3>1, TimeLeft
    <3>3. /\ visit'[w].at = "barring" /\ visit'[w].token = k
          /\ visit'[w].left = left /\ visit'[w].looked = visit[w].looked
          /\ visit'[w].gone = visit[w].gone
          /\ \A v \in Visits \ {w} : visit'[v] = visit[v]
      BY <1>0, <2>0, <2>2 DEF Visit
    <3>4. VisitInv(w)'
      BY <2>1, <3>2, <3>3 DEF VisitInv, Inside
    <3>5. \A v \in Visits : VisitInv(v)'
      BY <1>c, <2>1, <3>3, <3>4
    <3> QED
      BY <1>e, <1>f, <2>1, <2>2, <3>5 DEF BarInv
  <2>3. CASE left <= 0 /\ visit' = [visit EXCEPT ![w] = NoVisit] /\ out' = out \cup {k}
    <3>1. Expired(k)'
      BY <1>0, <2>1, <2>3 DEF ExpiresIn, Expired
    <3>2. \A t \in out' : Lasting(t)'
      <4>1. TAKE t \in out'
      <4>2. CASE t = k
        BY <3>1, <4>2 DEF Lasting
      <4>3. CASE t \in out
        BY <2>1, <4>3 DEF BarInv, Lasting, Expired
      <4> QED
        BY <2>3, <4>1, <4>2, <4>3
    <3>3. \A v \in Visits : VisitInv(v)'
      BY <1>0, <1>c, <1>d, <2>1, <2>3
    <3> QED
      BY <1>f, <2>1, <3>2, <3>3 DEF BarInv
  <2>4. CASE visit' = [visit EXCEPT ![w] = NoVisit] /\ out' = out
    <3>1. \A v \in Visits : VisitInv(v)'
      BY <1>0, <1>c, <1>d, <2>1, <2>4
    <3> QED
      BY <1>e, <1>f, <2>1, <2>4, <3>1 DEF BarInv
  <2> QED
    BY <1>6, <2>0, <2>2, <2>3, <2>4 DEF Decode
<1>7. ASSUME NEW w \in Visits, Bar(w) PROVE BarInv'
  <2>0. PICK k : k = visit[w].token
    OBVIOUS
  <2> DEFINE end == clock + visit[w].left * TicksPerSecond
  <2>1. /\ visit[w].at = "barring" /\ k \in Tokens
        /\ clock' = clock /\ signed' = signed
        /\ TicksPerSecond * Exp(k) <= end
    BY <1>0, <1>7, <1>b, <2>0 DEF Bar, VisitInv
  <2>2. \A v \in Visits : VisitInv(v)'
    BY <1>0, <1>7, <1>c, <1>d, <2>1 DEF Bar
  <2>3. CASE barred' = [barred EXCEPT ![k] = end] /\ out' = out \cup {k}
    <3>1. Lasting(k)'
      <4>1. barred'[k] = end /\ Exp(k)' = Exp(k)
        BY <1>0, <2>1, <2>3 DEF Exp
      <4> QED
        BY <2>1, <4>1 DEF Lasting
    <3>2. ASSUME NEW t \in out, t # k PROVE Lasting(t)'
      <4>1. barred'[t] = barred[t] /\ Lasting(t)
        BY <1>0, <2>3, <3>2 DEF BarInv
      <4> QED
        BY <2>1, <4>1 DEF Lasting, Expired
    <3> QED
      <4>1. \A t \in out' : Lasting(t)'
        BY <2>3, <3>1, <3>2
      <4> QED
        BY <1>f, <2>1, <2>2, <4>1 DEF BarInv
  <2>4. CASE UNCHANGED <<barred, out>>
    BY <1>e, <1>f, <2>1, <2>2, <2>4 DEF BarInv
  <2> QED
    BY <1>7, <2>0, <2>3, <2>4 DEF Bar
<1>8. ASSUME Elapse PROVE BarInv'
  <2>1. /\ clock' = clock + 1 /\ SecondOf(clock') \in Nat
        /\ SecondOf(clock) <= SecondOf(clock')
    BY <1>0, <1>8, SecondBounds, SecondsPass DEF Elapse
  <2>2. \A v \in Visits : VisitInv(v)'
    BY <1>8, <1>c DEF Elapse
  <2>3. ASSUME NEW t \in signed' PROVE t <= SecondOf(clock')
    <3>1. t \in Tokens /\ t <= SecondOf(clock)
      BY <1>0, <1>8, <2>3 DEF Elapse, BarInv
    <3> QED
      BY <1>0, <2>1, <3>1, AccessTokensAssumption DEF Tokens
  <2>4. ASSUME NEW t \in out' PROVE Lasting(t)'
    <3>1. t \in out /\ barred' = barred /\ Lasting(t) /\ Exp(t) \in Nat
      BY <1>0, <1>8, <2>4, TokenFacts DEF Elapse, BarInv
    <3>2. CASE SecondOf(clock) >= Exp(t)
      BY <1>0, <2>1, <3>1, <3>2 DEF Lasting, Expired
    <3>3. CASE TicksPerSecond * Exp(t) <= barred[t]
      BY <3>1, <3>3 DEF Lasting
    <3> QED
      BY <3>1, <3>2, <3>3 DEF Lasting, Expired
  <2> QED
    BY <2>2, <2>3, <2>4 DEF BarInv
<1>9. ASSUME AccessTokensCrash PROVE BarInv'
  <2>1. \A v \in Visits : VisitInv(v)'
    BY <1>9, <1>d DEF AccessTokensCrash
  <2> QED
    BY <1>9, <1>e, <1>f, <2>1 DEF AccessTokensCrash, BarInv
<1>10. ASSUME UNCHANGED accessTokenVars PROVE BarInv'
  BY <1>10, <1>c, <1>e, <1>f DEF accessTokenVars, BarInv
<1> QED
  BY <1>1, <1>2, <1>3, <1>4, <1>5, <1>6, <1>7, <1>8, <1>9, <1>10 DEF AccessTokensNext

-----------------------------------------------------------------------------
(* Type correctness of the access tokens (JwtAuthGuard, logout).           *)
THEOREM TokensAreTyped == AccessTokensSpec => []AccessTokensTypeOK
<1>1. AccessTokensTypeOK /\ BarInv /\ [AccessTokensNext]_accessTokenVars
        => (AccessTokensTypeOK /\ BarInv)'
  BY TypeStep, BarStep
<1> QED
  BY <1>1, InitTokens, PTL DEF AccessTokensSpec

(* A token that a logout has put on the blacklist lets no later request    *)
(* in whose token the guard looks up: the key runs out no earlier than the *)
(* token (logout, canActivate).                                            *)
THEOREM LogoutIsFinal == AccessTokensSpec => []LoggedOutIsRefused
<1>1. AccessTokensTypeOK /\ BarInv /\ [AccessTokensNext]_accessTokenVars
        => (AccessTokensTypeOK /\ BarInv)'
  BY TypeStep, BarStep
<1>2. BarInv => LoggedOutIsRefused
  BY DEF BarInv, VisitInv, Inside, LoggedOutIsRefused
<1> QED
  BY <1>1, <1>2, InitTokens, PTL DEF AccessTokensSpec

(***************************************************************************)
(* Menus: the cached tree of menus, for every number of editors and        *)
(* readers.                                                                *)
(***************************************************************************)

(* A tree that was read is that of the table, or is known to be old; an    *)
(* edit that saves puts its menu under one or at the top.                  *)
ReadInv == \A v \in TreeViewers : view[v].at = "read" => view[v].old \/ view[v].tree = BuildMenuTree
EditInv == \A q \in Editors : edit[q].at # "idle" /\ edit[q].does # "delete" => edit[q].under # Gone
MenusInv == MenusTypeOK /\ EditInv /\ ReadInv /\ CachedTree

LEMMA EditType ==
  /\ NoEdit \in EditState /\ NoEdit.at = "idle"
  /\ \A e \in EditState, a \in {"idle", "looked", "committed", "clearing"} :
       /\ [e EXCEPT !.at = a] \in EditState /\ [e EXCEPT !.at = a].at = a
       /\ [e EXCEPT !.at = a].does = e.does /\ [e EXCEPT !.at = a].under = e.under
<1>1. NoEdit \in EditState /\ NoEdit.at = "idle"
  BY DEF NoEdit, EditState, Parents
<1>2. QED
  BY <1>1 DEF EditState

LEMMA ViewType ==
  /\ NoView \in ViewState /\ NoView.at = "idle"
  /\ \A w \in ViewState :
       /\ [w EXCEPT !.at = "asked"] \in ViewState /\ [w EXCEPT !.at = "asked"].at = "asked"
       /\ \A b \in BOOLEAN :
            /\ [w EXCEPT !.old = b] \in ViewState
            /\ [w EXCEPT !.old = b].at = w.at /\ [w EXCEPT !.old = b].old = b
  /\ \A t \in Forest : [at |-> "read", tree |-> t, old |-> FALSE] \in ViewState
<1>1. NoView \in ViewState /\ NoView.at = "idle"
  BY DEF NoView, ViewState, Forest, Parents
<1>2. QED
  BY <1>1 DEF ViewState

(* The tree is of the same menus, and depends on the table only.           *)
LEMMA TreeIsForest == ASSUME MenusTypeOK PROVE BuildMenuTree \in Forest
  BY DEF MenusTypeOK, BuildMenuTree, Forest, Parents

LEMMA TreeStays == ASSUME UNCHANGED parent PROVE UNCHANGED BuildMenuTree
  BY DEF BuildMenuTree, Lost

LEMMA BeginEditKeeps ==
  ASSUME MenusInv, NEW q \in Editors, NEW does \in {"create", "update", "delete"}, NEW m \in Menu,
         NEW under \in Parents, does # "delete" => under # Gone,
         BeginEdit(q, does, m, under)
  PROVE  MenusInv'
<1> DEFINE e == [at |-> "looked", does |-> does, menu |-> m, under |-> under]
<1>1. e \in EditState /\ e.at = "looked" /\ e.does = does /\ e.under = under
  BY DEF EditState
<1>2. /\ edit \in [Editors -> EditState] /\ edit' = [edit EXCEPT ![q] = e] /\ edit[q].at = "idle"
      /\ changesBegun' = changesBegun + 1 /\ changesBegun < MaxMenuChanges
      /\ UNCHANGED <<parent, kept, view, late>>
  BY DEF BeginEdit, MenusInv, MenusTypeOK
<1> HIDE DEF e
<1>3. MenusTypeOK'
  BY <1>1, <1>2, MenuAssumption DEF MenusInv, MenusTypeOK
<1>4. EditInv'
  BY <1>1, <1>2 DEF MenusInv, EditInv
<1>5. ReadInv'
  BY <1>2, TreeStays DEF MenusInv, ReadInv
<1>6. CachedTree'
  BY <1>2, TreeStays DEF MenusInv, CachedTree
<1>7. QED
  BY <1>3, <1>4, <1>5, <1>6 DEF MenusInv

(* A menu goes with those above it: the foreign key holds after the commit. *)
LEMMA BelowGoes ==
  ASSUME NEW m \in Menu, NEW x \in Menu, NEW top, parent[x] = m, Below(m, top)
  PROVE  Below(x, top)
<1> SUFFICES ASSUME NEW C \in SUBSET Menu, x \in C, \A y \in C : parent[y] \in C \cup {Top, Gone}
             PROVE  top \in C
  BY DEF Below
<1>1. m \in C
  BY MenuAssumption
<1>2. QED
  BY <1>1 DEF Below

LEMMA CommitMenuKeeps ==
  ASSUME MenusInv, NEW q \in Editors, CommitMenu(q)
  PROVE  MenusInv'
<1> DEFINE e == [edit[q] EXCEPT !.at = "committed"]
           m == edit[q].menu
           under == edit[q].under
<1>1. /\ edit[q] \in EditState /\ edit[q].at = "looked" /\ under \in Parents
      /\ edit[q].does # "delete" => under # Gone
      /\ parent \in Forest /\ (under \in Menu => parent[under] # Gone)
  BY DEF CommitMenu, MenusInv, MenusTypeOK, EditInv, EditState
<1>2. e \in EditState /\ e.at = "committed" /\ e.does = edit[q].does /\ e.under = under
  BY <1>1, EditType
<1>3. /\ edit \in [Editors -> EditState] /\ edit' = [edit EXCEPT ![q] = e]
      /\ UNCHANGED <<kept, changesBegun, late>>
  BY DEF CommitMenu, MenusInv, MenusTypeOK
<1>4. /\ view' \in [TreeViewers -> ViewState]
      /\ \A v \in TreeViewers : view'[v].at = "read" => view'[v].old
  <2>1. /\ view \in [TreeViewers -> ViewState]
        /\ view' = [v \in TreeViewers |-> [view[v] EXCEPT !.old = view[v].at = "read"]]
    BY DEF CommitMenu, MenusInv, MenusTypeOK
  <2>2. ASSUME NEW w \in ViewState
        PROVE  LET o == [w EXCEPT !.old = w.at = "read"]
               IN o \in ViewState /\ o.at = w.at /\ o.old = (w.at = "read")
    <3>1. PICK b \in BOOLEAN : b = (w.at = "read")
      OBVIOUS
    <3>2. QED
      BY <3>1, ViewType
  <2>3. QED
    BY <2>1, <2>2
<1>5. parent' = [x \in Menu |->
          IF edit[q].does # "delete" THEN IF x = m THEN under ELSE parent[x]
          ELSE IF parent[x] # Gone /\ Below(x, m) THEN Gone ELSE parent[x]]
  BY DEF CommitMenu
<1> HIDE DEF e, m, under
<1>6. parent' \in Forest
  BY <1>1, <1>5 DEF Forest, Parents
<1>7. ASSUME NEW x \in Menu, parent'[x] \in Menu
      PROVE  parent'[parent'[x]] # Gone
  <2>1. CASE edit[q].does # "delete"
    <3>1. \A y \in Menu : parent'[y] = IF y = m THEN under ELSE parent[y]
      BY <1>5, <2>1
    <3>2. \A y \in Menu : parent[y] \in Menu => parent[parent[y]] # Gone
      BY DEF MenusInv, MenusTypeOK
    <3>3. under # Gone
      BY <1>1, <2>1
    <3>4. QED
      BY <1>1, <1>7, <3>1, <3>2, <3>3
  <2>2. CASE edit[q].does = "delete"
    <3>1. \A y \in Menu :
            parent'[y] = IF parent[y] # Gone /\ Below(y, m) THEN Gone ELSE parent[y]
      BY <1>5, <2>2
    <3>2. parent'[x] = parent[x] /\ parent[x] # Gone /\ ~Below(x, m)
      BY <1>7, <3>1, MenuAssumption
    <3>3. ~Below(parent[x], m)
      BY <1>7, <3>2, BelowGoes
    <3>4. parent[parent[x]] # Gone
      BY <1>7, <3>2 DEF MenusInv, MenusTypeOK
    <3>5. QED
      BY <1>7, <3>1, <3>2, <3>3, <3>4
  <2>3. QED
    BY <2>1, <2>2
<1>8. MenusTypeOK'
  BY <1>2, <1>3, <1>4, <1>6, <1>7 DEF MenusInv, MenusTypeOK
<1>9. EditInv'
  BY <1>1, <1>2, <1>3 DEF MenusInv, EditInv
<1>10. ReadInv'
  BY <1>4 DEF ReadInv
<1>11. CachedTree'
  BY <1>2, <1>3 DEF CachedTree
<1>12. QED
  BY <1>8, <1>9, <1>10, <1>11 DEF MenusInv

LEMMA FindTreeKeeps ==
  ASSUME MenusInv, NEW q \in Editors, FindTree(q)
  PROVE  MenusInv'
<1>1. PICK e : e = [edit[q] EXCEPT !.at = "clearing"]
  OBVIOUS
<1>2. /\ edit[q] \in EditState /\ edit[q].at = "committed"
      /\ edit[q].does # "delete" => edit[q].under # Gone
  BY DEF FindTree, MenusInv, MenusTypeOK, EditInv
<1>3. e \in EditState /\ e.at = "clearing" /\ e.does = edit[q].does /\ e.under = edit[q].under
  BY <1>1, <1>2, EditType
<1>4. /\ edit \in [Editors -> EditState]
      /\ edit' = [edit EXCEPT ![q] = IF kept # NoTree THEN e ELSE NoEdit]
      /\ UNCHANGED <<parent, kept, view, changesBegun, late>>
  BY <1>1 DEF FindTree, MenusInv, MenusTypeOK, Invalidates
<1>5. MenusTypeOK'
  BY <1>3, <1>4, EditType DEF MenusInv, MenusTypeOK
<1>6. EditInv'
  BY <1>2, <1>3, <1>4, EditType DEF MenusInv, EditInv
<1>7. ReadInv'
  BY <1>4, TreeStays DEF MenusInv, ReadInv
<1>8. CachedTree'
  BY <1>2, <1>3, <1>4, TreeStays DEF MenusInv, CachedTree
<1>9. QED
  BY <1>5, <1>6, <1>7, <1>8 DEF MenusInv

LEMMA EditEndsKeeps ==
  ASSUME MenusInv, NEW q \in Editors, ClearTree(q) \/ EditFails(q)
  PROVE  MenusInv'
<1>1. /\ edit \in [Editors -> EditState] /\ edit' = [edit EXCEPT ![q] = NoEdit]
      /\ UNCHANGED <<parent, view, changesBegun>>
      /\ \/ kept' = NoTree /\ late' = FALSE
         \/ kept' = kept /\ late' = (late \/ (edit[q].at # "looked" /\ kept # NoTree))
  BY DEF ClearTree, EditFails, MenusInv, MenusTypeOK
<1>2. MenusTypeOK'
  BY <1>1, EditType DEF MenusInv, MenusTypeOK
<1>3. EditInv'
  BY <1>1, EditType DEF MenusInv, EditInv
<1>4. ReadInv'
  BY <1>1, TreeStays DEF MenusInv, ReadInv
<1>5. CachedTree'
  BY <1>1, TreeStays DEF MenusInv, CachedTree
<1>6. QED
  BY <1>2, <1>3, <1>4, <1>5 DEF MenusInv

LEMMA ViewsKeep ==
  ASSUME MenusInv, NEW v \in TreeViewers,
         AskForTree(v) \/ ReadTree(v) \/ KeepTree(v) \/ ViewFails(v)
  PROVE  MenusInv'
<1>1. view \in [TreeViewers -> ViewState] /\ view[v] \in ViewState /\ BuildMenuTree \in Forest
  BY TreeIsForest DEF MenusInv, MenusTypeOK
<1>2. UNCHANGED <<parent, edit, changesBegun>>
  BY DEF AskForTree, ReadTree, KeepTree, ViewFails
<1>3. PICK w \in ViewState :
        /\ view' = [view EXCEPT ![v] = w]
        /\ w.at = "read" => w.tree = BuildMenuTree
  <2>1. CASE AskForTree(v)
    BY <1>1, <2>1, ViewType DEF AskForTree
  <2>2. CASE ReadTree(v)
    BY <1>1, <2>2, ViewType DEF ReadTree
  <2>3. CASE KeepTree(v) \/ ViewFails(v)
    BY <1>1, <2>3, ViewType DEF KeepTree, ViewFails
  <2>4. QED
    BY <2>1, <2>2, <2>3
<1>4. \/ UNCHANGED <<kept, late>>
      \/ kept' = view[v].tree /\ late' = view[v].old /\ view[v].at = "read"
  BY DEF AskForTree, ReadTree, KeepTree, ViewFails
<1>5. view[v].tree \in Forest /\ view[v].old \in BOOLEAN
  BY <1>1 DEF ViewState
<1>6. MenusTypeOK'
  BY <1>1, <1>2, <1>3, <1>4, <1>5 DEF MenusInv, MenusTypeOK
<1>7. EditInv'
  BY <1>2 DEF MenusInv, EditInv
<1>8. ReadInv'
  BY <1>1, <1>2, <1>3, TreeStays DEF MenusInv, ReadInv
<1>9. CachedTree'
  BY <1>2, <1>4, TreeStays DEF MenusInv, CachedTree, ReadInv
<1>10. QED
  BY <1>6, <1>7, <1>8, <1>9 DEF MenusInv

LEMMA MenusStart == MenusInit => MenusInv
<1> SUFFICES ASSUME MenusInit PROVE MenusInv
  OBVIOUS
<1>1. MenusTypeOK
  <2>1. edit \in [Editors -> EditState] /\ view \in [TreeViewers -> ViewState]
    BY EditType, ViewType DEF MenusInit
  <2>2. parent \in Forest /\ \A m \in Menu : parent[m] \notin Menu
    BY MenuAssumption DEF MenusInit, Forest, Parents
  <2>3. changesBegun \in 0..MaxMenuChanges
    BY MenuAssumption DEF MenusInit
  <2>4. late \in BOOLEAN /\ kept \in Forest \cup {NoTree}
    BY DEF MenusInit
  <2>5. QED
    BY <2>1, <2>2, <2>3, <2>4 DEF MenusTypeOK
<1>2. EditInv /\ ReadInv /\ CachedTree
  BY EditType, ViewType DEF MenusInit, EditInv, ReadInv, CachedTree
<1>3. QED
  BY <1>1, <1>2 DEF MenusInv

LEMMA MenusGoOn == MenusInv /\ [MenusNext]_menuVars => MenusInv'
<1> SUFFICES ASSUME MenusInv, [MenusNext]_menuVars PROVE MenusInv'
  OBVIOUS
<1>1. ASSUME NEW q \in Editors, NEW m \in Menu, NEW under \in Menu \cup {Top},
             CreateMenu(q, m, under)
      PROVE  MenusInv'
  BY <1>1, BeginEditKeeps, MenuAssumption DEF CreateMenu, Parents
<1>2. ASSUME NEW q \in Editors, NEW m \in Menu, NEW under \in Menu \cup {Top},
             UpdateMenu(q, m, under)
      PROVE  MenusInv'
  BY <1>2, BeginEditKeeps, MenuAssumption DEF UpdateMenu, Parents
<1>3. ASSUME NEW q \in Editors, NEW m \in Menu, DeleteMenu(q, m) PROVE MenusInv'
  BY <1>3, BeginEditKeeps DEF DeleteMenu, Parents
<1>4. ASSUME NEW q \in Editors, CommitMenu(q) \/ FindTree(q) \/ ClearTree(q) \/ EditFails(q)
      PROVE  MenusInv'
  BY <1>4, CommitMenuKeeps, FindTreeKeeps, EditEndsKeeps
<1>5. CASE ExpireTree
  <2>1. kept' = NoTree /\ late' = FALSE /\ UNCHANGED <<parent, edit, view, changesBegun>>
    BY <1>5 DEF ExpireTree
  <2>2. MenusTypeOK' /\ EditInv' /\ CachedTree'
    BY <2>1 DEF MenusInv, MenusTypeOK, EditInv, CachedTree
  <2>3. ReadInv'
    BY <2>1, TreeStays DEF MenusInv, ReadInv
  <2>4. QED
    BY <2>2, <2>3 DEF MenusInv
<1>6. CASE UNCHANGED menuVars
  <2>1. UNCHANGED <<parent, kept, edit, view, changesBegun, late>>
    BY <1>6 DEF menuVars
  <2>2. MenusTypeOK' /\ EditInv'
    BY <2>1 DEF MenusInv, MenusTypeOK, EditInv
  <2>3. ReadInv' /\ CachedTree'
    BY <2>1, TreeStays DEF MenusInv, ReadInv, CachedTree
  <2>4. QED
    BY <2>2, <2>3 DEF MenusInv
<1>7. QED
  BY <1>1, <1>2, <1>3, <1>4, <1>5, <1>6, ViewsKeep DEF MenusNext

(* CachedTree for any number of menus, changes and requests: a tree that   *)
(* MenuService keeps past the end of every change is that of the table,    *)
(* unless the request for it was overtaken or the deletion failed.         *)
THEOREM KeptTreeIsCurrent == MenusSpec => []CachedTree
<1>1. MenusInv => CachedTree
  BY DEF MenusInv
<1>2. QED
  BY <1>1, MenusStart, MenusGoOn, PTL DEF MenusSpec

(* The types of the menus, and the foreign key: no menu is left under one  *)
(* that is gone.                                                           *)
THEOREM MenusAreTyped == MenusSpec => []MenusTypeOK
<1>1. MenusInv => MenusTypeOK
  BY DEF MenusInv
<1>2. QED
  BY <1>1, MenusStart, MenusGoOn, PTL DEF MenusSpec

(***************************************************************************)
(* Accounts: passwords that were replaced, and the cached profile, for     *)
(* every number of users, employees and requests.                          *)
(***************************************************************************)

Changes == {"update", "password", "remove", "profile"}
Does == Changes \cup {"create", "pegawai", "removePegawai"}

(* Passwords are no newer than the last change that began; the number of a *)
(* change that has not saved yet is nobody's, except its own new account's. *)
PastInv == \A u \in Users :
  user[u].password <= doings /\ \A n \in Versions : <<u, n>> \in replaced => n <= doings
FreshInv == \A d \in Doers : doing[d].at = "loaded" =>
  /\ doing[d].version \in 1..doings /\ doing[d].row.password <= doings
  /\ \A u \in Users :
       <<u, doing[d].version>> \notin replaced /\ user[u].password # doing[d].version
  /\ \A e \in Doers \ {d} : doing[e].at = "loaded" =>
       doing[e].row.password # doing[d].version /\ doing[e].version # doing[d].version
  /\ doing[d].does = "create" <=> doing[d].row.password = doing[d].version

(* An update has not loaded a password that was replaced, unless they      *)
(* crossed.                                                                *)
OldInv == \A d \in Doers :
  doing[d].at = "loaded" /\ doing[d].does = "update" /\ doing[d].id \notin crossed =>
    <<doing[d].id, doing[d].row.password>> \notin replaced

(* Changes are of accounts that are there, new accounts of free            *)
(* identities, one each; and an employee has one account.                  *)
RowInv == \A d \in Doers :
  /\ doing[d].at # "idle" /\ doing[d].does \in Changes =>
       user[doing[d].id].is # "free" /\ doing[d].row.of = user[doing[d].id].of
  /\ doing[d].does = "create" =>
       /\ user[doing[d].id].is = "free" /\ doing[d].at = "loaded"
       /\ \A e \in Doers : doing[e].does = "create" /\ doing[e].id = doing[d].id => e = d
OneAccount == \A u, w \in Users :
  user[u].is # "free" /\ user[w].is # "free" /\ user[u].of = user[w].of => u = w
FreeInv == \A u \in Users : user[u].is = "free" =>
  /\ profile[u] = NoCopy
  /\ \A v \in ProfileViewers : viewing[v].at # "idle" => viewing[v].id # u

(* A profile that was read is that of the rows, or is known to be old; and *)
(* so is one that is kept, or a change is about to delete it.              *)
ViewInv == \A v \in ProfileViewers :
  viewing[v].at = "read" => viewing[v].old \/ viewing[v].copy = ProfileOf(viewing[v].id)
KeptInv == \A u \in Users \ outdated :
  \/ profile[u] = NoCopy \/ profile[u] = ProfileOf(u)
  \/ \E d \in Doers : doing[d].at = "saved" /\ doing[d].id = u

PasswordsInv == PastInv /\ FreshInv /\ OldInv /\ NewPasswordStays
ProfilesInv == RowInv /\ OneAccount /\ FreeInv /\ ViewInv /\ KeptInv
AccountsInv == AccountsTypeOK /\ PasswordsInv /\ ProfilesInv

(* Rows, changes and requests.                                             *)
LEMMA AccountType ==
  /\ NoAccount \in Account /\ NoAccount.is = "free" /\ NoAccount.password = 0
  /\ \A a \in Account :
       /\ a.password \in Versions /\ a.data \in Versions /\ a.of \in Pegawai
       /\ a.is \in {"free", "live", "removed"} /\ a.joins \in SUBSET Joinable
       /\ LET r == [a EXCEPT !.is = "removed"]
          IN /\ r \in Account /\ r.is = "removed" /\ r.password = a.password
             /\ r.data = a.data /\ r.of = a.of /\ r.joins = a.joins
       /\ \A p \in Pegawai :
            [a EXCEPT !.of = p] \in Account /\ [a EXCEPT !.of = p].password = a.password
<1>1. NoAccount \in Account /\ NoAccount.is = "free" /\ NoAccount.password = 0
  BY AccountsAssumption DEF NoAccount, Account, Versions, SomePegawai
<1>2. QED
  BY <1>1 DEF Account

LEMMA DoingType ==
  /\ NoDoing \in DoingState /\ NoDoing.at = "idle" /\ NoDoing.does = "none" /\ NoDoing.id \in Users
  /\ \A x \in DoingState :
       /\ x.id \in Users /\ x.row \in Account /\ x.version \in Versions
       /\ LET s == [x EXCEPT !.at = "saved"]
          IN /\ s \in DoingState /\ s.at = "saved" /\ s.does = x.does /\ s.id = x.id
             /\ s.row = x.row
<1>1. NoDoing \in DoingState /\ NoDoing.at = "idle" /\ NoDoing.does = "none" /\ NoDoing.id \in Users
  BY AccountsAssumption, AccountType DEF NoDoing, DoingState, Versions
<1>2. QED
  BY <1>1 DEF DoingState

LEMMA ViewingType ==
  /\ NoViewing \in ViewingState /\ NoViewing.at = "idle"
  /\ \A u \in Users :
       LET w == [NoViewing EXCEPT !.at = "asked", !.id = u]
       IN w \in ViewingState /\ w.at = "asked" /\ w.id = u
  /\ \A w \in ViewingState :
       /\ w.id \in Users /\ w.copy \in Profile
       /\ \A c \in Profile :
            LET r == [w EXCEPT !.at = "read", !.copy = c]
            IN r \in ViewingState /\ r.at = "read" /\ r.id = w.id /\ r.copy = c
<1>1. NoViewing \in ViewingState /\ NoViewing.at = "idle"
  BY AccountsAssumption DEF NoViewing, ViewingState, Profile, NoProfile, Versions
<1>2. QED
  BY <1>1 DEF ViewingState

LEMMA Identities ==
  ASSUME AccountsTypeOK
  PROVE  /\ \A d \in Doers : doing[d].id \in Users
         /\ \A v \in ProfileViewers : viewing[v].id \in Users
         /\ NoDoing.at = "idle" /\ NoDoing.does = "none" /\ NoDoing.id \in Users
<1>1. \A d \in Doers : doing[d].id \in Users
  BY DoingType DEF AccountsTypeOK
<1>2. \A v \in ProfileViewers : viewing[v].id \in Users
  BY ViewingType DEF AccountsTypeOK
<1>3. QED
  BY <1>1, <1>2, DoingType

LEMMA ProfileType ==
  ASSUME AccountsTypeOK, NEW u \in Users
  PROVE  ProfileOf(u) \in Profile
<1>1. user[u] \in Account /\ user[u].of \in Pegawai /\ user[u].data \in Versions
  BY AccountType DEF AccountsTypeOK
<1>2. pegawai[user[u].of].data \in Versions /\ 0 \in Versions
  BY <1>1, AccountsAssumption DEF AccountsTypeOK, Versions
<1>3. [j \in Joinable |-> IF j \in user[u].joins THEN joined[j] ELSE 0] \in [Joinable -> Versions]
  BY <1>2 DEF AccountsTypeOK
<1>4. QED
  BY <1>1, <1>2, <1>3 DEF ProfileOf, Profile

(* A profile is of these parts of the rows.                                *)
LEMMA SameProfile ==
  ASSUME NEW u \in Users, UNCHANGED joined,
         user'[u].data = user[u].data, user'[u].of = user[u].of, user'[u].joins = user[u].joins,
         pegawai'[user[u].of] = pegawai[user[u].of]
  PROVE  ProfileOf(u)' = ProfileOf(u)
<1>1. [j \in Joinable |-> IF j \in user'[u].joins THEN joined'[j] ELSE 0]
        = [j \in Joinable |-> IF j \in user[u].joins THEN joined[j] ELSE 0]
  BY Zenon
<1>2. QED
  BY <1>1 DEF ProfileOf

LEMMA Outruns ==
  ASSUME AccountsTypeOK, NEW U, Outrun(U)
  PROVE  /\ viewing' \in [ProfileViewers -> ViewingState]
         /\ \A v \in ProfileViewers :
              /\ viewing'[v].at = viewing[v].at /\ viewing'[v].id = viewing[v].id
              /\ viewing'[v].copy = viewing[v].copy
              /\ viewing[v].old => viewing'[v].old
              /\ viewing[v].at = "read" /\ viewing[v].id \in U => viewing'[v].old
<1>1. ASSUME NEW w \in ViewingState
      PROVE  LET r == [w EXCEPT !.old = @ \/ (w.at = "read" /\ w.id \in U)]
             IN /\ r \in ViewingState /\ r.at = w.at /\ r.id = w.id /\ r.copy = w.copy
                /\ w.old => r.old
                /\ w.at = "read" /\ w.id \in U => r.old
  <2>1. PICK b \in BOOLEAN : b <=> (w.old \/ (w.at = "read" /\ w.id \in U))
    OBVIOUS
  <2>2. PICK r : r = [w EXCEPT !.old = b]
    OBVIOUS
  <2>3. /\ r \in ViewingState /\ r.at = w.at /\ r.id = w.id /\ r.copy = w.copy /\ r.old = b
    BY <2>2 DEF ViewingState
  <2>4. r = [w EXCEPT !.old = @ \/ (w.at = "read" /\ w.id \in U)]
    BY <2>1, <2>2
  <2>5. (w.old => r.old) /\ (w.at = "read" /\ w.id \in U => r.old)
    BY <2>1, <2>3
  <2>6. QED
    BY <2>3, <2>4, <2>5
<1>2. /\ viewing \in [ProfileViewers -> ViewingState]
      /\ viewing' = [v \in ProfileViewers |->
           [viewing[v] EXCEPT !.old = @ \/ (viewing[v].at = "read" /\ viewing[v].id \in U)]]
  BY DEF AccountsTypeOK, Outrun
<1>3. QED
  BY <1>1, <1>2

(* A change that begins.                                                   *)
LEMMA BeginDoingKeeps ==
  ASSUME AccountsInv, NEW d \in Doers, NEW does \in Does, NEW u \in Users, NEW entity \in Account,
         BeginDoing(d, does, u, entity),
         entity.password \in {0, doings + 1, user[u].password},
         does = "create" <=> entity.password = doings + 1,
         does \in Changes => user[u].is # "free" /\ entity.of = user[u].of,
         does = "create" =>
           user[u].is = "free" /\ \A e \in Doers : ~(doing[e].does = "create" /\ doing[e].id = u),
         does = "update" => user[u].is = "live" /\ entity.password = user[u].password
  PROVE  AccountsInv'
<1> DEFINE x == [at |-> "loaded", does |-> does, id |-> u, row |-> entity, version |-> doings + 1]
<1>1. /\ doings \in Nat /\ doings < MaxDoings /\ doings' = doings + 1 /\ doings + 1 \in Versions
      /\ doing \in [Doers -> DoingState] /\ doing' = [doing EXCEPT ![d] = x]
      /\ doing[d].at = "idle"
      /\ UNCHANGED <<user, pegawai, joined, profile, viewing, replaced, crossed, outdated>>
  BY AccountsAssumption DEF BeginDoing, AccountsInv, AccountsTypeOK, Versions
<1>2. /\ x \in DoingState /\ x.at = "loaded" /\ x.does = does /\ x.id = u /\ x.row = entity
      /\ x.version = doings + 1
  BY <1>1 DEF DoingState, Does, Changes
<1> HIDE DEF x
<1>3. /\ \A e \in Doers \ {d} : doing'[e] = doing[e]
      /\ doing'[d] = x
  BY <1>1
<1>4. \A w \in Users : user[w].password \in Versions /\ user[w].password <= doings
  BY AccountType DEF AccountsInv, AccountsTypeOK, PasswordsInv, PastInv
<1>5. \A w \in Users : <<w, doings + 1>> \notin replaced
  BY <1>1 DEF AccountsInv, PasswordsInv, PastInv
<1>6. \A e \in Doers : doing[e].version \in Versions /\ doing[e].row.password \in Versions
  BY DoingType, AccountType DEF AccountsInv, AccountsTypeOK
<1>7. entity.password \in Versions
  BY AccountType
<1>8. AccountsTypeOK'
  BY <1>1, <1>2 DEF AccountsInv, AccountsTypeOK
<1>9. PastInv'
  BY <1>1, <1>4, AccountsAssumption DEF AccountsInv, PasswordsInv, PastInv, Versions
<1>10. FreshInv'
  <2> SUFFICES ASSUME NEW e \in Doers, doing'[e].at = "loaded"
               PROVE  /\ doing'[e].version \in 1..doings' /\ doing'[e].row.password <= doings'
                      /\ \A w \in Users : <<w, doing'[e].version>> \notin replaced
                                         /\ user[w].password # doing'[e].version
                      /\ \A f \in Doers \ {e} : doing'[f].at = "loaded" =>
                           doing'[f].row.password # doing'[e].version
                           /\ doing'[f].version # doing'[e].version
                      /\ doing'[e].does = "create" <=> doing'[e].row.password = doing'[e].version
    BY <1>1 DEF FreshInv
  <2>1. \A f \in Doers : doing[f].at = "loaded" =>
          doing[f].version \in 1..doings /\ doing[f].row.password <= doings
    BY DEF AccountsInv, PasswordsInv, FreshInv
  <2>2. CASE e = d
    BY <1>1, <1>2, <1>3, <1>4, <1>5, <1>6, <1>7, <2>1, <2>2, AccountsAssumption DEF Versions
  <2>3. CASE e # d
    <3>1. doing'[e] = doing[e] /\ doing[e].at = "loaded"
      BY <1>3, <2>3
    <3>2. /\ doing[e].version \in 1..doings /\ doing[e].row.password <= doings
          /\ \A w \in Users : <<w, doing[e].version>> \notin replaced
                              /\ user[w].password # doing[e].version
          /\ \A f \in Doers \ {e} : doing[f].at = "loaded" =>
               doing[f].row.password # doing[e].version /\ doing[f].version # doing[e].version
          /\ doing[e].does = "create" <=> doing[e].row.password = doing[e].version
      BY <3>1 DEF AccountsInv, PasswordsInv, FreshInv
    <3>3. entity.password # doing[e].version /\ doings + 1 # doing[e].version
      <4>1. doing[e].version \in Nat /\ 1 <= doing[e].version /\ doing[e].version <= doings
        BY <1>1, <3>2
      <4>2. user[u].password # doing[e].version
        BY <3>2
      <4>3. QED
        BY <1>1, <4>1, <4>2
    <3>4. QED
      BY <1>1, <1>2, <1>3, <1>6, <3>1, <3>2, <3>3, AccountsAssumption DEF Versions
  <2>4. QED
    BY <2>2, <2>3
<1>11. OldInv' /\ NewPasswordStays'
  BY <1>1, <1>2, <1>3 DEF AccountsInv, PasswordsInv, OldInv, NewPasswordStays
<1>12. RowInv'
  BY <1>1, <1>2, <1>3 DEF AccountsInv, ProfilesInv, RowInv
<1>13. OneAccount' /\ FreeInv' /\ ViewInv'
  BY <1>1 DEF AccountsInv, ProfilesInv, OneAccount, FreeInv, ViewInv, ProfileOf
<1>14. KeptInv'
  BY <1>1, <1>3 DEF AccountsInv, ProfilesInv, KeptInv, ProfileOf
<1>15. QED
  BY <1>8, <1>9, <1>10, <1>11, <1>12, <1>13, <1>14 DEF AccountsInv, PasswordsInv, ProfilesInv

(* A change that saves or ends no longer holds its number.                 *)
LEMMA FreshKept ==
  ASSUME AccountsInv, NEW d \in Doers, UNCHANGED doings,
         \A e \in Doers \ {d} : doing'[e] = doing[e], doing'[d].at # "loaded",
         \A e \in Doers \ {d} : doing[e].at = "loaded" => \A u \in Users :
           <<u, doing[e].version>> \notin replaced' /\ user'[u].password # doing[e].version
  PROVE  FreshInv'
<1> SUFFICES ASSUME NEW e \in Doers \ {d}, doing[e].at = "loaded"
             PROVE  /\ doing[e].version \in 1..doings /\ doing[e].row.password <= doings
                    /\ \A f \in Doers \ {e} : doing'[f].at = "loaded" =>
                         doing'[f].row.password # doing[e].version
                         /\ doing'[f].version # doing[e].version
                    /\ doing[e].does = "create" <=> doing[e].row.password = doing[e].version
  BY DEF FreshInv
<1>1. /\ doing[e].version \in 1..doings /\ doing[e].row.password <= doings
      /\ \A f \in Doers \ {e} : doing[f].at = "loaded" =>
           doing[f].row.password # doing[e].version /\ doing[f].version # doing[e].version
      /\ doing[e].does = "create" <=> doing[e].row.password = doing[e].version
  BY DEF AccountsInv, PasswordsInv, FreshInv
<1>2. QED
  BY <1>1

LEMMA SaveNewUserKeeps ==
  ASSUME AccountsInv, NEW d \in Doers, SaveNewUser(d)
  PROVE  AccountsInv'
<1> DEFINE u == doing[d].id
           r == doing[d].row
<1>1. /\ u \in Users /\ r \in Account /\ doing[d].version \in Versions
      /\ doing[d].at = "loaded" /\ doing[d].does = "create" /\ Profiled(r.of) = {}
  BY DoingType DEF AccountsInv, AccountsTypeOK, SaveNewUser
<1>2. /\ user' = [user EXCEPT ![u] = r] /\ user \in [Users -> Account]
      /\ doing' = [doing EXCEPT ![d] = NoDoing] /\ doing \in [Doers -> DoingState]
      /\ UNCHANGED <<pegawai, joined, profile, viewing, doings, replaced, crossed, outdated>>
  BY DEF AccountsInv, AccountsTypeOK, SaveNewUser
<1>3. user[u].is = "free" /\ \A e \in Doers : doing[e].does = "create" /\ doing[e].id = u => e = d
  BY <1>1 DEF AccountsInv, ProfilesInv, RowInv
<1>4. /\ r.password = doing[d].version /\ r.password <= doings
      /\ \A w \in Users : <<w, r.password>> \notin replaced
      /\ \A e \in Doers \ {d} : doing[e].at = "loaded" => doing[e].version # r.password
  BY <1>1 DEF AccountsInv, PasswordsInv, FreshInv
<1> HIDE DEF u, r
<1>5. /\ user'[u] = r /\ \A w \in Users \ {u} : user'[w] = user[w]
      /\ doing'[d] = NoDoing /\ \A e \in Doers \ {d} : doing'[e] = doing[e]
  BY <1>1, <1>2
<1>6. AccountsTypeOK'
  BY <1>1, <1>2, DoingType DEF AccountsInv, AccountsTypeOK
<1>7. PastInv'
  BY <1>2, <1>4, <1>5 DEF AccountsInv, PasswordsInv, PastInv
<1>8. FreshInv'
  <2>1. ASSUME NEW e \in Doers \ {d}, doing[e].at = "loaded", NEW w \in Users
        PROVE  <<w, doing[e].version>> \notin replaced' /\ user'[w].password # doing[e].version
    <3>1. <<w, doing[e].version>> \notin replaced /\ user[w].password # doing[e].version
      BY <2>1 DEF AccountsInv, PasswordsInv, FreshInv
    <3>2. QED
      BY <1>2, <1>4, <1>5, <2>1, <3>1
  <2>2. QED
    BY <1>2, <1>5, <2>1, DoingType, FreshKept
<1>9. OldInv' /\ NewPasswordStays'
  BY <1>2, <1>4, <1>5, DoingType DEF AccountsInv, PasswordsInv, OldInv, NewPasswordStays
<1>10. RowInv'
  BY <1>1, <1>3, <1>5, Identities DEF AccountsInv, ProfilesInv, RowInv, Changes
<1>11. OneAccount'
  BY <1>1, <1>5 DEF AccountsInv, ProfilesInv, OneAccount, Profiled
<1>12. profile[u] = NoCopy /\ \A v \in ProfileViewers : viewing[v].at # "idle" => viewing[v].id # u
  BY <1>1, <1>3 DEF AccountsInv, ProfilesInv, FreeInv
<1>13. FreeInv'
  BY <1>2, <1>5, <1>12 DEF AccountsInv, ProfilesInv, FreeInv
<1>14. \A w \in Users \ {u} : ProfileOf(w)' = ProfileOf(w)
  BY <1>2, <1>5, SameProfile
<1>15. ViewInv'
  BY <1>2, <1>12, <1>14, Identities DEF AccountsInv, ProfilesInv, ViewInv
<1>16. KeptInv'
  <2> SUFFICES ASSUME NEW w \in Users \ outdated, profile[w] # NoCopy
               PROVE  profile[w] = ProfileOf(w)' \/ \E e \in Doers : doing'[e].at = "saved" /\ doing'[e].id = w
    BY <1>2 DEF KeptInv
  <2>1. w # u
    BY <1>12
  <2>2. profile[w] = ProfileOf(w) \/ \E e \in Doers : doing[e].at = "saved" /\ doing[e].id = w
    BY DEF AccountsInv, ProfilesInv, KeptInv
  <2>3. QED
    BY <1>1, <1>5, <1>14, <2>1, <2>2
<1>17. QED
  BY <1>6, <1>7, <1>8, <1>9, <1>10, <1>11, <1>13, <1>15, <1>16
  DEF AccountsInv, PasswordsInv, ProfilesInv

LEMMA SaveUserKeeps ==
  ASSUME AccountsInv, NEW d \in Doers, NEW joins \in SUBSET Joinable, SaveUser(d, joins)
  PROVE  AccountsInv'
<1> DEFINE u == doing[d].id
           r == doing[d].row
           does == doing[d].does
<1>1. /\ u \in Users /\ r \in Account /\ doing[d].version \in Versions
      /\ doing[d].at = "loaded" /\ does \in {"update", "password"} /\ doing[d] \in DoingState
  BY DoingType DEF AccountsInv, AccountsTypeOK, SaveUser
<1>2. PICK x : x = [doing[d] EXCEPT !.at = "saved"]
  OBVIOUS
<1>3. x \in DoingState /\ x.at = "saved" /\ x.does = does /\ x.id = u /\ x.row = r
  BY <1>1, <1>2, DoingType
<1>4. PICK y : /\ user' = [user EXCEPT ![u] = y]
               /\ y.is \in {user[u].is, "live"} /\ y.of = r.of
               /\ y.password = PasswordOf(doing[d]) /\ y \in Account
  <2>1. PICK is \in {user[u].is, "live"} : user' = [user EXCEPT ![u] =
            [is |-> is, password |-> PasswordOf(doing[d]), of |-> r.of, joins |-> joins,
             data |-> IF does = "update" THEN doing[d].version ELSE r.data]]
    BY DEF SaveUser
  <2>2. user[u] \in Account
    BY <1>1 DEF AccountsInv, AccountsTypeOK
  <2>3. [is |-> is, password |-> PasswordOf(doing[d]), of |-> r.of, joins |-> joins,
         data |-> IF does = "update" THEN doing[d].version ELSE r.data] \in Account
    BY <1>1, <2>2 DEF PasswordOf, Account
  <2>4. QED
    BY <2>1, <2>3
<1>5. /\ user \in [Users -> Account]
      /\ doing' = [doing EXCEPT ![d] = x] /\ doing \in [Doers -> DoingState]
      /\ UNCHANGED <<pegawai, joined, profile, doings, outdated>>
  BY <1>2 DEF AccountsInv, AccountsTypeOK, SaveUser
<1>6. /\ does = "update" => replaced' = replaced /\ crossed' = crossed
      /\ does = "password" =>
           /\ replaced' = replaced \cup {<<u, user[u].password>>, <<u, r.password>>}
           /\ \/ crossed' = crossed \cup {u}
              \/ /\ crossed' = crossed
                 /\ \A e \in Doers \ {d} :
                      ~(doing[e].at = "loaded" /\ doing[e].id = u /\ doing[e].does = "update")
  <2> DEFINE others == {e \in Doers \ {d} :
        doing[e].at = "loaded" /\ doing[e].id = u /\ doing[e].does \in {"update", "password"}}
  <2>1. /\ replaced' = IF does = "update" THEN replaced
                      ELSE replaced \cup {<<u, user[u].password>>, <<u, r.password>>}
        /\ crossed' = IF does = "password" /\ others # {} THEN crossed \cup {u} ELSE crossed
    BY DEF SaveUser
  <2>2. others = {} => \A e \in Doers \ {d} :
          ~(doing[e].at = "loaded" /\ doing[e].id = u /\ doing[e].does = "update")
    OBVIOUS
  <2> HIDE DEF others, u, r, does
  <2>3. QED
    BY <2>1, <2>2
<1>7. /\ viewing' \in [ProfileViewers -> ViewingState]
      /\ \A v \in ProfileViewers :
           /\ viewing'[v].at = viewing[v].at /\ viewing'[v].id = viewing[v].id
           /\ viewing'[v].copy = viewing[v].copy
           /\ viewing[v].old => viewing'[v].old
           /\ viewing[v].at = "read" /\ viewing[v].id \in {u} => viewing'[v].old
  BY Outruns DEF SaveUser, AccountsInv
<1>8. /\ does = "update" => y.password = r.password
      /\ does = "password" => y.password = doing[d].version
  BY <1>1, <1>4 DEF PasswordOf
<1>9. /\ user[u].is # "free" /\ r.of = user[u].of
  BY <1>1 DEF AccountsInv, ProfilesInv, RowInv, Changes
<1>10. /\ doing[d].version \in 1..doings /\ r.password <= doings /\ r.password # doing[d].version
       /\ \A w \in Users :
            <<w, doing[d].version>> \notin replaced /\ user[w].password # doing[d].version
  BY <1>1 DEF AccountsInv, PasswordsInv, FreshInv
<1>11. \A e \in Doers \ {d} : doing[e].at = "loaded" =>
         /\ r.password # doing[e].version /\ doing[d].version # doing[e].version
         /\ \A w \in Users :
            <<w, doing[e].version>> \notin replaced /\ user[w].password # doing[e].version
  BY <1>1 DEF AccountsInv, PasswordsInv, FreshInv
<1> HIDE DEF u, r, does
<1>12. /\ user'[u] = y /\ \A w \in Users \ {u} : user'[w] = user[w]
       /\ doing'[d] = x /\ \A e \in Doers \ {d} : doing'[e] = doing[e]
  BY <1>1, <1>4, <1>5
<1>13. AccountsTypeOK'
  <2>1. replaced' \in SUBSET (Users \X Versions) /\ crossed' \in SUBSET Users
    <3>1. user[u].password \in Versions /\ r.password \in Versions
      BY <1>1, <1>5, AccountType
    <3>2. QED
      BY <1>1, <1>6, <3>1 DEF AccountsInv, AccountsTypeOK
  <2>2. QED
    BY <1>3, <1>4, <1>5, <1>7, <2>1 DEF AccountsInv, AccountsTypeOK
<1>14. PastInv'
  <2>1. \A w \in Users : user'[w].password <= doings
    BY <1>1, <1>8, <1>10, <1>12 DEF AccountsInv, PasswordsInv, PastInv
  <2>2. ASSUME NEW w \in Users, NEW n \in Versions, <<w, n>> \in replaced' PROVE n <= doings
    <3>1. <<w, n>> \in replaced \/ n = user[u].password \/ n = r.password
      BY <1>1, <1>6, <2>2
    <3>2. user[u].password <= doings /\ (<<w, n>> \in replaced => n <= doings)
      BY <1>1 DEF AccountsInv, PasswordsInv, PastInv
    <3>3. QED
      BY <1>10, <3>1, <3>2
  <2>3. QED
    BY <1>5, <2>1, <2>2 DEF PastInv
<1>15. FreshInv'
  <2>1. ASSUME NEW e \in Doers \ {d}, doing[e].at = "loaded", NEW w \in Users
        PROVE  <<w, doing[e].version>> \notin replaced' /\ user'[w].password # doing[e].version
    <3>1. <<w, doing[e].version>> \notin replaced'
      BY <1>1, <1>6, <1>11, <2>1
    <3>2. user'[w].password # doing[e].version
      BY <1>1, <1>8, <1>11, <1>12, <2>1
    <3>3. QED
      BY <3>1, <3>2
  <2>2. QED
    BY <1>3, <1>5, <1>12, <2>1, FreshKept
<1>16. OldInv'
  <2> SUFFICES ASSUME NEW e \in Doers \ {d}, doing[e].at = "loaded", doing[e].does = "update",
                      doing[e].id \notin crossed'
               PROVE  <<doing[e].id, doing[e].row.password>> \notin replaced'
    BY <1>3, <1>12 DEF OldInv
  <2>1. <<doing[e].id, doing[e].row.password>> \notin replaced
    BY <1>1, <1>6 DEF AccountsInv, PasswordsInv, OldInv
  <2>2. CASE does = "update"
    BY <1>6, <2>1, <2>2
  <2>3. CASE does = "password"
    BY <1>6, <2>1, <2>3
  <2>4. QED
    BY <1>1, <2>2, <2>3
<1>17. NewPasswordStays'
  <2> SUFFICES ASSUME NEW w \in Users \ crossed', user'[w].is = "live"
               PROVE  <<w, user'[w].password>> \notin replaced'
    BY DEF NewPasswordStays
  <2>1. CASE w = u /\ does = "update"
    BY <1>1, <1>6, <1>8, <1>12, <2>1 DEF AccountsInv, PasswordsInv, OldInv, u, r, does
  <2>2. CASE w = u /\ does = "password"
    BY <1>6, <1>8, <1>10, <1>12, <2>2
  <2>3. CASE w # u
    BY <1>1, <1>6, <1>12, <2>3 DEF AccountsInv, PasswordsInv, NewPasswordStays
  <2>4. QED
    BY <1>1, <2>1, <2>2, <2>3
<1>18. y.is # "free" /\ y.of = user[u].of
  BY <1>4, <1>9
<1>19. RowInv'
  BY <1>1, <1>3, <1>9, <1>12, <1>18, Identities DEF AccountsInv, ProfilesInv, RowInv, Changes
<1>20. OneAccount'
  BY <1>1, <1>9, <1>12, <1>18 DEF AccountsInv, ProfilesInv, OneAccount
<1>21. FreeInv'
  BY <1>5, <1>7, <1>12, <1>18 DEF AccountsInv, ProfilesInv, FreeInv
<1>22. \A w \in Users \ {u} : ProfileOf(w)' = ProfileOf(w)
  BY <1>5, <1>12, SameProfile
<1>23. ViewInv'
  BY <1>7, <1>22, Identities DEF AccountsInv, ProfilesInv, ViewInv
<1>24. KeptInv'
  <2> SUFFICES ASSUME NEW w \in Users \ outdated, profile[w] # NoCopy
               PROVE  profile[w] = ProfileOf(w)' \/ \E e \in Doers : doing'[e].at = "saved" /\ doing'[e].id = w
    BY <1>5 DEF KeptInv
  <2>1. profile[w] = ProfileOf(w) \/ \E e \in Doers : doing[e].at = "saved" /\ doing[e].id = w
    BY DEF AccountsInv, ProfilesInv, KeptInv
  <2>2. QED
    BY <1>1, <1>3, <1>12, <1>22, <2>1
<1>25. QED
  BY <1>13, <1>14, <1>15, <1>16, <1>17, <1>19, <1>20, <1>21, <1>23, <1>24
  DEF AccountsInv, PasswordsInv, ProfilesInv

(* Steps that leave the passwords alone: a change saves or ends, or none   *)
(* moves.                                                                  *)
LEMMA PasswordsKept ==
  ASSUME AccountsInv, NEW d \in Doers, UNCHANGED <<doings, replaced, crossed>>,
         \A e \in Doers \ {d} : doing'[e] = doing[e], doing'[d].at # "loaded",
         \A u \in Users : user'[u].password = user[u].password
                         /\ (user'[u].is = "live" => user[u].is = "live")
  PROVE  PasswordsInv'
<1>1. PastInv'
  BY DEF AccountsInv, PasswordsInv, PastInv
<1>2. FreshInv'
  <2>1. \A e \in Doers \ {d} : doing[e].at = "loaded" => \A u \in Users :
           <<u, doing[e].version>> \notin replaced /\ user[u].password # doing[e].version
    BY DEF AccountsInv, PasswordsInv, FreshInv
  <2>2. QED
    BY <2>1, FreshKept
<1>3. OldInv'
  BY DEF AccountsInv, PasswordsInv, OldInv
<1>4. NewPasswordStays'
  BY DEF AccountsInv, PasswordsInv, NewPasswordStays
<1>5. QED
  BY <1>1, <1>2, <1>3, <1>4 DEF PasswordsInv

(* Steps that leave the accounts and the changes alone.                    *)
LEMMA AccountsKept ==
  ASSUME AccountsInv, UNCHANGED <<user, doing, doings, replaced, crossed>>
  PROVE  PasswordsInv' /\ RowInv' /\ OneAccount'
<1>1. PasswordsInv'
  BY DEF AccountsInv, PasswordsInv, PastInv, FreshInv, OldInv, NewPasswordStays
<1>2. QED
  BY <1>1 DEF AccountsInv, ProfilesInv, RowInv, OneAccount

LEMMA RemoveUserKeeps ==
  ASSUME AccountsInv, NEW d \in Doers, RemoveUser(d)
  PROVE  AccountsInv'
<1> DEFINE u == doing[d].id
<1>1. /\ u \in Users /\ doing[d] \in DoingState /\ user[u] \in Account
      /\ doing[d].at = "loaded" /\ doing[d].does = "remove"
  BY Identities DEF AccountsInv, AccountsTypeOK, RemoveUser
<1>2. PICK x : x = [doing[d] EXCEPT !.at = "saved"]
  OBVIOUS
<1>3. PICK y : y = [user[u] EXCEPT !.is = "removed"]
  OBVIOUS
<1>4. x \in DoingState /\ x.at = "saved" /\ x.does = doing[d].does /\ x.id = u /\ x.row = doing[d].row
  BY <1>1, <1>2, DoingType
<1>5. /\ y \in Account /\ y.is = "removed" /\ y.password = user[u].password
      /\ y.data = user[u].data /\ y.of = user[u].of /\ y.joins = user[u].joins
  BY <1>1, <1>3, AccountType
<1>6. /\ user' = [user EXCEPT ![u] = y] /\ user \in [Users -> Account]
      /\ doing' = [doing EXCEPT ![d] = x] /\ doing \in [Doers -> DoingState]
      /\ UNCHANGED <<pegawai, joined, profile, viewing, doings, replaced, crossed, outdated>>
  BY <1>2, <1>3 DEF AccountsInv, AccountsTypeOK, RemoveUser
<1>7. user[u].is # "free"
  BY <1>1 DEF AccountsInv, ProfilesInv, RowInv, Changes
<1> HIDE DEF u
<1>8. /\ user'[u] = y /\ \A w \in Users \ {u} : user'[w] = user[w]
      /\ doing'[d] = x /\ \A e \in Doers \ {d} : doing'[e] = doing[e]
  BY <1>1, <1>6
<1>9. AccountsTypeOK'
  BY <1>4, <1>5, <1>6 DEF AccountsInv, AccountsTypeOK
<1>10. PasswordsInv'
  BY <1>1, <1>4, <1>5, <1>6, <1>8, PasswordsKept
<1>11. \A w \in Users : user'[w].of = user[w].of /\ (user'[w].is = "free" <=> user[w].is = "free")
  BY <1>1, <1>5, <1>7, <1>8
<1>12. RowInv'
  <2>1. \A e \in Doers :
          /\ doing'[e].does = doing[e].does /\ doing'[e].id = doing[e].id
          /\ doing'[e].row = doing[e].row /\ doing[e].id \in Users
          /\ doing'[e].at = doing[e].at \/ (e = d /\ doing[e].at = "loaded")
    BY <1>1, <1>4, <1>8, Identities DEF AccountsInv, u
  <2>2. QED
    BY <1>1, <1>11, <2>1 DEF AccountsInv, ProfilesInv, RowInv
<1>13. OneAccount' /\ FreeInv'
  BY <1>6, <1>11 DEF AccountsInv, ProfilesInv, OneAccount, FreeInv
<1>14. \A w \in Users : ProfileOf(w)' = ProfileOf(w)
  BY <1>1, <1>5, <1>6, <1>8, SameProfile
<1>15. ViewInv'
  BY <1>6, <1>14, Identities DEF AccountsInv, ProfilesInv, ViewInv
<1>16. KeptInv'
  BY <1>1, <1>4, <1>6, <1>8, <1>14 DEF AccountsInv, ProfilesInv, KeptInv
<1>17. QED
  BY <1>9, <1>10, <1>12, <1>13, <1>15, <1>16 DEF AccountsInv, ProfilesInv

(* The employee of one account, or of none.                                *)
LEMMA PegawaiKeeps ==
  ASSUME AccountsInv, NEW d \in Doers, SavePegawai(d) \/ RemovePegawai(d)
  PROVE  AccountsInv'
<1> DEFINE p == doing[d].row.of
           does == doing[d].does
<1>1. /\ doing[d].id \in Users /\ doing[d] \in DoingState /\ p \in Pegawai
      /\ doing[d].version \in Versions /\ doing[d].at = "loaded"
      /\ does \in {"profile", "pegawai", "removePegawai"}
  BY DoingType, AccountType DEF AccountsInv, AccountsTypeOK, SavePegawai, RemovePegawai
<1>2. PICK x : x = IF does = "profile" THEN [doing[d] EXCEPT !.at = "saved"] ELSE NoDoing
  OBVIOUS
<1>3. /\ x \in DoingState /\ x.at # "loaded" /\ x.does # "create"
      /\ x.at # "idle" => x.does = does /\ x.id = doing[d].id /\ x.row = doing[d].row
      /\ does = "profile" => x.at = "saved"
  BY <1>1, <1>2, DoingType
<1>4. /\ doing' = [doing EXCEPT ![d] = x] /\ doing \in [Doers -> DoingState]
      /\ UNCHANGED <<user, joined, profile, doings, replaced, crossed>>
      /\ Outrun(Profiled(p))
  BY <1>1, <1>2 DEF SavePegawai, RemovePegawai, AccountsInv, AccountsTypeOK
<1>5. /\ outdated' \subseteq Users /\ outdated \subseteq outdated'
      /\ does # "profile" => \A w \in Profiled(p) : profile[w] # NoCopy => w \in outdated'
  BY <1>1 DEF SavePegawai, RemovePegawai, AccountsInv, AccountsTypeOK, Profiled
<1>6. /\ pegawai' \in [Pegawai -> [live : BOOLEAN, data : Versions]]
      /\ \A o \in Pegawai \ {p} : pegawai'[o] = pegawai[o]
  <2>1. pegawai \in [Pegawai -> [live : BOOLEAN, data : Versions]]
    BY DEF AccountsInv, AccountsTypeOK
  <2>2. PICK y \in [live : BOOLEAN, data : Versions] : pegawai' = [pegawai EXCEPT ![p] = y]
    <3>1. CASE SavePegawai(d)
      BY <1>1, <2>1, <3>1 DEF SavePegawai
    <3>2. CASE RemovePegawai(d)
      <4>1. [pegawai[p] EXCEPT !.live = FALSE] \in [live : BOOLEAN, data : Versions]
        BY <1>1, <2>1
      <4>2. QED
        BY <3>2, <4>1 DEF RemovePegawai
    <3>3. QED
      BY <3>1, <3>2
  <2>3. QED
    BY <2>1, <2>2
<1>7. /\ viewing' \in [ProfileViewers -> ViewingState]
      /\ \A v \in ProfileViewers :
           /\ viewing'[v].at = viewing[v].at /\ viewing'[v].id = viewing[v].id
           /\ viewing'[v].copy = viewing[v].copy
           /\ viewing[v].old => viewing'[v].old
           /\ viewing[v].at = "read" /\ viewing[v].id \in Profiled(p) => viewing'[v].old
  BY <1>4, Outruns DEF AccountsInv
<1>8. does = "profile" => \A w \in Profiled(p) : w = doing[d].id
  BY <1>1 DEF AccountsInv, ProfilesInv, RowInv, OneAccount, Changes, Profiled
<1> HIDE DEF p, does
<1>9. doing'[d] = x /\ \A e \in Doers \ {d} : doing'[e] = doing[e]
  BY <1>4
<1>10. AccountsTypeOK'
  BY <1>3, <1>4, <1>5, <1>6, <1>7 DEF AccountsInv, AccountsTypeOK
<1>11. PasswordsInv'
  BY <1>3, <1>4, <1>9, PasswordsKept
<1>12. RowInv'
  BY <1>1, <1>3, <1>4, <1>9 DEF AccountsInv, ProfilesInv, RowInv, does
<1>13. OneAccount' /\ FreeInv'
  BY <1>4, <1>7 DEF AccountsInv, ProfilesInv, OneAccount, FreeInv
<1>14. \A w \in Users : user[w].of \in Pegawai
  BY AccountType DEF AccountsInv, AccountsTypeOK
<1>15. \A w \in Users : user[w].is # "free" => w \in Profiled(p) \/ ProfileOf(w)' = ProfileOf(w)
  BY <1>4, <1>6, <1>14, SameProfile DEF Profiled
<1>16. ViewInv'
  <2> SUFFICES ASSUME NEW v \in ProfileViewers, viewing[v].at = "read", ~viewing'[v].old
               PROVE  viewing'[v].copy = ProfileOf(viewing[v].id)'
    BY <1>7 DEF ViewInv
  <2>1. viewing[v].id \notin Profiled(p) /\ ~viewing[v].old
    BY <1>7
  <2>2. viewing[v].id \in Users /\ user[viewing[v].id].is # "free"
    BY Identities DEF AccountsInv, ProfilesInv, FreeInv
  <2>3. viewing[v].copy = ProfileOf(viewing[v].id)
    BY <2>1 DEF AccountsInv, ProfilesInv, ViewInv
  <2>4. QED
    BY <1>7, <1>15, <2>1, <2>2, <2>3
<1>17. KeptInv'
  <2> SUFFICES ASSUME NEW w \in Users \ outdated', profile[w] # NoCopy
               PROVE  profile[w] = ProfileOf(w)' \/ \E e \in Doers : doing'[e].at = "saved" /\ doing'[e].id = w
    BY <1>4 DEF KeptInv
  <2>1. profile[w] = ProfileOf(w) \/ \E e \in Doers : doing[e].at = "saved" /\ doing[e].id = w
    BY <1>5 DEF AccountsInv, ProfilesInv, KeptInv
  <2>2. user[w].is # "free"
    BY DEF AccountsInv, ProfilesInv, FreeInv
  <2>3. CASE w \in Profiled(p)
    BY <1>1, <1>3, <1>5, <1>8, <1>9, <2>3
  <2>4. CASE w \notin Profiled(p)
    BY <1>1, <1>9, <1>15, <2>1, <2>2, <2>4
  <2>5. QED
    BY <2>3, <2>4
<1>18. QED
  BY <1>10, <1>11, <1>12, <1>13, <1>16, <1>17 DEF AccountsInv, ProfilesInv

(* The deletion of the copy, and a change that fails.                      *)
LEMMA DoingEnds ==
  ASSUME AccountsInv, NEW d \in Doers, DeleteProfileCache(d) \/ DoingFails(d)
  PROVE  AccountsInv'
<1> DEFINE u == doing[d].id
<1>1. /\ u \in Users /\ doing \in [Doers -> DoingState] /\ doing' = [doing EXCEPT ![d] = NoDoing]
      /\ UNCHANGED <<user, pegawai, joined, viewing, doings, replaced, crossed>>
  BY Identities DEF DeleteProfileCache, DoingFails, AccountsInv, AccountsTypeOK
<1>2. /\ profile' \in [Users -> Profile \cup {NoCopy}] /\ outdated' \subseteq Users
      /\ \A w \in Users : profile'[w] \in {profile[w], NoCopy}
      /\ \A w \in Users \ {u} : w \in outdated' <=> w \in outdated
      /\ u \in outdated => u \in outdated' \/ profile'[u] = NoCopy
      /\ doing[d].at = "saved" => u \in outdated' \/ profile'[u] = NoCopy
  BY <1>1 DEF DeleteProfileCache, DoingFails, AccountsInv, AccountsTypeOK, Cleared
<1> HIDE DEF u
<1>3. doing'[d] = NoDoing /\ \A e \in Doers \ {d} : doing'[e] = doing[e]
  BY <1>1
<1>4. AccountsTypeOK'
  BY <1>1, <1>2, DoingType DEF AccountsInv, AccountsTypeOK
<1>5. PasswordsInv'
  BY <1>1, <1>3, Identities, PasswordsKept DEF AccountsInv
<1>6. RowInv'
  BY <1>1, <1>3, Identities DEF AccountsInv, ProfilesInv, RowInv
<1>7. OneAccount' /\ FreeInv'
  BY <1>1, <1>2 DEF AccountsInv, ProfilesInv, OneAccount, FreeInv
<1>8. ViewInv'
  BY <1>1 DEF AccountsInv, ProfilesInv, ViewInv, ProfileOf
<1>9. KeptInv'
  <2> SUFFICES ASSUME NEW w \in Users \ outdated', profile'[w] # NoCopy
               PROVE  profile'[w] = ProfileOf(w) \/ \E e \in Doers : doing'[e].at = "saved" /\ doing'[e].id = w
    BY <1>1 DEF KeptInv, ProfileOf
  <2>1. w \notin outdated /\ profile'[w] = profile[w]
    BY <1>2
  <2>2. profile[w] = ProfileOf(w) \/ \E e \in Doers : doing[e].at = "saved" /\ doing[e].id = w
    BY <2>1 DEF AccountsInv, ProfilesInv, KeptInv
  <2>3. QED
    BY <1>2, <1>3, <2>1, <2>2 DEF u
<1>10. QED
  BY <1>4, <1>5, <1>6, <1>7, <1>8, <1>9 DEF AccountsInv, ProfilesInv

LEMMA ProfileViewsKeep ==
  ASSUME AccountsInv, NEW v \in ProfileViewers,
         (\E u \in Users : AskForProfile(v, u)) \/ GetProfile(v) \/ KeepProfile(v) \/ ViewingFails(v)
  PROVE  AccountsInv'
<1>1. /\ viewing \in [ProfileViewers -> ViewingState] /\ viewing[v] \in ViewingState
      /\ viewing[v].id \in Users /\ viewing[v].copy \in Profile
  BY ViewingType DEF AccountsInv, AccountsTypeOK
<1>2. UNCHANGED <<user, pegawai, joined, doing, doings, replaced, crossed>>
  BY DEF AskForProfile, GetProfile, KeepProfile, ViewingFails
<1>3. \A w \in Users : ProfileOf(w)' = ProfileOf(w)
  BY <1>2, SameProfile
<1>4. PICK w \in ViewingState :
        /\ viewing' = [viewing EXCEPT ![v] = w]
        /\ w.at = "read" => w.copy = ProfileOf(w.id)
        /\ w.at # "idle" => user[w.id].is # "free"
  <2>1. CASE \E u \in Users : AskForProfile(v, u)
    <3>1. PICK u \in Users : AskForProfile(v, u)
      BY <2>1
    <3>2. PICK w : w = [NoViewing EXCEPT !.at = "asked", !.id = u]
      OBVIOUS
    <3>3. w \in ViewingState /\ w.at = "asked" /\ w.id = u
      BY <3>2, ViewingType
    <3>4. QED
      BY <3>1, <3>2, <3>3 DEF AskForProfile
  <2>2. CASE GetProfile(v)
    <3>1. PICK w : w = [viewing[v] EXCEPT !.at = "read", !.copy = ProfileOf(viewing[v].id)]
      OBVIOUS
    <3>2. /\ w \in ViewingState /\ w.at = "read" /\ w.id = viewing[v].id
          /\ w.copy = ProfileOf(viewing[v].id)
      <4>1. ProfileOf(viewing[v].id) \in Profile
        BY <1>1, ProfileType DEF AccountsInv
      <4>2. QED
        BY <1>1, <3>1, <4>1 DEF ViewingState
    <3>3. viewing' = [viewing EXCEPT ![v] = w]
      BY <1>1, <2>2, <3>1 DEF GetProfile
    <3>4. user[w.id].is # "free"
      BY <2>2, <3>2 DEF GetProfile
    <3>5. QED
      BY <3>2, <3>3, <3>4
  <2>3. CASE KeepProfile(v) \/ ViewingFails(v)
    BY <2>3, ViewingType DEF KeepProfile, ViewingFails
  <2>4. QED
    BY <2>1, <2>2, <2>3
<1>5. \/ UNCHANGED <<profile, outdated>>
      \/ /\ viewing[v].at = "read" /\ profile' = [profile EXCEPT ![viewing[v].id] = viewing[v].copy]
         /\ viewing[v].old => outdated' = outdated \cup {viewing[v].id}
         /\ ~viewing[v].old => outdated' = outdated \ {viewing[v].id}
  BY DEF AskForProfile, GetProfile, KeepProfile, ViewingFails
<1>6. AccountsTypeOK'
  <2>1. profile' \in [Users -> Profile \cup {NoCopy}] /\ outdated' \in SUBSET Users
    BY <1>1, <1>5 DEF AccountsInv, AccountsTypeOK
  <2>2. QED
    BY <1>1, <1>2, <1>4, <2>1 DEF AccountsInv, AccountsTypeOK
<1>7. PasswordsInv' /\ RowInv' /\ OneAccount'
  BY <1>2, AccountsKept
<1>8. FreeInv'
  <2>1. viewing[v].at = "read" => user[viewing[v].id].is # "free"
    BY <1>1 DEF AccountsInv, ProfilesInv, FreeInv
  <2>2. profile \in [Users -> Profile \cup {NoCopy}]
    BY DEF AccountsInv, AccountsTypeOK
  <2>3. QED
    BY <1>1, <1>2, <1>4, <1>5, <2>1, <2>2 DEF AccountsInv, ProfilesInv, FreeInv
<1>9. ViewInv'
  <2>1. w.id \in Users /\ \A q \in ProfileViewers : viewing[q].id \in Users
    BY Identities, ViewingType DEF AccountsInv
  <2>2. QED
    BY <1>1, <1>3, <1>4, <2>1 DEF AccountsInv, ProfilesInv, ViewInv
<1>10. KeptInv'
  <2>1. viewing[v].at = "read" => viewing[v].old \/ viewing[v].copy = ProfileOf(viewing[v].id)
    BY DEF AccountsInv, ProfilesInv, ViewInv
  <2>2. profile \in [Users -> Profile \cup {NoCopy}]
    BY DEF AccountsInv, AccountsTypeOK
  <2>3. QED
    BY <1>1, <1>2, <1>3, <1>5, <2>1, <2>2 DEF AccountsInv, ProfilesInv, KeptInv
<1>11. QED
  BY <1>6, <1>7, <1>8, <1>9, <1>10 DEF AccountsInv, ProfilesInv

(* A role or a tenant that is saved: what was read of its users is old, and *)
(* so is what is kept of them.                                             *)
LEMMA SaveJoinedKeeps ==
  ASSUME AccountsInv, NEW j \in Joinable, SaveJoined(j)
  PROVE  AccountsInv'
<1> DEFINE of == {u \in Users : user[u].is # "free" /\ j \in user[u].joins}
<1>1. /\ doings \in Nat /\ doings' = doings + 1 /\ doings + 1 \in Versions
      /\ joined \in [Joinable -> Versions] /\ joined' = [joined EXCEPT ![j] = doings + 1]
      /\ UNCHANGED <<user, pegawai, profile, doing, replaced, crossed>>
      /\ Outrun(of)
      /\ outdated' = outdated \cup {u \in of : profile[u] # NoCopy}
  BY AccountsAssumption DEF SaveJoined, AccountsInv, AccountsTypeOK, Versions
<1>2. /\ viewing' \in [ProfileViewers -> ViewingState]
      /\ \A v \in ProfileViewers :
           /\ viewing'[v].at = viewing[v].at /\ viewing'[v].id = viewing[v].id
           /\ viewing'[v].copy = viewing[v].copy
           /\ viewing[v].old => viewing'[v].old
           /\ viewing[v].at = "read" /\ viewing[v].id \in of => viewing'[v].old
  BY <1>1, Outruns DEF AccountsInv
<1>3. ASSUME NEW u \in Users, user[u].is # "free", u \notin of
      PROVE  ProfileOf(u)' = ProfileOf(u)
  <2>1. j \notin user[u].joins
    BY <1>3
  <2>2. \A i \in Joinable \ {j} : joined'[i] = joined[i]
    BY <1>1
  <2>3. \A i \in Joinable : (IF i \in user'[u].joins THEN joined'[i] ELSE 0)
                            = (IF i \in user[u].joins THEN joined[i] ELSE 0)
    BY <1>1, <2>1, <2>2
  <2>4. [i \in Joinable |-> IF i \in user'[u].joins THEN joined'[i] ELSE 0]
          = [i \in Joinable |-> IF i \in user[u].joins THEN joined[i] ELSE 0]
    BY <2>3
  <2>5. QED
    BY <1>1, <2>4 DEF ProfileOf
<1>4. AccountsTypeOK'
  <2>1. joined' \in [Joinable -> Versions] /\ outdated' \in SUBSET Users
    BY <1>1 DEF AccountsInv, AccountsTypeOK
  <2>2. QED
    BY <1>1, <1>2, <2>1 DEF AccountsInv, AccountsTypeOK
<1>5. PasswordsInv'
  <2>1. PastInv'
    <3>4. \A u \in Users : user[u].password \in Versions
      BY AccountType DEF AccountsInv, AccountsTypeOK
    <3>1. \A u \in Users : user[u].password \in Nat
      BY <3>4, AccountsAssumption DEF Versions
    <3>2. \A n \in Versions : n \in Nat
      BY AccountsAssumption DEF Versions
    <3>3. QED
      BY <1>1, <3>1, <3>2 DEF AccountsInv, PasswordsInv, PastInv
  <2>2. FreshInv'
    <3>3. \A d \in Doers : doing[d].row.password \in Versions
      BY DoingType, AccountType DEF AccountsInv, AccountsTypeOK
    <3>1. \A d \in Doers : doing[d].row.password \in Nat
      BY <3>3, AccountsAssumption DEF Versions
    <3>2. QED
      BY <1>1, <3>1 DEF AccountsInv, PasswordsInv, FreshInv
  <2>3. OldInv' /\ NewPasswordStays'
    BY <1>1 DEF AccountsInv, PasswordsInv, OldInv, NewPasswordStays
  <2>4. QED
    BY <2>1, <2>2, <2>3 DEF PasswordsInv
<1>6. RowInv' /\ OneAccount' /\ FreeInv'
  BY <1>1, <1>2 DEF AccountsInv, ProfilesInv, RowInv, OneAccount, FreeInv
<1>7. ViewInv'
  <2> SUFFICES ASSUME NEW v \in ProfileViewers, viewing[v].at = "read", ~viewing'[v].old
               PROVE  viewing'[v].copy = ProfileOf(viewing[v].id)'
    BY <1>2 DEF ViewInv
  <2>1. viewing[v].id \notin of /\ ~viewing[v].old
    BY <1>2
  <2>2. viewing[v].id \in Users /\ user[viewing[v].id].is # "free"
    BY Identities DEF AccountsInv, ProfilesInv, FreeInv
  <2>3. viewing[v].copy = ProfileOf(viewing[v].id)
    BY <2>1 DEF AccountsInv, ProfilesInv, ViewInv
  <2>4. QED
    BY <1>2, <1>3, <2>1, <2>2, <2>3
<1>8. KeptInv'
  <2> SUFFICES ASSUME NEW u \in Users \ outdated', profile[u] # NoCopy
               PROVE  profile[u] = ProfileOf(u)' \/ \E e \in Doers : doing[e].at = "saved" /\ doing[e].id = u
    BY <1>1 DEF KeptInv
  <2>1. profile[u] = ProfileOf(u) \/ \E e \in Doers : doing[e].at = "saved" /\ doing[e].id = u
    BY <1>1 DEF AccountsInv, ProfilesInv, KeptInv
  <2>2. user[u].is # "free"
    BY DEF AccountsInv, ProfilesInv, FreeInv
  <2>3. QED
    BY <1>1, <1>3, <2>1, <2>2
<1>9. QED
  BY <1>4, <1>5, <1>6, <1>7, <1>8 DEF AccountsInv, ProfilesInv

LEMMA ExpireProfileKeeps ==
  ASSUME AccountsInv, NEW u \in Users, ExpireProfile(u)
  PROVE  AccountsInv'
<1>1. /\ UNCHANGED <<user, pegawai, joined, doing, viewing, doings, replaced, crossed>>
      /\ profile' = [profile EXCEPT ![u] = NoCopy] /\ outdated' = outdated \ {u}
  BY DEF ExpireProfile
<1>2. AccountsTypeOK'
  BY <1>1 DEF AccountsInv, AccountsTypeOK
<1>3. \A w \in Users : profile'[w] = IF w = u THEN NoCopy ELSE profile[w]
  BY <1>1 DEF AccountsInv, AccountsTypeOK
<1>4. FreeInv' /\ ViewInv' /\ KeptInv'
  BY <1>1, <1>3 DEF AccountsInv, ProfilesInv, FreeInv, ViewInv, KeptInv, ProfileOf
<1>5. QED
  BY <1>1, <1>2, <1>4, AccountsKept DEF AccountsInv, ProfilesInv

LEMMA AccountsStart == AccountsInit => AccountsInv
<1> SUFFICES ASSUME AccountsInit PROVE AccountsInv
  OBVIOUS
<1>1. AccountsTypeOK
  <2>1. 0 \in Versions
    BY AccountsAssumption DEF Versions
  <2>2. QED
    BY <2>1, AccountType, DoingType, ViewingType DEF AccountsInit, AccountsTypeOK
<1>2. \A u \in Users : user[u].password = 0 /\ user[u].is = "free"
  BY AccountType DEF AccountsInit
<1>3. \A d \in Doers : doing[d].at = "idle" /\ doing[d].does = "none"
  BY DoingType DEF AccountsInit
<1>4. \A v \in ProfileViewers : viewing[v].at = "idle"
  BY ViewingType DEF AccountsInit
<1>5. PasswordsInv
  BY <1>2, <1>3 DEF AccountsInit, PasswordsInv, PastInv, FreshInv, OldInv, NewPasswordStays
<1>6. ProfilesInv
  BY <1>2, <1>3, <1>4 DEF AccountsInit, ProfilesInv, RowInv, OneAccount, FreeInv, ViewInv, KeptInv
<1>7. QED
  BY <1>1, <1>5, <1>6 DEF AccountsInv

LEMMA AccountsGoOn == AccountsInv /\ [AccountsNext]_accountsVars => AccountsInv'
<1> SUFFICES ASSUME AccountsInv, [AccountsNext]_accountsVars PROVE AccountsInv'
  OBVIOUS
<1>1. /\ doings \in Nat
      /\ \A u \in Users : user[u] \in Account /\ user[u].password \in Nat /\ user[u].password <= doings
  <2>1. \A u \in Users : user[u] \in Account /\ user[u].password \in Versions
    BY AccountType DEF AccountsInv, AccountsTypeOK
  <2>2. QED
    BY <2>1, AccountsAssumption DEF AccountsInv, AccountsTypeOK, PasswordsInv, PastInv, Versions
<1>2. ASSUME NEW d \in Doers, NEW u \in Users, NEW p \in Pegawai,
             NEW joins \in SUBSET Joinable, CreateUser(d, u, p, joins)
      PROVE  AccountsInv'
  <2> DEFINE entity == [is |-> "live", password |-> doings + 1, data |-> doings + 1, of |-> p,
                        joins |-> joins]
  <2>1. doings + 1 \in Versions
    BY <1>1, <1>2, AccountsAssumption DEF CreateUser, BeginDoing, Versions
  <2>2. entity \in Account /\ entity.password = doings + 1 /\ entity.is = "live"
    BY <2>1 DEF Account
  <2>3. /\ user[u].is = "free" /\ \A e \in Doers : ~(doing[e].does = "create" /\ doing[e].id = u)
        /\ BeginDoing(d, "create", u, entity)
    BY <1>2 DEF CreateUser
  <2>4. "create" \in Does /\ "create" \notin Changes
    BY DEF Does, Changes
  <2> HIDE DEF entity
  <2>5. QED
    BY <2>2, <2>3, <2>4, BeginDoingKeeps
<1>3. ASSUME NEW d \in Doers, NEW u \in Users, NEW does \in {"update", "password", "remove"},
             ChangeUser(d, u, does)
      PROVE  AccountsInv'
  <2>1. user[u].is = "live" /\ BeginDoing(d, does, u, user[u])
    BY <1>3 DEF ChangeUser
  <2>2. does \in Does /\ does # "create"
    BY DEF Does, Changes
  <2>3. user[u].password # doings + 1
    BY <1>1
  <2>4. QED
    BY <1>1, <2>1, <2>2, <2>3, BeginDoingKeeps
<1>4. ASSUME NEW d \in Doers, NEW u \in Users, ChangeProfile(d, u) PROVE AccountsInv'
  <2>1. user[u].is = "live" /\ BeginDoing(d, "profile", u, user[u])
    BY <1>4 DEF ChangeProfile
  <2>2. "profile" \in Does
    BY DEF Does, Changes
  <2>3. user[u].password # doings + 1
    BY <1>1
  <2>4. QED
    BY <1>1, <2>1, <2>2, <2>3, BeginDoingKeeps
<1>5. ASSUME NEW d \in Doers, NEW p \in Pegawai, NEW does \in {"pegawai", "removePegawai"},
             ChangePegawai(d, p, does)
      PROVE  AccountsInv'
  <2>1. PICK entity : entity = [NoAccount EXCEPT !.of = p]
    OBVIOUS
  <2>2. entity \in Account /\ entity.password = 0
    BY <2>1, AccountType
  <2>3. NoDoing.id \in Users /\ BeginDoing(d, does, NoDoing.id, entity)
    BY <1>5, <2>1, DoingType DEF ChangePegawai
  <2>4. does \in Does /\ does \notin Changes /\ does # "create" /\ does # "update"
    BY DEF Does, Changes
  <2>5. doings \in Nat
    BY <1>1
  <2>6. entity.password # doings + 1
    <3>1. doings + 1 > 0 /\ doings + 1 \in Nat
      BY <2>5
    <3>2. QED
      BY <2>2, <3>1
  <2>7. QED
    BY <2>2, <2>3, <2>4, <2>6, BeginDoingKeeps
<1>6. ASSUME NEW d \in Doers,
             \/ \E joins \in SUBSET Joinable : SaveUser(d, joins)
             \/ SaveNewUser(d) \/ RemoveUser(d) \/ SavePegawai(d)
             \/ RemovePegawai(d) \/ DeleteProfileCache(d) \/ DoingFails(d)
      PROVE  AccountsInv'
  BY <1>6, SaveNewUserKeeps, SaveUserKeeps, RemoveUserKeeps, PegawaiKeeps, DoingEnds
<1>7. CASE UNCHANGED accountsVars
  <2>1. UNCHANGED <<user, pegawai, joined, profile, doing, viewing, doings, replaced, crossed, outdated>>
    BY <1>7 DEF accountsVars
  <2>2. AccountsTypeOK'
    BY <2>1 DEF AccountsInv, AccountsTypeOK
  <2>3. FreeInv' /\ ViewInv' /\ KeptInv'
    BY <2>1 DEF AccountsInv, ProfilesInv, FreeInv, ViewInv, KeptInv, ProfileOf
  <2>4. QED
    BY <2>1, <2>2, <2>3, AccountsKept DEF AccountsInv, ProfilesInv
<1>8. QED
  BY <1>2, <1>3, <1>4, <1>5, <1>6, <1>7, ProfileViewsKeep, ExpireProfileKeeps,
     SaveJoinedKeeps DEF AccountsNext

LEMMA AccountsHold == AccountsSpec => []AccountsInv
  BY AccountsStart, AccountsGoOn, PTL DEF AccountsSpec

(* NewPasswordStays for any number of accounts, employees and changes:     *)
(* once UsersService has saved a new password, no save brings an old one   *)
(* back, but one of a row that was loaded before.                          *)
THEOREM OldPasswordsAreGone == AccountsSpec => []NewPasswordStays
<1>1. AccountsInv => NewPasswordStays
  BY DEF AccountsInv, PasswordsInv
<1>2. QED
  BY <1>1, AccountsHold, PTL

(* ProfileIsFresh for any number of accounts, employees, changes and       *)
(* requests: getProfile keeps what the rows say, once every change that    *)
(* saved has deleted the copy; changes of employees by the administration, *)
(* of roles and of tenants delete none.                                    *)
THEOREM KeptProfileIsFresh == AccountsSpec => []ProfileIsFresh
<1>1. AccountsInv => ProfileIsFresh
  BY DEF AccountsInv, ProfilesInv, KeptInv, ProfileIsFresh
<1>2. QED
  BY <1>1, AccountsHold, PTL

(* The types of the accounts.                                              *)
THEOREM AccountsAreTyped == AccountsSpec => []AccountsTypeOK
<1>1. AccountsInv => AccountsTypeOK
  BY DEF AccountsInv
<1>2. QED
  BY <1>1, AccountsHold, PTL

(***************************************************************************)
(* Ledger: every sum the pages show of the transactions of a household,    *)
(* for any entries, amounts, dates, categories, members and requests. A    *)
(* sum is a number of units, so that sums by groups are compared by a      *)
(* bijection of units.                                                     *)
(***************************************************************************)

(* Months of a year.                                                       *)
LEMMA Division ==
  ASSUME NEW T \in Nat \ {0}, NEW p \in Nat
  PROVE  p % T = p - T * (p \div T) /\ p \div T \in Nat /\ p % T \in 0..(T - 1)
<1>1. p % T = p - T * (p \div T)
  OBVIOUS
<1>2. p \div T \in Nat
  OBVIOUS
<1>3. p % T \in 0..(T - 1)
  OBVIOUS
<1> QED
  BY <1>1, <1>2, <1>3

LEMMA Months ==
  ASSUME NEW p \in Nat
  PROVE  /\ YearOf(p) \in Nat /\ MonthOf(p) \in 1..12
         /\ 12 * YearOf(p) + MonthOf(p) - 1 = p
<1>1. 12 \in Nat \ {0}
  OBVIOUS
<1>2. p % 12 = p - 12 * (p \div 12) /\ p \div 12 \in Nat /\ p % 12 \in 0..(12 - 1)
  BY <1>1, Division
<1>3. PICK y \in Nat, m \in 0..11 : y = p \div 12 /\ m = p % 12 /\ m = p - 12 * y
  BY <1>2
<1> QED
  BY <1>3 DEF YearOf, MonthOf

LEMMA SameMonth ==
  ASSUME NEW p \in Nat, NEW q \in Nat
  PROVE  YearOf(q) = YearOf(p) /\ MonthOf(q) = MonthOf(p) <=> q = p
  BY Months

LEMMA MonthIs ==
  ASSUME NEW p \in Nat, NEW year \in Nat, NEW month \in 1..12, 12 * year + month - 1 = p
  PROVE  YearOf(p) = year /\ MonthOf(p) = month
<1>1. PICK y \in Nat, m \in 1..12 : y = YearOf(p) /\ m = MonthOf(p) /\ 12 * y + m - 1 = p
  BY Months
<1>2. y = year /\ m = month
  BY <1>1
<1> QED
  BY <1>1, <1>2

(* The month before the next one, for the comparison and for the copy.     *)
LEMMA NextMonth ==
  ASSUME NEW p \in Nat
  PROVE  /\ PrevMonth(YearOf(p + 1), MonthOf(p + 1)) = <<YearOf(p), MonthOf(p)>>
         /\ SourceMonth(YearOf(p + 1), MonthOf(p + 1)) = <<YearOf(p), MonthOf(p)>>
<1>1. PICK y \in Nat, m \in 1..12 : y = YearOf(p) /\ m = MonthOf(p) /\ 12 * y + m - 1 = p
  BY Months
<1>2. PICK z \in Nat, n \in 1..12 :
        z = YearOf(p + 1) /\ n = MonthOf(p + 1) /\ 12 * z + n - 1 = p + 1
  <2>1. p + 1 \in Nat
    OBVIOUS
  <2>2. /\ YearOf(p + 1) \in Nat /\ MonthOf(p + 1) \in 1..12
        /\ 12 * YearOf(p + 1) + MonthOf(p + 1) - 1 = p + 1
    BY <2>1, Months
  <2> QED
    BY <2>2
<1>3. PrevMonth(z, n) = <<y, m>>
  <2>1. CASE m = 12
    BY <2>1, <1>1, <1>2 DEF PrevMonth
  <2>2. CASE m # 12
    <3>1. z = y /\ n = m + 1
      BY <2>2, <1>1, <1>2
    <3> QED
      BY <3>1, <2>2 DEF PrevMonth
  <2> QED
    BY <2>1, <2>2
<1>4. SourceMonth(z, n) = <<y, m>>
  <2>1. 12 * z + n - 2 = p
    BY <1>2
  <2> QED
    BY <2>1, <1>1 DEF SourceMonth
<1> QED
  BY <1>1, <1>2, <1>3, <1>4

-----------------------------------------------------------------------------
(* Sums.                                                                   *)
LEMMA UnitsAre ==
  ASSUME NEW f, NEW u
  PROVE  u \in Units(f) <=> \E x \in DOMAIN f : \E k \in 1..f[x] : u = <<x, k>>
  BY DEF Units

LEMMA UnitsFinite ==
  ASSUME NEW S, IsFiniteSet(S), NEW f \in [S -> Nat]
  PROVE  IsFiniteSet(Units(f)) /\ Total(f) \in Nat
<1>1. PICK U : U = {{x} \X (1..f[x]) : x \in S}
  OBVIOUS
<1>2. PICK g : g = [x \in S |-> {x} \X (1..f[x])]
  OBVIOUS
<1>3. g \in Surjection(S, U)
  <2>1. g \in [S -> U]
    BY <1>1, <1>2
  <2>2. \A t \in U : \E x \in S : g[x] = t
    BY <1>1, <1>2
  <2> QED
    BY <2>1, <2>2, Fun_IsSurj
<1>4. IsFiniteSet(U)
  BY <1>3, FS_Surjection
<1>5. ASSUME NEW x \in S PROVE IsFiniteSet({x} \X (1..f[x]))
  <2>1. IsFiniteSet({x})
    BY FS_Singleton
  <2>2. IsFiniteSet(1..f[x])
    <3>1. 1 \in Int /\ f[x] \in Int
      OBVIOUS
    <3> QED
      BY <3>1, FS_Interval
  <2> QED
    BY <2>1, <2>2, FS_Product
<1>6. IsFiniteSet(UNION U)
  BY <1>1, <1>4, <1>5, FS_UNION
<1>7. Units(f) = UNION U
  BY <1>1 DEF Units
<1> QED
  BY <1>6, <1>7, FS_CardinalityType DEF Total

LEMMA BijectionIs ==
  ASSUME NEW S, NEW T, NEW F \in Bijection(S, T)
  PROVE  /\ F \in [S -> T]
         /\ \A x, y \in S : F[x] = F[y] => x = y
         /\ \A t \in T : \E x \in S : F[x] = t
  BY DEF Bijection, Injection, IsInjective, Surjection

(* The part of a function in one group.                                   *)
Group(a, g, d) == [x \in {y \in DOMAIN a : g[y] = d} |-> a[x]]

(* A sum by groups is the sum of all.                                      *)
LEMMA GroupsAddUp ==
  ASSUME NEW S, IsFiniteSet(S), NEW a \in [S -> Nat], NEW f, NEW g \in [S -> DOMAIN f],
         \A d \in DOMAIN f : f[d] = Total(Group(a, g, d))
  PROVE  Total(f) = Total(a)
<1>0. PICK D : D = DOMAIN f
  OBVIOUS
<1> USE <1>0
<1>1. ASSUME NEW d \in D
      PROVE  f[d] \in Nat /\ Bijection(1..f[d], Units(Group(a, g, d))) # {}
  <2>1. PICK G \in SUBSET S : G = {y \in S : g[y] = d}
    OBVIOUS
  <2>2. IsFiniteSet(G)
    BY FS_Subset
  <2>3. Group(a, g, d) \in [G -> Nat]
    BY <2>1 DEF Group
  <2>4. IsFiniteSet(Units(Group(a, g, d))) /\ Total(Group(a, g, d)) \in Nat
    BY <2>2, <2>3, UnitsFinite
  <2>5. f[d] = Cardinality(Units(Group(a, g, d)))
    BY DEF Total
  <2>6. ExistsBijection(1..f[d], Units(Group(a, g, d)))
    BY <2>4, <2>5, FS_CardinalityType
  <2> QED
    BY <2>4, <2>5, <2>6, Fun_ExistsBij DEF Total
<1>2. PICK h : h = [d \in D |-> CHOOSE b \in Bijection(1..f[d], Units(Group(a, g, d))) : TRUE]
  OBVIOUS
<1>3. \A d \in D : h[d] \in Bijection(1..f[d], Units(Group(a, g, d)))
  BY <1>1, <1>2
<1>4. ASSUME NEW d \in D
      PROVE  /\ h[d] \in [1..f[d] -> Units(Group(a, g, d))]
             /\ \A k, l \in 1..f[d] : h[d][k] = h[d][l] => k = l
             /\ \A u \in Units(Group(a, g, d)) : \E k \in 1..f[d] : h[d][k] = u
  <2>1. PICK N, T, F : N = 1..f[d] /\ T = Units(Group(a, g, d)) /\ F = h[d]
    OBVIOUS
  <2>2. F \in Bijection(N, T)
    BY <2>1, <1>3
  <2>3. F \in [N -> T] /\ \A k, l \in N : F[k] = F[l] => k = l
    BY <2>2, BijectionIs
  <2>4. \A u \in T : \E k \in N : F[k] = u
    BY <2>2, BijectionIs
  <2>5. h[d] \in [1..f[d] -> Units(Group(a, g, d))]
    BY <2>1, <2>3
  <2>6. \A k, l \in 1..f[d] : h[d][k] = h[d][l] => k = l
    BY <2>1, <2>3
  <2>7. \A u \in Units(Group(a, g, d)) : \E k \in 1..f[d] : h[d][k] = u
    BY <2>1, <2>4
  <2> QED
    BY <2>5, <2>6, <2>7
<1>5. ASSUME NEW d \in D, NEW u
      PROVE  u \in Units(Group(a, g, d)) <=> u \in Units(a) /\ g[u[1]] = d
  <2>1. u \in Units(Group(a, g, d)) <=>
          \E x \in {y \in S : g[y] = d} : \E k \in 1..a[x] : u = <<x, k>>
    BY UnitsAre DEF Group
  <2>2. u \in Units(a) <=> \E x \in S : \E k \in 1..a[x] : u = <<x, k>>
    BY UnitsAre
  <2> QED
    BY <2>1, <2>2
<1>6. PICK b : b = [v \in Units(f) |-> h[v[1]][v[2]]]
  OBVIOUS
<1>7. ASSUME NEW v \in Units(f)
      PROVE  v[1] \in D /\ v[2] \in 1..f[v[1]] /\ v = <<v[1], v[2]>> /\ b[v] = h[v[1]][v[2]]
             /\ b[v] \in Units(a) /\ g[b[v][1]] = v[1]
  <2>1. PICK d \in D : \E k \in 1..f[d] : v = <<d, k>>
    BY UnitsAre
  <2>2. PICK k \in 1..f[d] : v = <<d, k>>
    BY <2>1
  <2>3. b[v] = h[d][k] /\ h[d][k] \in Units(Group(a, g, d))
    BY <2>2, <1>4, <1>6
  <2>4. b[v] \in Units(a) /\ g[b[v][1]] = d
    BY <2>3, <1>5
  <2> QED
    BY <2>2, <2>3, <2>4
<1>8. b \in [Units(f) -> Units(a)]
  BY <1>6, <1>7
<1>9. ASSUME NEW v \in Units(f), NEW w \in Units(f), b[v] = b[w] PROVE v = w
  <2>1. PICK d, k, e, l : d = v[1] /\ k = v[2] /\ e = w[1] /\ l = w[2]
    OBVIOUS
  <2>2. d \in D /\ k \in 1..f[d] /\ v = <<d, k>> /\ b[v] = h[d][k] /\ g[b[v][1]] = d
    BY <2>1, <1>7
  <2>3. e \in D /\ l \in 1..f[e] /\ w = <<e, l>> /\ b[w] = h[e][l] /\ g[b[w][1]] = e
    BY <2>1, <1>7
  <2>4. d = e
    BY <2>2, <2>3, <1>9
  <2>5. h[d][k] = h[d][l] /\ l \in 1..f[d]
    BY <2>2, <2>3, <2>4, <1>9
  <2>6. k = l
    BY <2>2, <2>5, <1>4
  <2> QED
    BY <2>2, <2>3, <2>4, <2>6
<1>10. ASSUME NEW u \in Units(a) PROVE \E v \in Units(f) : b[v] = u
  <2>1. PICK d \in D : d = g[u[1]]
    BY UnitsAre
  <2>2. u \in Units(Group(a, g, d))
    BY <2>1, <1>5
  <2>3. PICK k \in 1..f[d] : h[d][k] = u
    BY <2>2, <1>4
  <2>4. <<d, k>> \in Units(f)
    BY UnitsAre
  <2> QED
    BY <2>3, <2>4, <1>6
<1>11. b \in Bijection(Units(f), Units(a))
  BY <1>8, <1>9, <1>10, Fun_IsBij
<1>12. ExistsBijection(Units(a), Units(f))
  BY <1>11, Fun_ExistsBij, Fun_ExistsBijSymmetric
<1> QED
  BY <1>12, UnitsFinite, FS_Bijection DEF Total

LEMMA AmountsOf ==
  ASSUME NEW T \in SUBSET Entries
  PROVE  /\ IsFiniteSet(T) /\ [t \in T |-> AmountOf[t]] \in [T -> Nat]
         /\ IsFiniteSet(Units([t \in T |-> AmountOf[t]])) /\ Sum(T) \in Nat
         /\ Sum(T) = Cardinality(Units([t \in T |-> AmountOf[t]]))
<1>1. IsFiniteSet(T) /\ [t \in T |-> AmountOf[t]] \in [T -> Nat]
  BY FS_Subset, LedgerAssumption
<1> QED
  BY <1>1, UnitsFinite DEF Sum, Total

LEMMA GroupSums ==
  ASSUME NEW T \in SUBSET Entries, NEW f, NEW g \in [T -> DOMAIN f],
         \A d \in DOMAIN f : f[d] = Sum({t \in T : g[t] = d})
  PROVE  Total(f) = Sum(T)
<1>1. PICK a : a = [t \in T |-> AmountOf[t]]
  OBVIOUS
<1>2. IsFiniteSet(T) /\ a \in [T -> Nat]
  BY <1>1, AmountsOf
<1>3. ASSUME NEW d \in DOMAIN f
      PROVE  Sum({t \in T : g[t] = d}) = Total(Group(a, g, d))
  <2>1. [t \in {y \in T : g[y] = d} |-> AmountOf[t]] = Group(a, g, d)
    BY <1>1 DEF Group
  <2> QED
    BY <2>1 DEF Sum
<1>4. \A d \in DOMAIN f : f[d] = Total(Group(a, g, d))
  BY <1>3
<1>5. Total(f) = Total(a)
  BY <1>2, <1>4, GroupsAddUp
<1> QED
  BY <1>1, <1>5 DEF Sum

LEMMA SumOfTwo ==
  ASSUME NEW T \in SUBSET Entries, NEW A \in SUBSET T, NEW B \in SUBSET T, A \cap B = {}, T = A \cup B
  PROVE  Sum(T) = Sum(A) + Sum(B)
<1>1. PICK UT, UA, UB : /\ UT = Units([t \in T |-> AmountOf[t]])
                        /\ UA = Units([t \in A |-> AmountOf[t]])
                        /\ UB = Units([t \in B |-> AmountOf[t]])
  OBVIOUS
<1>2. A \in SUBSET Entries /\ B \in SUBSET Entries
  OBVIOUS
<1>3. /\ IsFiniteSet(UA) /\ IsFiniteSet(UB)
      /\ Sum(A) \in Nat /\ Sum(B) \in Nat
      /\ Sum(T) = Cardinality(UT) /\ Sum(A) = Cardinality(UA) /\ Sum(B) = Cardinality(UB)
  BY <1>1, <1>2, AmountsOf
<1>4. /\ \A u : u \in UT <=> \E t \in T : \E k \in 1..AmountOf[t] : u = <<t, k>>
      /\ \A u : u \in UA <=> \E t \in A : \E k \in 1..AmountOf[t] : u = <<t, k>>
      /\ \A u : u \in UB <=> \E t \in B : \E k \in 1..AmountOf[t] : u = <<t, k>>
  BY <1>1, UnitsAre
<1>5. UT = UA \cup UB
  <2>1. \A u : u \in UT <=> u \in UA \/ u \in UB
    BY <1>4
  <2> QED
    BY <2>1
<1>6. UA \cap UB = {}
  <2>1. \A u : ~(u \in UA /\ u \in UB)
    BY <1>4
  <2> QED
    BY <2>1
<1>7. Cardinality(UT) = Cardinality(UA) + Cardinality(UB) - Cardinality({})
  BY <1>3, <1>5, <1>6, FS_Union
<1>8. Cardinality({}) = 0
  BY FS_EmptySet
<1> QED
  BY <1>3, <1>7, <1>8

LEMMA SumOfSome ==
  ASSUME NEW T \in SUBSET Entries, NEW A \in SUBSET T
  PROVE  Sum(A) <= Sum(T)
<1>1. Sum(T) = Sum(A) + Sum(T \ A)
  BY SumOfTwo
<1>2. Sum(A) \in Nat /\ Sum(T \ A) \in Nat
  BY AmountsOf
<1> QED
  BY <1>1, <1>2

-----------------------------------------------------------------------------
(* The rows that each query finds.                                         *)
LEMMA EntryType ==
  ASSUME LedgerTypeOK, NEW t \in Entries
  PROVE  /\ entry[t].live \in BOOLEAN /\ entry[t].kind \in Kinds /\ entry[t].category \in Categories
         /\ entry[t].member \in Members \cup {Nobody}
         /\ entry[t].date[1] \in Nat /\ entry[t].date[2] \in 1..31
         /\ entry[t].date[2] <= DaysIn(MonthOf(entry[t].date[1]))
<1>1. entry[t] \in Row
  BY DEF LedgerTypeOK
<1>2. entry[t].date \in Dates /\ entry[t].date \in Nat \X (1..31)
  BY <1>1, LedgerAssumption DEF Row
<1> QED
  BY <1>1, <1>2, LedgerAssumption DEF Row

LEMMA InMonth ==
  ASSUME LedgerTypeOK, NEW t \in Entries, NEW p \in Nat
  PROVE  In(t, YearOf(p), MonthOf(p)) <=> entry[t].date[1] = p
  BY EntryType, SameMonth DEF In

LEMMA FoundRows ==
  ASSUME LedgerTypeOK, NEW p \in Nat, NEW kinds
  PROVE  Of(kinds, YearOf(p), MonthOf(p)) = {t \in Live(kinds) : entry[t].date[1] = p}
<1>1. \A t \in Live(kinds) : t \in Entries
  BY DEF Live
<1> QED
  BY <1>1, InMonth DEF Of

LEMMA DaysOfMonths == ASSUME NEW month \in 1..12 PROVE DaysIn(month) \in 29..31
  BY DEF DaysIn

LEMMA ListedRows ==
  ASSUME LedgerTypeOK, NEW p \in Nat
  PROVE  /\ Listed(YearOf(p), MonthOf(p)) = {t \in Live(Kinds) : entry[t].date[1] = p}
         /\ Listed(YearOf(p), MonthOf(p)) \subseteq Listed(YearOf(p), 0)
<1>1. PICK y \in Nat, m \in 1..12 : y = YearOf(p) /\ m = MonthOf(p) /\ 12 * y + m - 1 = p
  BY Months
<1>2. ASSUME NEW t \in Live(Kinds)
      PROVE  /\ t \in Listed(y, m) <=> entry[t].date[1] = p
             /\ entry[t].date[1] = p => t \in Listed(y, 0)
  <2>1. t \in Entries
    BY DEF Live
  <2>2. PICK q \in Nat, d \in 1..31 :
          q = entry[t].date[1] /\ d = entry[t].date[2] /\ d <= DaysIn(MonthOf(q))
    BY <2>1, EntryType
  <2>3. m # 0 /\ DaysIn(m) \in 29..31
    BY DaysOfMonths
  <2>4. NotBefore(entry[t].date, <<12 * y + m - 1, 1>>) <=> q >= p
    BY <1>1, <2>2 DEF NotBefore
  <2>5. NotBefore(<<12 * y + m - 1, DaysIn(m)>>, entry[t].date) <=> p > q \/ (p = q /\ DaysIn(m) >= d)
    BY <1>1, <2>2 DEF NotBefore
  <2>6. t \in Listed(y, m) <=> q >= p /\ (p > q \/ (p = q /\ DaysIn(m) >= d))
    BY <2>3, <2>4, <2>5 DEF Listed
  <2>7. q = p => DaysIn(m) >= d
    BY <1>1, <2>2, <2>3
  <2>8. t \in Listed(y, m) <=> q = p
    BY <2>6, <2>7
  <2>9. ASSUME q = p PROVE t \in Listed(y, 0)
    <3>1. NotBefore(entry[t].date, <<12 * y, 1>>)
      BY <1>1, <2>2, <2>9 DEF NotBefore
    <3>2. NotBefore(<<12 * y + 11, 31>>, entry[t].date)
      BY <1>1, <2>2, <2>9 DEF NotBefore
    <3> QED
      BY <3>1, <3>2 DEF Listed
  <2> QED
    BY <2>2, <2>8, <2>9
<1>3. Listed(y, m) \subseteq Live(Kinds)
  BY DEF Listed
<1> QED
  BY <1>1, <1>2, <1>3

LEMMA OfIs ==
  ASSUME LedgerTypeOK, NEW p \in Nat
  PROVE  /\ Of(Kinds, YearOf(p), MonthOf(p)) \in SUBSET Entries
         /\ Of(Expenses, YearOf(p), MonthOf(p)) \in SUBSET Entries
         /\ {t \in Of(Kinds, YearOf(p), MonthOf(p)) : entry[t].kind \in Expenses}
              = Of(Expenses, YearOf(p), MonthOf(p))
         /\ \A t \in Of(Kinds, YearOf(p), MonthOf(p)) :
              entry[t].date[2] \in 1..DaysIn(MonthOf(p))
<1>1. Expenses \subseteq Kinds
  BY DEF Expenses, Kinds
<1>2. /\ Of(Kinds, YearOf(p), MonthOf(p)) \in SUBSET Entries
      /\ Of(Expenses, YearOf(p), MonthOf(p)) \in SUBSET Entries
      /\ {t \in Of(Kinds, YearOf(p), MonthOf(p)) : entry[t].kind \in Expenses}
           = Of(Expenses, YearOf(p), MonthOf(p))
  BY <1>1 DEF Of, Live
<1>3. ASSUME NEW t \in Of(Kinds, YearOf(p), MonthOf(p))
      PROVE  entry[t].date[2] \in 1..DaysIn(MonthOf(p))
  <2>1. t \in Entries /\ entry[t].date[1] = p
    BY FoundRows DEF Live
  <2>2. entry[t].date[2] \in 1..31 /\ entry[t].date[2] <= DaysIn(MonthOf(p))
    BY <2>1, EntryType
  <2>3. DaysIn(MonthOf(p)) \in 29..31
    BY Months, DaysOfMonths
  <2> QED
    BY <2>2, <2>3
<1> QED
  BY <1>2, <1>3

(* getDailyChart                                                           *)
OfDay(T, d) == {t \in T : entry[t].date[2] = d}
OfKinds(T, kinds) == {t \in T : entry[t].kind \in kinds}

LEMMA SumsAre ==
  ASSUME NEW T
  PROVE  /\ Sums(T).income = Sum(OfKinds(T, {"income"}))
         /\ Sums(T).expense = Sum(OfKinds(T, Expenses))
<1>1. OfKinds(T, {"income"}) = {t \in T : entry[t].kind = "income"}
  BY DEF OfKinds
<1>2. OfKinds(T, Expenses) = {t \in T : entry[t].kind \in Expenses}
  BY DEF OfKinds
<1> QED
  BY <1>1, <1>2 DEF Sums

LEMMA DaysAddUp ==
  ASSUME LedgerTypeOK, NEW p \in Nat, NEW kinds, NEW f,
         DOMAIN f = 1..DaysIn(MonthOf(p)),
         \A d \in DOMAIN f :
           f[d] = Sum(OfKinds(OfDay(Of(Kinds, YearOf(p), MonthOf(p)), d), kinds))
  PROVE  Total(f) = Sum(OfKinds(Of(Kinds, YearOf(p), MonthOf(p)), kinds))
<1>1. PICK R \in SUBSET Entries : R = Of(Kinds, YearOf(p), MonthOf(p))
  BY OfIs
<1>2. PICK T \in SUBSET Entries : T = OfKinds(R, kinds)
  BY DEF OfKinds
<1>3. PICK g : g = [t \in T |-> entry[t].date[2]]
  OBVIOUS
<1>4. g \in [T -> DOMAIN f]
  <2>1. \A t \in T : entry[t].date[2] \in DOMAIN f
    BY <1>1, <1>2, OfIs DEF OfKinds
  <2> QED
    BY <2>1, <1>3
<1>5. ASSUME NEW d \in DOMAIN f PROVE f[d] = Sum({t \in T : g[t] = d})
  <2>1. OfKinds(OfDay(R, d), kinds) = {t \in T : g[t] = d}
    BY <1>2, <1>3 DEF OfKinds, OfDay
  <2> QED
    BY <2>1, <1>1
<1>6. Total(f) = Sum(T)
  BY <1>4, <1>5, GroupSums
<1> QED
  BY <1>1, <1>2, <1>6

(* getMemberBreakdown                                                      *)
LEMMA MembersAddUp ==
  ASSUME LedgerTypeOK, NEW p \in Nat
  PROVE  Total(ByMember(YearOf(p), MonthOf(p))) = Sum(Of(Expenses, YearOf(p), MonthOf(p)))
<1>1. PICK T \in SUBSET Entries : T = Of(Expenses, YearOf(p), MonthOf(p))
  BY OfIs
<1>2. PICK g : g = [t \in T |-> IF entry[t].member \in members THEN entry[t].member ELSE Nobody]
  OBVIOUS
<1>3. PICK f : f = ByMember(YearOf(p), MonthOf(p))
  OBVIOUS
<1>4. DOMAIN f = members \cup {Nobody}
  BY <1>3 DEF ByMember
<1>5. g \in [T -> DOMAIN f]
  BY <1>2, <1>4
<1>6. ASSUME NEW m \in DOMAIN f PROVE f[m] = Sum({t \in T : g[t] = m})
  <2>1. f[m] = Sum({t \in T : (IF entry[t].member \in members THEN entry[t].member
                               ELSE Nobody) = m})
    BY <1>1, <1>3, <1>4 DEF ByMember
  <2>2. {t \in T : (IF entry[t].member \in members THEN entry[t].member ELSE Nobody) = m}
          = {t \in T : g[t] = m}
    BY <1>2
  <2> QED
    BY <2>1, <2>2
<1> QED
  BY <1>1, <1>3, <1>5, <1>6, GroupSums

(* getCategoryBreakdown, getRecurringReport                                *)
LEMMA CategoriesAddUp ==
  ASSUME LedgerTypeOK, NEW p \in Nat
  PROVE  /\ Total(ByCategory(YearOf(p), MonthOf(p))) + Orphans(YearOf(p), MonthOf(p))
              = Sum(Of(Expenses, YearOf(p), MonthOf(p)))
         /\ Sum(RecurringReport(YearOf(p), MonthOf(p))) <= Total(ByCategory(YearOf(p), MonthOf(p)))
<1>1. PICK R \in SUBSET Entries : R = Of(Expenses, YearOf(p), MonthOf(p))
  BY OfIs
<1>2. PICK T \in SUBSET R : T = {t \in R : entry[t].category \in categories}
  OBVIOUS
<1>3. PICK g : g = [t \in T |-> entry[t].category]
  OBVIOUS
<1>4. PICK f : f = ByCategory(YearOf(p), MonthOf(p))
  OBVIOUS
<1>5. DOMAIN f = categories
  BY <1>4 DEF ByCategory
<1>6. g \in [T -> DOMAIN f]
  BY <1>2, <1>3, <1>5
<1>7. ASSUME NEW c \in DOMAIN f PROVE f[c] = Sum({t \in T : g[t] = c})
  <2>1. f[c] = Sum({t \in R : entry[t].category = c})
    BY <1>1, <1>4, <1>5 DEF ByCategory
  <2>2. {t \in R : entry[t].category = c} = {t \in T : g[t] = c}
    BY <1>2, <1>3, <1>5
  <2> QED
    BY <2>1, <2>2
<1>8. Total(f) = Sum(T)
  BY <1>6, <1>7, GroupSums
<1>9. PICK B \in SUBSET R : B = {t \in R : entry[t].category \notin categories}
  OBVIOUS
<1>10. Sum(R) = Sum(T) + Sum(B)
  BY <1>2, <1>9, SumOfTwo
<1>11. Orphans(YearOf(p), MonthOf(p)) = Sum(B)
  BY <1>1, <1>9 DEF Orphans
<1>12. RecurringReport(YearOf(p), MonthOf(p)) \in SUBSET T
  BY <1>1, <1>2 DEF RecurringReport, Of, Live, Expenses
<1>13. Sum(RecurringReport(YearOf(p), MonthOf(p))) <= Sum(T)
  BY <1>12, SumOfSome
<1> QED
  BY <1>1, <1>4, <1>8, <1>10, <1>11, <1>13

-----------------------------------------------------------------------------
(* What the pages show agrees in every state that is well typed.           *)
LEMMA SumsOfTyped == LedgerTypeOK => SumsAgree
<1> SUFFICES ASSUME LedgerTypeOK, NEW p \in {entry[t].date[1] : t \in Live(Kinds)}
    PROVE LET year == YearOf(p)
              month == MonthOf(p)
              now == Summary(year, month).current
              daily == DailyChart(year, month)
              next == Summary(YearOf(p + 1), MonthOf(p + 1))
          IN /\ now.income = Total([d \in DOMAIN daily |-> daily[d].income])
             /\ now.expense = Total([d \in DOMAIN daily |-> daily[d].expense])
             /\ now.expense = Total(ByMember(year, month))
             /\ now.expense = Total(ByCategory(year, month)) + Orphans(year, month)
             /\ \A c \in categories : ByCategory(year, month)[c] = UsedAmount(c, year, month)
             /\ now = MonthlyReport(year)[month]
             /\ now = Sums(Listed(year, month))
             /\ now.expense + now.income = Sum(Listed(year, 0) \cap Listed(year, month))
             /\ (p \in DOMAIN Trend /\ p > Since[1]) => now = Trend[p]
             /\ now = next.previous
             /\ <<year, month>> = SourceMonth(YearOf(p + 1), MonthOf(p + 1))
             /\ Sum(RecurringReport(year, month)) <= Total(ByCategory(year, month))
  BY DEF SumsAgree
<1>0. p \in Nat
  BY EntryType DEF Live
<1>1. PICK year, month : year = YearOf(p) /\ month = MonthOf(p)
  OBVIOUS
<1>2. month \in 1..12
  BY <1>0, <1>1, Months
<1>3. PICK R \in SUBSET Entries : R = Of(Kinds, year, month)
  BY <1>0, <1>1, OfIs
<1>4. PICK now : now = Summary(year, month).current
  OBVIOUS
<1>5. /\ now = Sums(R) /\ now.income = Sum(OfKinds(R, {"income"}))
      /\ now.expense = Sum(OfKinds(R, Expenses))
  <2>1. now = Sums(R)
    BY <1>3, <1>4 DEF Summary
  <2> QED
    BY <2>1, SumsAre
<1>6. now.expense = Sum(Of(Expenses, year, month))
  <2>1. OfKinds(R, Expenses) = Of(Expenses, year, month)
    BY <1>0, <1>1, <1>3, OfIs DEF OfKinds
  <2> QED
    BY <2>1, <1>5
<1>7. PICK daily : daily = DailyChart(year, month)
  OBVIOUS
<1>8. DOMAIN daily = 1..DaysIn(month)
      /\ \A d \in 1..DaysIn(month) : daily[d] = Sums(OfDay(R, d))
  BY <1>3, <1>7 DEF DailyChart, OfDay
<1>9. now.income = Total([d \in DOMAIN daily |-> daily[d].income])
  <2>1. PICK f : f = [d \in DOMAIN daily |-> daily[d].income]
    OBVIOUS
  <2>2. DOMAIN f = 1..DaysIn(month)
    BY <2>1, <1>8
  <2>3. \A d \in DOMAIN f : f[d] = Sum(OfKinds(OfDay(R, d), {"income"}))
    BY <2>1, <2>2, <1>8, SumsAre
  <2>4. Total(f) = Sum(OfKinds(R, {"income"}))
    BY <2>2, <2>3, <1>0, <1>1, <1>3, DaysAddUp
  <2> QED
    BY <2>1, <2>4, <1>5
<1>10. now.expense = Total([d \in DOMAIN daily |-> daily[d].expense])
  <2>1. PICK f : f = [d \in DOMAIN daily |-> daily[d].expense]
    OBVIOUS
  <2>2. DOMAIN f = 1..DaysIn(month)
    BY <2>1, <1>8
  <2>3. \A d \in DOMAIN f : f[d] = Sum(OfKinds(OfDay(R, d), Expenses))
    BY <2>1, <2>2, <1>8, SumsAre
  <2>4. Total(f) = Sum(OfKinds(R, Expenses))
    BY <2>2, <2>3, <1>0, <1>1, <1>3, DaysAddUp
  <2> QED
    BY <2>1, <2>4, <1>5
<1>11. now.expense = Total(ByMember(year, month))
  BY <1>0, <1>1, <1>6, MembersAddUp
<1>12. now.expense = Total(ByCategory(year, month)) + Orphans(year, month)
       /\ Sum(RecurringReport(year, month)) <= Total(ByCategory(year, month))
  BY <1>0, <1>1, <1>6, CategoriesAddUp
<1>13. \A c \in categories : ByCategory(year, month)[c] = UsedAmount(c, year, month)
  BY DEF ByCategory, UsedAmount, Expenses
<1>14. now = MonthlyReport(year)[month]
  <2>1. R = {t \in Live(Kinds) : In(t, year, month)}
    BY <1>3 DEF Of
  <2> QED
    BY <2>1, <1>2, <1>5 DEF MonthlyReport
<1>15. R = {t \in Live(Kinds) : entry[t].date[1] = p}
  BY <1>0, <1>1, <1>3, FoundRows
<1>16. Listed(year, month) = R /\ Listed(year, 0) \cap Listed(year, month) = R
  BY <1>0, <1>1, <1>15, ListedRows
<1>17. now.expense + now.income = Sum(R)
  <2>1. PICK A \in SUBSET R, B \in SUBSET R :
          A = OfKinds(R, {"income"}) /\ B = OfKinds(R, Expenses)
    BY DEF OfKinds
  <2>2. R = A \cup B /\ A \cap B = {}
    BY <2>1, <1>3 DEF OfKinds, Of, Live, Kinds, Expenses
  <2>3. Sum(R) = Sum(A) + Sum(B)
    BY <2>2, SumOfTwo
  <2>4. Sum(A) \in Nat /\ Sum(B) \in Nat
    BY AmountsOf
  <2> QED
    BY <2>1, <2>3, <2>4, <1>5
<1>18. p \in DOMAIN Trend /\ p > Since[1] => now = Trend[p]
  <2> SUFFICES ASSUME p \in DOMAIN Trend, p > Since[1] PROVE now = Trend[p]
    OBVIOUS
  <2>1. PICK T : T = {t \in Live(Kinds) : NotBefore(entry[t].date, Since)}
    OBVIOUS
  <2>2. Trend = [q \in {entry[t].date[1] : t \in T} |-> Sums({t \in T : entry[t].date[1] = q})]
    BY <2>1 DEF Trend
  <2>3. Trend[p] = Sums({t \in T : entry[t].date[1] = p})
    BY <2>2
  <2>4. {t \in T : entry[t].date[1] = p} = R
    BY <2>1, <1>15 DEF NotBefore
  <2> QED
    BY <2>3, <2>4, <1>5
<1>19. now = Summary(YearOf(p + 1), MonthOf(p + 1)).previous
  <2>1. PrevMonth(YearOf(p + 1), MonthOf(p + 1)) = <<year, month>>
    BY <1>0, <1>1, NextMonth
  <2>2. Summary(YearOf(p + 1), MonthOf(p + 1)).previous = Sums(Of(Kinds, year, month))
    BY <2>1 DEF Summary
  <2> QED
    BY <2>2, <1>3, <1>5
<1>20. <<year, month>> = SourceMonth(YearOf(p + 1), MonthOf(p + 1))
  BY <1>0, <1>1, NextMonth
<1> QED
  BY <1>1, <1>4, <1>5, <1>7, <1>9, <1>10, <1>11, <1>12, <1>13, <1>14, <1>16, <1>17, <1>18,
    <1>19, <1>20

-----------------------------------------------------------------------------
LEMMA NoRowIsRow == NoRow \in Row /\ \A entity \in Row : \A live \in BOOLEAN : [entity EXCEPT !.live = live] \in Row
<1>1. (CHOOSE d \in Dates : TRUE) \in Dates /\ (CHOOSE c \in Categories : TRUE) \in Categories
  BY LedgerAssumption
<1>2. NoRow \in Row
  BY <1>1 DEF NoRow, Row, Kinds
<1>3. \A entity \in Row : \A live \in BOOLEAN : [entity EXCEPT !.live = live] \in Row
  BY DEF Row
<1> QED
  BY <1>2, <1>3

LEMMA NoWriteType == NoWrite \in [at : {"idle", "inserting", "saving"}, id : Entries, row : Row]
<1>1. (CHOOSE t \in Entries : TRUE) \in Entries
  BY LedgerAssumption
<1> QED
  BY <1>1, NoRowIsRow DEF NoWrite

LEMMA LedgerStarts == LedgerInit => LedgerTypeOK
<1> SUFFICES ASSUME LedgerInit PROVE LedgerTypeOK
  OBVIOUS
<1>1. entry \in [Entries -> Row]
  BY NoRowIsRow DEF LedgerInit
<1>2. write \in [Writers -> [at : {"idle", "inserting", "saving"}, id : Entries, row : Row]]
  BY NoWriteType DEF LedgerInit
<1>3. categories \in SUBSET Categories /\ members \in SUBSET Members /\ writes \in 0..MaxWrites
  BY LedgerAssumption DEF LedgerInit
<1> QED
  BY <1>1, <1>2, <1>3 DEF LedgerTypeOK

LEMMA LedgerGoesOn == LedgerTypeOK /\ [LedgerNext]_ledgerVars => LedgerTypeOK'
<1> SUFFICES ASSUME LedgerTypeOK, [LedgerNext]_ledgerVars PROVE LedgerTypeOK'
  OBVIOUS
<1> DEFINE Write == [at : {"idle", "inserting", "saving"}, id : Entries, row : Row]
<1>0. /\ entry \in [Entries -> Row] /\ write \in [Writers -> Write] /\ writes \in 0..MaxWrites
      /\ categories \in SUBSET Categories /\ members \in SUBSET Members
  BY DEF LedgerTypeOK
<1>1. ASSUME NEW w \in Writers, NEW t \in Entries, NEW value \in Row, Create(w, t, value)
      PROVE  LedgerTypeOK'
  <2>1. write' \in [Writers -> Write]
    BY <1>0, <1>1 DEF Create
  <2>2. writes' \in 0..MaxWrites
    BY <1>0, <1>1, LedgerAssumption DEF Create
  <2> QED
    BY <1>0, <1>1, <2>1, <2>2 DEF Create, LedgerTypeOK
<1>2. ASSUME NEW w \in Writers, NEW t \in Entries, NEW value \in Row, Update(w, t, value)
      PROVE  LedgerTypeOK'
  <2>1. PICK category \in {entry[t].category, value.category}, member \in {entry[t].member, value.member} :
          write' = [write EXCEPT ![w] =
            [at |-> "saving", id |-> t,
             row |-> [value EXCEPT !.category = category,
                                 !.member = IF member \in members THEN member ELSE Nobody]]]
    BY <1>2 DEF Update
  <2>2. category \in Categories /\ member \in Members \cup {Nobody}
    BY <1>0, <2>1 DEF Row
  <2>3. [value EXCEPT !.category = category,
                    !.member = IF member \in members THEN member ELSE Nobody] \in Row
    BY <2>2 DEF Row
  <2>4. write' \in [Writers -> Write]
    BY <1>0, <2>1, <2>3
  <2>5. writes' \in 0..MaxWrites
    BY <1>0, <1>2, LedgerAssumption DEF Update
  <2> QED
    BY <1>0, <1>2, <2>4, <2>5 DEF Update, LedgerTypeOK
<1>3. ASSUME NEW w \in Writers, Insert(w) PROVE LedgerTypeOK'
  <2>1. entry' \in [Entries -> Row] /\ write' \in [Writers -> Write]
    BY <1>0, <1>3, NoWriteType DEF Insert
  <2> QED
    BY <1>0, <1>3, <2>1 DEF Insert, LedgerTypeOK
<1>4. ASSUME NEW w \in Writers, Save(w) PROVE LedgerTypeOK'
  <2>1. PICK live \in {entry[write[w].id].live, TRUE} :
          entry' = [entry EXCEPT ![write[w].id] = [write[w].row EXCEPT !.live = live]]
    BY <1>4 DEF Save
  <2>2. write[w].row \in Row /\ write[w].id \in Entries /\ live \in BOOLEAN
    BY <1>0, <2>1 DEF Row
  <2>3. entry' \in [Entries -> Row]
    BY <1>0, <2>1, <2>2, NoRowIsRow
  <2>4. write' \in [Writers -> Write]
    BY <1>0, <1>4, NoWriteType DEF Save
  <2> QED
    BY <1>0, <1>4, <2>3, <2>4 DEF Save, LedgerTypeOK
<1>5. ASSUME NEW w \in Writers, WriteFails(w) PROVE LedgerTypeOK'
  <2>1. write' \in [Writers -> Write]
    BY <1>0, <1>5, NoWriteType DEF WriteFails
  <2> QED
    BY <1>0, <1>5, <2>1 DEF WriteFails, LedgerTypeOK
<1>6. ASSUME NEW t \in Entries, RemoveEntry(t) PROVE LedgerTypeOK'
  <2>1. [entry[t] EXCEPT !.live = FALSE] \in Row
    BY <1>0, NoRowIsRow
  <2>2. entry' \in [Entries -> Row]
    BY <1>0, <1>6, <2>1 DEF RemoveEntry
  <2> QED
    BY <1>0, <1>6, <2>2 DEF RemoveEntry, LedgerTypeOK
<1>7. ASSUME NEW c \in categories, RemoveCategory(c) PROVE LedgerTypeOK'
  BY <1>7 DEF RemoveCategory, LedgerTypeOK
<1>8. ASSUME NEW m \in members, RemoveMember(m) PROVE LedgerTypeOK'
  BY <1>8 DEF RemoveMember, LedgerTypeOK
<1>9. CASE UNCHANGED ledgerVars
  BY <1>9 DEF ledgerVars, LedgerTypeOK
<1> QED
  BY <1>1, <1>2, <1>3, <1>4, <1>5, <1>6, <1>7, <1>8, <1>9 DEF LedgerNext

(* The state of the household's transactions is well typed: above all,     *)
(* what is saved is a row with a date, a category and a member or nobody.  *)
THEOREM LedgerIsTyped == LedgerSpec => []LedgerTypeOK
  BY LedgerStarts, LedgerGoesOn, PTL DEF LedgerSpec

(* Every page shows the same sums: the summary, the days, the members, the *)
(* categories, the report, the trend, the list and the comparison of two   *)
(* months (DashboardService, ReportService, TransactionService).           *)
THEOREM PagesShowTheSameSums == LedgerSpec => []SumsAgree
  BY LedgerIsTyped, SumsOfTyped, PTL

(***************************************************************************)
(* Listing: a list that is read page by page while rows come and go, for   *)
(* any rows, values of the columns, sizes of a page and numbers of         *)
(* changes.                                                                *)
(***************************************************************************)

(* A reader, and how many rows of a list its pages have covered.           *)
Reader ==
  [at : {"idle", "page", "count", "done"}, list : Lists, sort : {"id", "key"}, tenant : BOOLEAN,
   limit : Nat \ {0}, page : Nat \ {0}, pages : Nat, cursor : Ids \cup {NoRecord},
   seen : [Ids -> Nat]]
Stirred ==
  [inserted : BOOLEAN, removed : SUBSET Ids, moved : BOOLEAN, rows : SUBSET Ids]
Records == [Ids -> Record \cup {NoRecord}]
Here == Shown(reader.list, reader.tenant)
Place(list, sort, S, i) == Cardinality({j \in S : Before(list, sort, j, i)})
PlaceOf(i) == Place(reader.list, reader.sort, Here, i)
Covered == Skip(IF reader.at = "page" THEN reader.page ELSE reader.page + 1, reader.limit)

(* Records that were there stay, if none is removed or changed; one that has  *)
(* been shown is there, or was removed.                                    *)
RowsInv ==
  /\ reader.at # "idle" /\ stirred.removed = {} /\ ~stirred.moved => stirred.rows \subseteq Here
  /\ \A i \in Ids : reader.seen[i] > 0 => Exists(i) \/ i \in stirred.removed

(* With a total order a row that has not been shown yet has its place      *)
(* behind the pages read, if none is removed, and one that has been shown  *)
(* before their end, if none is inserted.                                  *)
PagesInv ==
  reader.at # "idle" /\ reader.list # History /\ IsTotal(reader.list, reader.sort)
      /\ ~stirred.moved =>
    /\ stirred.removed = {} => \A i \in stirred.rows :
         \/ reader.seen[i] >= 1
         \/ reader.at # "done" /\ PlaceOf(i) >= Covered
    /\ ~stirred.inserted => \A i \in Ids :
         /\ reader.seen[i] <= 1
         /\ reader.seen[i] = 1 /\ i \in Here => PlaceOf(i) < Covered

MineInv ==
  reader.tenant /\ reader.list.who # "all" /\ ~stirred.moved =>
    \A i \in Ids : reader.seen[i] > 0 /\ Exists(i) => record[i].mine

(* The history: what has been shown is not older than where the last page  *)
(* ended, and what was there and is not older is shown or hidden by one    *)
(* of its millisecond.                                                     *)
ShownFor(i) == \E j \in Ids : reader.seen[j] = 1 /\ Exists(j) /\ Ms(record[j].key) = Ms(record[i].key)
HistoryInv ==
  reader.at # "idle" /\ reader.list = History =>
    /\ reader.at \in {"page", "done"}
    /\ stirred.rows \subseteq Shown(History, TRUE)
    /\ \A i \in Ids : reader.seen[i] <= 1 /\ (reader.seen[i] = 1 => Exists(i))
    /\ reader.at = "page" /\ reader.cursor = NoRecord => \A i \in Ids : reader.seen[i] = 0
    /\ reader.at = "page" /\ reader.cursor # NoRecord =>
         /\ Exists(reader.cursor)
         /\ \A i \in Ids : reader.seen[i] = 1 => record[i].key >= Ms(record[reader.cursor].key)
         /\ \A i \in stirred.rows : record[i].key < Ms(record[reader.cursor].key) \/ ShownFor(i)
    /\ reader.at = "done" => \A i \in stirred.rows : ShownFor(i)

ListingTyped ==
  record \in Records /\ reader \in Reader /\ changed \in 0..MaxChanges /\ stirred \in Stirred
ListingInv ==
  /\ ListingTyped
  /\ RowsInv /\ PagesInv /\ MineInv /\ HistoryInv

-----------------------------------------------------------------------------
(* Where a page ends, and how many pages there are.                        *)
LEMMA Product ==
  /\ \A p \in Nat, l \in Nat : p * l \in Nat
  /\ \A p \in Nat, l \in Nat : (p + 1) * l = p * l + l
  OBVIOUS

LEMMA PageEnds ==
  ASSUME NEW p \in Nat \ {0}, NEW l \in Nat \ {0}
  PROVE  /\ Skip(p, l) \in Nat /\ Skip(p + 1, l) \in Nat
         /\ Skip(p + 1, l) = Skip(p, l) + l
         /\ Skip(1, l) = 0
<1>1. p - 1 \in Nat /\ (p - 1) + 1 = p /\ (p + 1) - 1 = p /\ 1 - 1 = 0 /\ 0 * l = 0
  OBVIOUS
<1>2. (p - 1) * l \in Nat /\ p * l = (p - 1) * l + l
  BY <1>1, Product
<1> QED
  BY <1>1, <1>2 DEF Skip

LEMMA Divides == ASSUME NEW x \in Nat, NEW k \in Nat, NEW l \in Nat \ {0}, x >= k * l PROVE x \div l >= k
  OBVIOUS

LEMMA PagesAreEnough ==
  ASSUME NEW p \in Nat \ {0}, NEW l \in Nat \ {0}, NEW total \in Nat, total > Skip(p + 1, l)
  PROVE  TotalPages(total, l) > p
<1>1. Skip(p + 1, l) = p * l /\ p * l \in Nat /\ (p + 1) * l = p * l + l
  BY Product DEF Skip
<1>2. total + l - 1 \in Nat /\ total + l - 1 >= (p + 1) * l
  BY <1>1
<1>3. (total + l - 1) \div l >= p + 1
  BY <1>2, Divides
<1> QED
  BY <1>3, <1>2 DEF TotalPages

(* A date cut to milliseconds.                                             *)
LEMMA CutDate ==
  ASSUME NEW a \in Nat
  PROVE  Ms(a) <= a /\ Ms(a) \in Nat
  BY ListingAssumption DEF Ms

LEMMA SameQuotient ==
  ASSUME NEW T \in Nat \ {0}, NEW a \in Nat, NEW b \in Nat, a - (a % T) <= b, b <= a
  PROVE  a - (a % T) = b - (b % T)
<1>1. a \div T = b \div T
  OBVIOUS
<1> QED
  BY <1>1

(* Two dates of which one is not older than the other's millisecond.       *)
LEMMA SameMs ==
  ASSUME NEW a \in Nat, NEW b \in Nat, Ms(a) <= b, b <= a
  PROVE  Ms(a) = Ms(b)
  BY SameQuotient, ListingAssumption DEF Ms

-----------------------------------------------------------------------------
(* The rows of a list, their order and their places.                       *)
LEMMA RowsListed ==
  ASSUME record \in Records, NEW list \in Lists, NEW tenant \in BOOLEAN
  PROVE  /\ Shown(list, tenant) \in SUBSET Ids
         /\ IsFiniteSet(Shown(list, tenant))
         /\ \A i \in Shown(list, tenant) : Exists(i)
<1>1. Shown(list, tenant) \in SUBSET Ids /\ \A i \in Shown(list, tenant) : Exists(i)
  BY DEF Shown
<1> QED
  BY <1>1, FS_Subset, ListingAssumption

LEMMA KeyType ==
  ASSUME record \in Records, NEW i \in Ids, Exists(i)
  PROVE  i \in Nat /\ record[i] \in Record /\ record[i].key \in Nat
  BY ListingAssumption DEF Records, Record, Exists

LEMMA TotalOrder ==
  ASSUME record \in Records, NEW list, NEW sort, IsTotal(list, sort),
         NEW i \in Ids, NEW j \in Ids, Exists(i), Exists(j)
  PROVE  /\ ~(Before(list, sort, i, j) /\ Before(list, sort, j, i))
         /\ ~Before(list, sort, i, i)
         /\ i # j => Before(list, sort, i, j) \/ Before(list, sort, j, i)
<1>1. i \in Nat /\ j \in Nat /\ record[i].key \in Nat /\ record[j].key \in Nat
  BY KeyType
<1> QED
  BY <1>1 DEF Before, IsTotal

(* As many rows as there are, no two the same: they are all there.         *)
LEMMA SortedIsAll ==
  ASSUME NEW list, NEW sort, NEW S, IsFiniteSet(S), NEW f \in Sorted(list, sort, S)
  PROVE  /\ Cardinality(S) \in Nat /\ f \in [1..Cardinality(S) -> S]
         /\ \A m, n \in 1..Cardinality(S) : f[m] = f[n] => m = n
         /\ \A i \in S : \E n \in 1..Cardinality(S) : f[n] = i
<1>0. PICK N \in Nat : N = Cardinality(S)
  BY FS_CardinalityType
<1>1. f \in [1..N -> S] /\ \A m, n \in 1..N : m < n => f[m] # f[n]
  BY <1>0 DEF Sorted
<1>2. ASSUME NEW m \in 1..N, NEW n \in 1..N, f[m] = f[n] PROVE m = n
  <2>1. m < n \/ n < m \/ m = n
    OBVIOUS
  <2> QED
    BY <1>1, <1>2, <2>1
<1>3. f \in Injection(1..N, S)
  BY <1>1, <1>2, Fun_IsInj
<1>4. IsFiniteSet(1..N) /\ Cardinality(1..N) = N
  <2>1. IsFiniteSet(1..N) /\ Cardinality(1..N) = IF 1 > N THEN 0 ELSE N - 1 + 1
    BY FS_Interval
  <2> QED
    BY <2>1
<1>5. f \in Surjection(1..N, S)
  BY <1>3, <1>4, <1>0, FS_Injection
<1>6. \A i \in S : \E n \in 1..N : f[n] = i
  BY <1>5, Fun_SurjectionProperties
<1> QED
  BY <1>0, <1>1, <1>2, <1>6

LEMMA UpTo ==
  ASSUME NEW n \in Nat, NEW T, NEW f \in [1..n -> T],
         \A k, m \in 1..n : f[k] = f[m] => k = m,
         \A t \in T : \E m \in 1..n : f[m] = t
  PROVE  IsFiniteSet(T) /\ Cardinality(T) = n
<1>1. f \in Bijection(1..n, T)
  BY Fun_IsBij
<1>2. ExistsBijection(1..n, T)
  BY <1>1, Fun_ExistsBij
<1>3. IsFiniteSet(1..n) /\ Cardinality(1..n) = IF 1 > n THEN 0 ELSE n - 1 + 1
  BY FS_Interval
<1>4. IsFiniteSet(T) /\ Cardinality(T) = Cardinality(1..n)
  BY <1>2, <1>3, FS_Bijection
<1> QED
  BY <1>3, <1>4

LEMMA SortedPlaces ==
  ASSUME record \in Records, NEW list, NEW sort, IsTotal(list, sort), NEW S \in SUBSET Ids,
         IsFiniteSet(S), \A i \in S : Exists(i), NEW f \in Sorted(list, sort, S),
         NEW n \in 1..Cardinality(S)
  PROVE  Place(list, sort, S, f[n]) = n - 1
<1>0. PICK N \in Nat : N = Cardinality(S)
  BY FS_CardinalityType
<1>1. /\ f \in [1..N -> S]
      /\ \A k, m \in 1..N : f[k] = f[m] => k = m
      /\ \A i \in S : \E m \in 1..N : f[m] = i
  BY <1>0, SortedIsAll
<1>2. n \in 1..N /\ n - 1 \in Nat
  BY <1>0
<1>3. ASSUME NEW k \in 1..N, NEW m \in 1..N, k < m PROVE Before(list, sort, f[k], f[m])
  <2>1. ~Before(list, sort, f[m], f[k]) /\ f[k] # f[m]
    BY <1>0, <1>3 DEF Sorted
  <2>2. f[k] \in Ids /\ f[m] \in Ids /\ Exists(f[k]) /\ Exists(f[m])
    BY <1>1
  <2> QED
    BY <2>1, <2>2, TotalOrder
<1>4. PICK T : T = {j \in S : Before(list, sort, j, f[n])}
  OBVIOUS
<1>5. PICK g : g = [m \in 1..(n - 1) |-> f[m]]
  OBVIOUS
<1>6. ASSUME NEW m \in 1..(n - 1) PROVE m \in 1..N /\ g[m] = f[m] /\ f[m] \in T
  <2>1. m \in 1..N /\ m < n
    BY <1>2
  <2> QED
    BY <2>1, <1>1, <1>2, <1>3, <1>4, <1>5
<1>7. g \in [1..(n - 1) -> T]
  BY <1>5, <1>6
<1>8. \A k, m \in 1..(n - 1) : g[k] = g[m] => k = m
  BY <1>1, <1>6
<1>9. ASSUME NEW t \in T PROVE \E m \in 1..(n - 1) : g[m] = t
  <2>1. t \in S /\ Before(list, sort, t, f[n])
    BY <1>4
  <2>2. PICK m \in 1..N : f[m] = t
    BY <2>1, <1>1
  <2>3. f[m] \in Ids /\ f[n] \in Ids /\ Exists(f[m]) /\ Exists(f[n])
    BY <1>1, <1>2
  <2>4. m # n
    BY <2>1, <2>2, <2>3, TotalOrder
  <2>5. ~(n < m)
    BY <2>1, <2>2, <2>3, <1>2, <1>3, TotalOrder
  <2>6. m \in 1..(n - 1)
    BY <2>4, <2>5, <1>2
  <2> QED
    BY <2>6, <2>2, <1>6
<1>10. Cardinality(T) = n - 1
  BY <1>2, <1>7, <1>8, <1>9, UpTo
<1> QED
  BY <1>4, <1>10 DEF Place

(* The rows on a page: those after from, limit of them at most.            *)
PageOf(f, from, limit) == {f[n] : n \in (from + 1)..(from + limit) \cap DOMAIN f}

LEMMA PageRows ==
  ASSUME record \in Records, NEW list, NEW sort, IsTotal(list, sort), NEW S \in SUBSET Ids,
         IsFiniteSet(S), \A i \in S : Exists(i), NEW f \in Sorted(list, sort, S),
         NEW from \in Nat, NEW limit \in Nat, NEW i
  PROVE  i \in PageOf(f, from, limit) <=>
           i \in S /\ from <= Place(list, sort, S, i) /\ Place(list, sort, S, i) < from + limit
<1>0. PICK N \in Nat : N = Cardinality(S)
  BY FS_CardinalityType
<1>1. /\ f \in [1..N -> S] /\ DOMAIN f = 1..N
      /\ \A m \in 1..N : Place(list, sort, S, f[m]) = m - 1
      /\ \A j \in S : \E m \in 1..N : f[m] = j
  <2>1. f \in [1..N -> S] /\ \A j \in S : \E m \in 1..N : f[m] = j
    BY <1>0, SortedIsAll
  <2>2. \A m \in 1..N : Place(list, sort, S, f[m]) = m - 1
    BY <1>0, SortedPlaces
  <2> QED
    BY <2>1, <2>2
<1>2. ASSUME NEW n \in (from + 1)..(from + limit) \cap DOMAIN f, i = f[n]
      PROVE  i \in S /\ from <= Place(list, sort, S, i) /\ Place(list, sort, S, i) < from + limit
  <2>1. n \in 1..N /\ n \in (from + 1)..(from + limit)
    BY <1>1
  <2>2. i \in S /\ Place(list, sort, S, i) = n - 1
    BY <1>1, <1>2, <2>1
  <2> QED
    BY <2>1, <2>2
<1>3. ASSUME i \in S, from <= Place(list, sort, S, i), Place(list, sort, S, i) < from + limit
      PROVE  \E n \in (from + 1)..(from + limit) \cap DOMAIN f : i = f[n]
  <2>1. PICK n \in 1..N : f[n] = i
    BY <1>1, <1>3
  <2>2. Place(list, sort, S, i) = n - 1
    BY <1>1, <2>1
  <2>3. n \in (from + 1)..(from + limit)
    BY <2>2, <1>3
  <2> QED
    BY <2>1, <2>3, <1>1
<1> QED
  BY <1>2, <1>3 DEF PageOf

LEMMA PlaceNat ==
  ASSUME NEW list, NEW sort, NEW S, IsFiniteSet(S), NEW i
  PROVE  Place(list, sort, S, i) \in Nat
<1>1. PICK T \in SUBSET S : T = {j \in S : Before(list, sort, j, i)}
  OBVIOUS
<1>2. IsFiniteSet(T)
  BY FS_Subset
<1> QED
  BY <1>1, <1>2, FS_CardinalityType DEF Place

LEMMA PlaceBound ==
  ASSUME record \in Records, NEW list, NEW sort, IsTotal(list, sort), NEW S \in SUBSET Ids,
         IsFiniteSet(S), NEW i \in S, Exists(i)
  PROVE  /\ Place(list, sort, S, i) \in Nat /\ Cardinality(S) \in Nat
         /\ Place(list, sort, S, i) < Cardinality(S)
<1>1. PICK T \in SUBSET S : T = {j \in S : Before(list, sort, j, i)}
  OBVIOUS
<1>2. i \notin T
  BY <1>1, TotalOrder
<1>3. IsFiniteSet(T) /\ Cardinality(T) <= Cardinality(S) /\ Cardinality(S) # Cardinality(T)
  BY <1>2, FS_Subset
<1>4. Cardinality(T) \in Nat /\ Cardinality(S) \in Nat
  BY <1>3, FS_CardinalityType
<1>5. Cardinality(T) < Cardinality(S)
  BY <1>3, <1>4
<1> QED
  BY <1>1, <1>4, <1>5 DEF Place

-----------------------------------------------------------------------------
(* The steps.                                                              *)
LEMMA ReaderType ==
  ASSUME ListingTyped
  PROVE  /\ reader.at \in {"idle", "page", "count", "done"} /\ reader.list \in Lists
         /\ reader.sort \in {"id", "key"} /\ reader.tenant \in BOOLEAN
         /\ reader.limit \in Nat \ {0} /\ reader.page \in Nat \ {0}
         /\ reader.cursor \in Ids \cup {NoRecord} /\ reader.seen \in [Ids -> Nat]
         /\ stirred.rows \in SUBSET Ids /\ stirred.removed \in SUBSET Ids
  BY DEF ListingTyped, Reader, Stirred

LEMMA HereListed ==
  ASSUME ListingTyped
  PROVE  /\ record \in Records /\ Here \in SUBSET Ids /\ IsFiniteSet(Here)
         /\ \A i \in Here : Exists(i)
<1>1. record \in Records /\ reader.list \in Lists /\ reader.tenant \in BOOLEAN
  BY ReaderType DEF ListingTyped
<1> QED
  BY <1>1, RowsListed DEF Here

LEMMA ListingStarts == ListingInit => ListingInv
<1> SUFFICES ASSUME ListingInit PROVE ListingInv
  OBVIOUS
<1> USE DEF ListingInit
<1>1. reader.at = "idle" /\ reader.seen = [i \in Ids |-> 0]
  BY DEF NoReader
<1>2. reader \in Reader
  <2>1. UsersList \in Lists /\ 1 \in Nat \ {0} /\ [i \in Ids |-> 0] \in [Ids -> Nat]
    BY DEF Lists
  <2> QED
    BY <2>1 DEF NoReader, Reader
<1>3. ListingTyped
  <2>1. changed \in 0..MaxChanges
    BY ListingAssumption
  <2>2. stirred \in Stirred
    BY DEF Unstirred, Stirred
  <2> QED
    BY <1>2, <2>1, <2>2 DEF ListingTyped, Records
<1>4. \A i \in Ids : ~(reader.seen[i] > 0)
  BY <1>1
<1>5. RowsInv /\ MineInv
  BY <1>1, <1>4 DEF RowsInv, MineInv
<1>6. PagesInv /\ HistoryInv
  BY <1>1 DEF PagesInv, HistoryInv
<1> QED
  BY <1>3, <1>5, <1>6 DEF ListingInv

LEMMA OpenListKeeps ==
  ASSUME ListingInv, NEW list \in Lists, NEW sort \in {"id", "key"}, NEW tenant \in BOOLEAN,
         NEW limit \in Limits, OpenList(list, sort, tenant, limit)
  PROVE  ListingInv'
<1>1. /\ reader' = [at |-> "page", list |-> list, sort |-> sort, tenant |-> tenant,
                    limit |-> limit, page |-> 1, pages |-> 0, cursor |-> NoRecord,
                    seen |-> [i \in Ids |-> 0]]
      /\ record' = record /\ changed' = changed
      /\ stirred' = [inserted |-> FALSE, removed |-> {}, moved |-> FALSE,
                     rows |-> Shown(list, tenant)]
  BY DEF OpenList, NoReader, Unstirred
<1>2. /\ reader'.at = "page" /\ reader'.list = list /\ reader'.sort = sort
      /\ reader'.tenant = tenant /\ reader'.limit = limit /\ reader'.page = 1
      /\ reader'.cursor = NoRecord
      /\ \A i \in Ids : reader'.seen[i] = 0
  BY <1>1
<1>3. limit \in Nat \ {0}
  BY ListingAssumption
<1>4. Shown(list, tenant)' = Shown(list, tenant) /\ Shown(list, tenant) \in SUBSET Ids
  BY <1>1 DEF Shown, Exists
<1>5. ListingTyped'
  <2>1. reader' \in Reader
    <3>1. [i \in Ids |-> 0] \in [Ids -> Nat] /\ 1 \in Nat \ {0} /\ 0 \in Nat
      OBVIOUS
    <3> QED
      BY <3>1, <1>1, <1>3 DEF Reader
  <2>2. stirred' \in Stirred
    BY <1>1, <1>4 DEF Stirred
  <2>3. record' \in Records /\ changed' \in 0..MaxChanges
    BY <1>1 DEF ListingInv, ListingTyped, Records
  <2> QED
    BY <2>1, <2>2, <2>3 DEF ListingTyped, Records, Reader, Stirred, Record
<1>6. Here' = Shown(list, tenant) /\ stirred'.rows = Shown(list, tenant)
  BY <1>1, <1>2, <1>4 DEF Here
<1>7. \A i \in Ids : ~(reader'.seen[i] > 0) /\ reader'.seen[i] <= 1 /\ reader'.seen[i] # 1
  BY <1>2
<1>8. RowsInv' /\ MineInv'
  BY <1>6, <1>7 DEF RowsInv, MineInv
<1>9. PagesInv'
  <2> SUFFICES ASSUME IsTotal(list, sort)
               PROVE \A i \in stirred'.rows : PlaceOf(i)' >= Covered'
    BY <1>2, <1>7 DEF PagesInv, IsTotal
  <2> TAKE i \in stirred'.rows
  <2>1. Covered' = 0
    BY <1>2, <1>3, PageEnds DEF Covered, Skip
  <2>2. Place(list, sort, Shown(list, tenant), i) \in Nat
    BY RowsListed, PlaceNat DEF ListingInv, ListingTyped
  <2>3. PlaceOf(i)' = Place(list, sort, Shown(list, tenant), i)
    BY <1>1, <1>2, <1>6 DEF PlaceOf, Place, Before
  <2> QED
    BY <2>1, <2>2, <2>3
<1>10. HistoryInv'
  <2>1. list = History => tenant = TRUE
    BY DEF OpenList, History
  <2>2. list = History => stirred'.rows \subseteq Shown(History, TRUE)'
    BY <1>4, <1>6, <2>1
  <2> QED
    BY <1>2, <1>7, <2>2 DEF HistoryInv
<1> QED
  BY <1>5, <1>8, <1>9, <1>10 DEF ListingInv

(* A step of the reader leaves the rows where they are.                    *)
LEMMA RowsStay ==
  ASSUME UNCHANGED record, reader'.list = reader.list, reader'.sort = reader.sort,
         reader'.tenant = reader.tenant
  PROVE  /\ Here' = Here
         /\ \A i : PlaceOf(i)' = PlaceOf(i)
         /\ \A i : Exists(i)' <=> Exists(i)
         /\ Shown(History, TRUE)' = Shown(History, TRUE)
<1>1. /\ Here' = Here
      /\ \A i : Exists(i)' <=> Exists(i)
      /\ Shown(History, TRUE)' = Shown(History, TRUE)
  BY DEF Here, Shown, Exists
<1>2. \A i : PlaceOf(i)' = PlaceOf(i)
  BY <1>1 DEF PlaceOf, Place, Before
<1> QED
  BY <1>1, <1>2

LEMMA PageType ==
  ASSUME ListingTyped, NEW page
  PROVE  /\ SeenAlso(page) \in [Ids -> Nat]
         /\ \A i \in Ids : i \in page => SeenAlso(page)[i] = reader.seen[i] + 1
         /\ \A i \in Ids : i \notin page => SeenAlso(page)[i] = reader.seen[i]
  BY ReaderType DEF SeenAlso

LEMMA ReadPageKeeps == ASSUME ListingInv, ReadPage PROVE ListingInv'
<1>0. ListingTyped /\ reader \in Reader /\ reader.at = "page" /\ reader.list # History
  BY DEF ListingInv, ListingTyped, ReadPage
<1>1. PICK S : S = Here /\ S \in SUBSET Ids /\ IsFiniteSet(S) /\ \A i \in S : Exists(i)
  BY <1>0, HereListed
<1>2. PICK from \in Nat : from = Skip(reader.page, reader.limit)
  BY <1>0, ReaderType, PageEnds
<1>3. PICK limit \in Nat \ {0} : limit = reader.limit
  BY <1>0, ReaderType
<1>4. PICK f \in Sorted(reader.list, reader.sort, S) :
        reader' = [reader EXCEPT !.at = "count",
                     !.seen = SeenAlso({f[n] : n \in (from + 1)..(from + limit) \cap DOMAIN f})]
  BY <1>1, <1>2, <1>3 DEF ReadPage, Here
<1>5. PICK page : page = {f[n] : n \in (from + 1)..(from + limit) \cap DOMAIN f}
  OBVIOUS
<1>6. UNCHANGED <<record, changed, stirred>>
  BY DEF ReadPage
<1>7. /\ reader'.at = "count" /\ reader'.list = reader.list /\ reader'.sort = reader.sort
      /\ reader'.tenant = reader.tenant /\ reader'.limit = reader.limit
      /\ reader'.page = reader.page /\ reader'.cursor = reader.cursor
      /\ reader'.seen = SeenAlso(page) /\ reader' \in Reader
  <2>1. reader' = [reader EXCEPT !.at = "count", !.seen = SeenAlso(page)]
    BY <1>4, <1>5
  <2>2. SeenAlso(page) \in [Ids -> Nat]
    BY <1>0, PageType
  <2> QED
    BY <2>1, <2>2, <1>0 DEF Reader
<1>8. /\ Here' = Here /\ (\A i : PlaceOf(i)' = PlaceOf(i)) /\ \A i : Exists(i)' <=> Exists(i)
  BY <1>6, <1>7, RowsStay
<1>9. \A i \in Ids : /\ reader.seen[i] \in Nat /\ reader'.seen[i] \in Nat
                     /\ i \in page => reader'.seen[i] = reader.seen[i] + 1
                     /\ i \notin page => reader'.seen[i] = reader.seen[i]
  BY <1>0, <1>7, PageType, ReaderType
<1>10. page \subseteq S
  <2>1. f \in [1..Cardinality(S) -> S]
    BY DEF Sorted
  <2> QED
    BY <2>1, <1>5
<1>11. ListingTyped'
  BY <1>0, <1>6, <1>7 DEF ListingTyped, Records, Reader, Stirred, Record
<1>12. RowsInv'
  <2>1. \A i \in Ids : reader'.seen[i] > 0 => Exists(i)' \/ i \in stirred'.removed
    <3> TAKE i \in Ids
    <3>1. CASE i \in page
      BY <3>1, <1>1, <1>8, <1>10
    <3>2. CASE i \notin page
      BY <3>2, <1>6, <1>8, <1>9 DEF ListingInv, RowsInv
    <3> QED
      BY <3>1, <3>2
  <2>2. stirred.removed = {} /\ ~stirred.moved => stirred.rows \subseteq Here
    BY <1>0 DEF ListingInv, RowsInv
  <2> QED
    BY <2>1, <2>2, <1>6, <1>8 DEF RowsInv
<1>13. MineInv'
  <2> SUFFICES ASSUME reader.tenant, reader.list.who # "all", ~stirred.moved, NEW i \in Ids,
                      reader'.seen[i] > 0, Exists(i)
               PROVE  record[i].mine
    BY <1>6, <1>7, <1>8 DEF MineInv
  <2>1. CASE i \in page
    <3>1. i \in Shown(reader.list, reader.tenant)
      BY <2>1, <1>1, <1>10 DEF Here
    <3> QED
      BY <3>1 DEF Shown
  <2>2. CASE i \notin page
    BY <2>2, <1>9 DEF ListingInv, MineInv
  <2> QED
    BY <2>1, <2>2
<1>14. PagesInv'
  <2> SUFFICES ASSUME IsTotal(reader.list, reader.sort), ~stirred.moved
               PROVE  /\ stirred.removed = {} => \A i \in stirred.rows :
                           reader'.seen[i] >= 1 \/ PlaceOf(i) >= Covered'
                      /\ ~stirred.inserted => \A i \in Ids :
                           /\ reader'.seen[i] <= 1
                           /\ reader'.seen[i] = 1 /\ i \in Here => PlaceOf(i) < Covered'
    BY <1>6, <1>7, <1>8 DEF PagesInv, IsTotal
  <2>1. Covered = from /\ Covered' = from + limit /\ from + limit \in Nat
    <3>1. Covered = from
      BY <1>0, <1>2 DEF Covered
    <3>2. Covered' = Skip(reader.page + 1, reader.limit)
      BY <1>7 DEF Covered, Skip
    <3>3. Skip(reader.page + 1, reader.limit) = from + limit
      BY <1>0, <1>2, <1>3, ReaderType, PageEnds
    <3> QED
      BY <3>1, <3>2, <3>3
  <2>2. \A i : i \in page <=> i \in S /\ from <= PlaceOf(i) /\ PlaceOf(i) < from + limit
    <3>1. record \in Records
      BY <1>0 DEF ListingTyped
    <3>2. page = PageOf(f, from, limit)
      BY <1>5 DEF PageOf
    <3>3. limit \in Nat
      OBVIOUS
    <3>4. \A i : i \in page <=> /\ i \in S /\ from <= Place(reader.list, reader.sort, S, i)
                                /\ Place(reader.list, reader.sort, S, i) < from + limit
      BY <1>1, <3>1, <3>2, <3>3, PageRows
    <3> QED
      BY <3>4, <1>1 DEF PlaceOf
  <2>3. \A i : PlaceOf(i) \in Nat
    BY <1>1, PlaceNat DEF PlaceOf
  <2>4. /\ stirred.removed = {} => \A i \in stirred.rows :
             i \in Here /\ (reader.seen[i] >= 1 \/ PlaceOf(i) >= from)
        /\ ~stirred.inserted => \A i \in Ids :
             /\ reader.seen[i] <= 1
             /\ reader.seen[i] = 1 /\ i \in Here => PlaceOf(i) < from
    BY <1>0, <2>1 DEF ListingInv, PagesInv, RowsInv
  <2>5. ASSUME stirred.removed = {}, NEW i \in stirred.rows
        PROVE  reader'.seen[i] >= 1 \/ PlaceOf(i) >= from + limit
    <3>1. i \in Ids /\ i \in S /\ (reader.seen[i] >= 1 \/ PlaceOf(i) >= from)
      BY <1>1, <2>4, <2>5
    <3>2. i \in page \/ reader.seen[i] >= 1 \/ PlaceOf(i) >= from + limit
      BY <3>1, <2>2, <2>3
    <3> QED
      BY <3>1, <3>2, <1>9
  <2>6. ASSUME ~stirred.inserted, NEW i \in Ids
        PROVE  /\ reader'.seen[i] <= 1
               /\ reader'.seen[i] = 1 /\ i \in Here => PlaceOf(i) < from + limit
    <3>1. reader.seen[i] <= 1 /\ (reader.seen[i] = 1 /\ i \in Here => PlaceOf(i) < from)
      BY <2>4, <2>6
    <3>2. CASE i \in page
      <4>1. i \in Here /\ from <= PlaceOf(i) /\ PlaceOf(i) < from + limit
        BY <3>2, <2>2, <1>1
      <4>2. reader.seen[i] # 1
        BY <4>1, <3>1, <2>3
      <4> QED
        BY <4>1, <4>2, <3>1, <3>2, <1>9
    <3>3. CASE i \notin page
      <4>1. PlaceOf(i) < from => PlaceOf(i) < from + limit
        BY <2>3
      <4> QED
        BY <4>1, <3>1, <3>3, <1>9
    <3> QED
      BY <3>2, <3>3
  <2> QED
    BY <2>1, <2>5, <2>6
<1>15. HistoryInv'
  BY <1>0, <1>7 DEF HistoryInv
<1> QED
  BY <1>11, <1>12, <1>13, <1>14, <1>15 DEF ListingInv

LEMMA CountRowsKeeps == ASSUME ListingInv, CountRows PROVE ListingInv'
<1>0. ListingTyped /\ reader \in Reader /\ reader.at = "count" /\ reader.list # History
  BY DEF ListingInv, ListingTyped, CountRows, HistoryInv
<1>1. UNCHANGED <<record, changed, stirred>>
  BY DEF CountRows
<1>2. PICK pages : pages = TotalPages(Cardinality(Here), reader.limit)
  OBVIOUS
<1>3. reader' = IF reader.page >= pages THEN [reader EXCEPT !.at = "done", !.pages = pages]
                ELSE [reader EXCEPT !.at = "page", !.pages = pages, !.page = @ + 1]
  BY <1>2 DEF CountRows, Here
<1>4. PICK total \in Nat : total = Cardinality(Here)
  BY <1>0, HereListed, FS_CardinalityType
<1>5. PICK limit \in Nat \ {0} : limit = reader.limit
  BY <1>0, ReaderType
<1>6. PICK p \in Nat \ {0} : p = reader.page
  BY <1>0, ReaderType
<1>7. pages \in Nat
  BY <1>2, <1>4, <1>5 DEF TotalPages
<1>8. /\ reader'.list = reader.list /\ reader'.sort = reader.sort
      /\ reader'.tenant = reader.tenant /\ reader'.limit = limit
      /\ reader'.seen = reader.seen
      /\ \/ reader'.at = "done" /\ reader'.page = p /\ p >= pages
         \/ reader'.at = "page" /\ reader'.page = p + 1
      /\ reader' \in Reader
  <2>1. CASE p >= pages
    BY <2>1, <1>0, <1>3, <1>5, <1>6, <1>7 DEF Reader
  <2>2. CASE ~(p >= pages)
    <3>1. reader' = [reader EXCEPT !.at = "page", !.pages = pages, !.page = p + 1]
      BY <2>2, <1>3, <1>6
    <3>2. p + 1 \in Nat \ {0}
      OBVIOUS
    <3>3. reader'.at = "page" /\ reader'.page = p + 1 /\ reader'.list = reader.list
          /\ reader'.sort = reader.sort /\ reader'.tenant = reader.tenant
          /\ reader'.limit = limit /\ reader'.seen = reader.seen
      BY <3>1, <1>0, <1>5 DEF Reader
    <3>4. reader' \in Reader
      BY <3>1, <3>2, <1>0, <1>7 DEF Reader
    <3> QED
      BY <3>3, <3>4
  <2> QED
    BY <2>1, <2>2
<1>9. /\ Here' = Here /\ (\A i : PlaceOf(i)' = PlaceOf(i)) /\ \A i : Exists(i)' <=> Exists(i)
  BY <1>1, <1>8, RowsStay
<1>10. ListingTyped'
  BY <1>0, <1>1, <1>8 DEF ListingTyped, Records, Reader, Stirred, Record
<1>11. RowsInv'
  BY <1>0, <1>1, <1>8, <1>9 DEF ListingInv, RowsInv
<1>12. MineInv'
  BY <1>1, <1>8, <1>9 DEF ListingInv, MineInv
<1>13. PagesInv'
  <2> SUFFICES ASSUME IsTotal(reader.list, reader.sort), ~stirred.moved
               PROVE  /\ stirred.removed = {} => \A i \in stirred.rows :
                           \/ reader.seen[i] >= 1
                           \/ reader'.at # "done" /\ PlaceOf(i) >= Covered'
                      /\ ~stirred.inserted => \A i \in Ids :
                           /\ reader.seen[i] <= 1
                           /\ reader.seen[i] = 1 /\ i \in Here => PlaceOf(i) < Covered'
    BY <1>1, <1>8, <1>9 DEF PagesInv, IsTotal
  <2>1. Covered = Skip(p + 1, limit) /\ Covered' = Skip(p + 1, limit)
    BY <1>0, <1>5, <1>6, <1>8 DEF Covered, Skip
  <2>2. /\ stirred.removed = {} => \A i \in stirred.rows :
             i \in Here /\ (reader.seen[i] >= 1 \/ PlaceOf(i) >= Skip(p + 1, limit))
        /\ ~stirred.inserted => \A i \in Ids :
             /\ reader.seen[i] <= 1
             /\ reader.seen[i] = 1 /\ i \in Here => PlaceOf(i) < Skip(p + 1, limit)
    BY <1>0, <2>1 DEF ListingInv, PagesInv, RowsInv
  <2>3. ASSUME NEW i \in Here, PlaceOf(i) >= Skip(p + 1, limit) PROVE reader'.at # "done"
    <3>1. PlaceOf(i) \in Nat /\ PlaceOf(i) < total
      <4>1. record \in Records /\ IsFiniteSet(Here) /\ Exists(i) /\ Here \in SUBSET Ids
        BY <1>0, HereListed
      <4> QED
        BY <4>1, <1>4, PlaceBound DEF PlaceOf
    <3>2. Skip(p + 1, limit) \in Nat
      BY PageEnds
    <3>3. total > Skip(p + 1, limit)
      BY <3>1, <3>2, <2>3
    <3>4. pages > p
      BY <3>3, <1>2, <1>4, <1>5, PagesAreEnough
    <3> QED
      BY <3>4, <1>7, <1>8
  <2> QED
    BY <2>1, <2>2, <2>3
<1>14. HistoryInv'
  BY <1>0, <1>8 DEF HistoryInv
<1> QED
  BY <1>10, <1>11, <1>12, <1>13, <1>14 DEF ListingInv

LEMMA OldersListed ==
  ASSUME ListingTyped
  PROVE  /\ OlderThan(reader.cursor) \in SUBSET Ids /\ IsFiniteSet(OlderThan(reader.cursor))
         /\ \A i \in OlderThan(reader.cursor) :
              /\ i \in Nat /\ Exists(i) /\ record[i].key \in Nat /\ record[i].mine
              /\ i \in Shown(History, TRUE)
<1>1. record \in Records
  BY DEF ListingTyped
<1>2. \A i \in OlderThan(reader.cursor) : i \in Ids /\ Exists(i) /\ i \in Shown(History, TRUE)
  BY DEF OlderThan, Shown
<1>3. \A i \in OlderThan(reader.cursor) : record[i].mine
  BY <1>2 DEF Shown, History
<1>4. \A i \in OlderThan(reader.cursor) : i \in Nat /\ record[i].key \in Nat
  BY <1>1, <1>2, KeyType
<1>5. OlderThan(reader.cursor) \in SUBSET Ids
  BY <1>2
<1> QED
  BY <1>2, <1>3, <1>4, <1>5, ListingAssumption, FS_Subset

LEMMA RankNat ==
  ASSUME NEW S, IsFiniteSet(S), NEW i
  PROVE  Cardinality({j \in S : record[j].key > record[i].key
                                \/ (record[j].key = record[i].key /\ j < i)}) \in Nat
<1>1. PICK A \in SUBSET S : A = {j \in S : record[j].key > record[i].key
                                           \/ (record[j].key = record[i].key /\ j < i)}
  OBVIOUS
<1> QED
  BY <1>1, FS_Subset, FS_CardinalityType

(* What is left out of a page is not newer than its last message.          *)
LEMMA LastIsOldest ==
  ASSUME ListingTyped, NEW S \in SUBSET Ids, IsFiniteSet(S),
         \A i \in S : i \in Nat /\ record[i].key \in Nat,
         NEW i \in S, NEW last \in S,
         Cardinality({j \in S : record[j].key > record[i].key
                                \/ (record[j].key = record[i].key /\ j < i)}) >= reader.limit,
         Cardinality({j \in S : record[j].key > record[last].key
                                \/ (record[j].key = record[last].key /\ j < last)}) < reader.limit
  PROVE  record[i].key <= record[last].key
<1> SUFFICES ASSUME record[i].key > record[last].key PROVE FALSE
  OBVIOUS
<1>1. PICK A \in SUBSET S : A = {j \in S : record[j].key > record[i].key
                                           \/ (record[j].key = record[i].key /\ j < i)}
  OBVIOUS
<1>2. PICK B \in SUBSET S : B = {j \in S : record[j].key > record[last].key
                                           \/ (record[j].key = record[last].key /\ j < last)}
  OBVIOUS
<1>3. A \subseteq B
  BY <1>1, <1>2
<1>4. IsFiniteSet(A) /\ IsFiniteSet(B)
  BY FS_Subset
<1>5. Cardinality(A) <= Cardinality(B) /\ Cardinality(A) \in Nat /\ Cardinality(B) \in Nat
  BY <1>3, <1>4, FS_Subset, FS_CardinalityType
<1>6. Cardinality(A) >= reader.limit /\ Cardinality(B) < reader.limit /\ reader.limit \in Nat
  BY <1>1, <1>2, ReaderType
<1> QED
  BY <1>5, <1>6

LEMMA ReadHistoryKeeps == ASSUME ListingInv, ReadHistory PROVE ListingInv'
<1> DEFINE newer(i, j) == record[i].key > record[j].key
                          \/ (record[i].key = record[j].key /\ i < j)
<1>0. ListingTyped /\ reader \in Reader /\ reader.at = "page" /\ reader.list = History
  BY DEF ListingInv, ListingTyped, ReadHistory
<1>1. PICK S : S = OlderThan(reader.cursor)
  OBVIOUS
<1>2. /\ S \in SUBSET Ids /\ IsFiniteSet(S)
      /\ \A i \in S : /\ i \in Nat /\ Exists(i) /\ record[i].key \in Nat /\ record[i].mine
                      /\ i \in Shown(History, TRUE)
  BY <1>0, <1>1, OldersListed
<1>3. PICK page : page = {i \in S : Cardinality({j \in S : newer(j, i)}) < reader.limit}
  OBVIOUS
<1>4. PICK last :
        /\ last \in IF S # page THEN {i \in page : \A j \in page \ {i} : newer(j, i)}
                    ELSE {NoRecord}
        /\ reader' = [reader EXCEPT !.at = IF S # page THEN "page" ELSE "done",
                                    !.cursor = last, !.seen = SeenAlso(page)]
  BY <1>1, <1>3 DEF ReadHistory
<1>5. UNCHANGED <<record, changed, stirred>>
  BY DEF ReadHistory
<1>6. page \subseteq S
  BY <1>3
<1>7. \/ /\ S # page /\ last \in page /\ reader'.at = "page"
         /\ \A j \in page \ {last} : newer(j, last)
      \/ S = page /\ last = NoRecord /\ reader'.at = "done"
  BY <1>0, <1>4 DEF Reader
<1>8. /\ reader'.list = History /\ reader'.sort = reader.sort /\ reader'.tenant = reader.tenant
      /\ reader'.cursor = last /\ reader'.seen = SeenAlso(page) /\ reader' \in Reader
  <2>1. SeenAlso(page) \in [Ids -> Nat] /\ last \in Ids \cup {NoRecord}
    BY <1>0, <1>2, <1>6, <1>7, PageType
  <2>2. reader'.list = reader.list /\ reader'.sort = reader.sort
        /\ reader'.tenant = reader.tenant /\ reader'.cursor = last
        /\ reader'.seen = SeenAlso(page)
    BY <1>0, <1>4 DEF Reader
  <2>3. reader' \in Reader
    BY <2>1, <1>0, <1>4 DEF Reader
  <2> QED
    BY <2>2, <2>3, <1>0
<1>9. /\ Here' = Here /\ \A i : Exists(i)' <=> Exists(i)
      /\ Shown(History, TRUE)' = Shown(History, TRUE)
  BY <1>0, <1>5, <1>8, RowsStay
<1>10. \A i \in Ids : /\ reader.seen[i] \in Nat /\ reader'.seen[i] \in Nat
                      /\ i \in page => reader'.seen[i] = reader.seen[i] + 1
                      /\ i \notin page => reader'.seen[i] = reader.seen[i]
  BY <1>0, <1>8, PageType, ReaderType
<1>11. ListingTyped'
  BY <1>0, <1>5, <1>8 DEF ListingTyped, Records, Reader, Stirred, Record
<1>12. RowsInv'
  <2>1. \A i \in Ids : reader'.seen[i] > 0 => Exists(i)' \/ i \in stirred'.removed
    <3> TAKE i \in Ids
    <3>1. CASE i \in page
      BY <3>1, <1>2, <1>6, <1>9
    <3>2. CASE i \notin page
      BY <3>2, <1>5, <1>9, <1>10 DEF ListingInv, RowsInv
    <3> QED
      BY <3>1, <3>2
  <2>2. stirred.removed = {} /\ ~stirred.moved => stirred.rows \subseteq Here
    BY <1>0 DEF ListingInv, RowsInv
  <2> QED
    BY <2>1, <2>2, <1>5, <1>9 DEF RowsInv
<1>13. MineInv'
  <2> SUFFICES ASSUME reader.tenant, reader.list.who # "all", ~stirred.moved, NEW i \in Ids,
                      reader'.seen[i] > 0, Exists(i)
               PROVE  record[i].mine
    BY <1>0, <1>5, <1>8, <1>9 DEF MineInv
  <2>1. CASE i \in page
    BY <2>1, <1>2, <1>6
  <2>2. CASE i \notin page
    BY <2>2, <1>10 DEF ListingInv, MineInv
  <2> QED
    BY <2>1, <2>2
<1>14. PagesInv'
  BY <1>8 DEF PagesInv
<1>15. HistoryInv'
  <2>1. /\ stirred.rows \subseteq Shown(History, TRUE) /\ stirred.rows \subseteq Ids
        /\ \A i \in Ids : reader.seen[i] <= 1 /\ (reader.seen[i] = 1 => Exists(i))
        /\ reader.cursor = NoRecord => \A i \in Ids : reader.seen[i] = 0
        /\ reader.cursor # NoRecord =>
             /\ Exists(reader.cursor) /\ reader.cursor \in Ids
             /\ \A i \in Ids : reader.seen[i] = 1 => record[i].key >= Ms(record[reader.cursor].key)
             /\ \A i \in stirred.rows :
                  record[i].key < Ms(record[reader.cursor].key) \/ ShownFor(i)
    BY <1>0, ReaderType DEF ListingInv, HistoryInv
  <2>2. \A i \in Ids : Exists(i) => record[i].key \in Nat
    BY <1>0, KeyType DEF ListingTyped
  <2>3. reader.cursor # NoRecord => Ms(record[reader.cursor].key) \in Nat
    BY <2>1, <2>2, CutDate
  <2>4. ASSUME NEW i \in S PROVE reader.seen[i] = 0
    <3>1. CASE reader.cursor = NoRecord
      BY <3>1, <2>1, <1>2
    <3>2. CASE reader.cursor # NoRecord
      <4>1. record[i].key < Ms(record[reader.cursor].key) /\ i \in Ids /\ record[i].key \in Nat
        BY <3>2, <1>1, <1>2 DEF OlderThan
      <4>2. reader.seen[i] # 1
        BY <4>1, <3>2, <2>1, <2>3
      <4> QED
        BY <4>1, <4>2, <2>1, <1>10
    <3> QED
      BY <3>1, <3>2
  <2>5. ASSUME NEW i \in Ids
        PROVE  /\ reader'.seen[i] <= 1
               /\ reader'.seen[i] = 1 => Exists(i)
               /\ reader.seen[i] = 1 => reader'.seen[i] = 1
               /\ reader'.seen[i] = 1 => reader.seen[i] = 1 \/ i \in page
    <3>1. CASE i \in page
      <4>1. i \in S /\ Exists(i) /\ reader.seen[i] = 0
        BY <3>1, <2>4, <1>2, <1>6
      <4>2. reader'.seen[i] = 1
        BY <3>1, <4>1, <1>10
      <4> QED
        BY <3>1, <4>1, <4>2
    <3>2. CASE i \notin page
      BY <3>2, <2>1, <1>10
    <3> QED
      BY <3>1, <3>2
  <2>6. \A i \in page : reader'.seen[i] = 1
    BY <2>4, <1>2, <1>6, <1>10
  <2>7. ASSUME NEW i \in Ids, ShownFor(i) PROVE ShownFor(i)'
    BY <2>5, <2>7, <1>5, <1>9 DEF ShownFor
  <2>8. ASSUME NEW i \in stirred.rows, i \notin S PROVE ShownFor(i)'
    BY <2>8, <2>1, <2>7, <1>1 DEF OlderThan
  <2>9. ASSUME NEW i \in Ids, NEW j \in page, Ms(record[j].key) = Ms(record[i].key)
        PROVE  ShownFor(i)'
    BY <2>9, <2>6, <1>2, <1>5, <1>6, <1>9 DEF ShownFor
  <2>10. CASE S = page /\ last = NoRecord /\ reader'.at = "done"
    <3>1. \A i \in stirred.rows : ShownFor(i)'
      BY <2>1, <2>8, <2>9, <2>10
    <3> QED
      BY <3>1, <2>1, <2>5, <2>10, <1>5, <1>8, <1>9 DEF HistoryInv
  <2>11. CASE /\ S # page /\ last \in page /\ reader'.at = "page"
              /\ \A j \in page \ {last} : newer(j, last)
    <3>1. /\ last \in Ids /\ Exists(last) /\ record[last].key \in Nat /\ last \in S
          /\ Ms(record[last].key) <= record[last].key /\ Ms(record[last].key) \in Nat
      BY <2>11, <1>2, <1>6, CutDate
    <3>2. last # NoRecord
      BY <3>1, ListingAssumption
    <3>3. ASSUME NEW i \in Ids, reader'.seen[i] = 1
          PROVE  record[i].key >= Ms(record[last].key)
      <4>1. CASE i \in page
        <5>0. record[i].key \in Nat
          BY <4>1, <1>2, <1>6
        <5>1. record[i].key >= record[last].key
          <6>1. i = last \/ newer(i, last)
            BY <4>1, <2>11
          <6> QED
            BY <6>1, <5>0, <3>1
        <5> QED
          BY <5>0, <5>1, <3>1
      <4>2. CASE i \notin page
        <5>1. reader.seen[i] = 1 /\ Exists(i) /\ record[i].key \in Nat
          BY <4>2, <3>3, <2>2, <2>5
        <5>2. reader.cursor # NoRecord /\ record[i].key >= Ms(record[reader.cursor].key)
          BY <5>1, <2>1
        <5>3. record[last].key < Ms(record[reader.cursor].key)
          BY <5>2, <3>1, <1>1 DEF OlderThan
        <5> QED
          BY <5>1, <5>2, <5>3, <2>3, <3>1
      <4> QED
        BY <4>1, <4>2
    <3>4. ASSUME NEW i \in stirred.rows
          PROVE  record[i].key < Ms(record[last].key) \/ ShownFor(i)'
      <4>1. CASE i \notin S
        BY <4>1, <2>8
      <4>2. CASE i \in page
        BY <4>2, <2>1, <2>9
      <4>3. CASE i \in S \ page
        <5>1. Cardinality({j \in S : newer(j, i)}) \in Nat
              /\ reader.limit \in Nat
          BY <1>0, <1>2, ReaderType, RankNat
        <5>2. Cardinality({j \in S : newer(j, i)}) >= reader.limit
          BY <4>3, <5>1, <1>3
        <5>3. Cardinality({j \in S : newer(j, last)}) < reader.limit
          BY <2>11, <1>3
        <5>4. record[i].key <= record[last].key /\ record[i].key \in Nat
          BY <4>3, <5>2, <5>3, <3>1, <1>0, <1>2, LastIsOldest
        <5>5. CASE Ms(record[last].key) <= record[i].key
          BY <5>4, <5>5, <3>1, <2>1, <2>9, <2>11, SameMs
        <5> QED
          BY <5>4, <5>5, <3>1
      <4> QED
        BY <4>1, <4>2, <4>3
    <3> QED
      BY <3>1, <3>2, <3>3, <3>4, <2>1, <2>5, <2>11, <1>5, <1>8, <1>9 DEF HistoryInv
  <2> QED
    BY <2>10, <2>11, <1>7
<1> QED
  BY <1>11, <1>12, <1>13, <1>14, <1>15 DEF ListingInv

(* A row keeps its place, or moves back when rows are inserted and forward *)
(* when rows are removed.                                                  *)
LEMMA PlacesShift ==
  ASSUME ListingTyped, NEW i, NEW j \in Ids \ {i}, UNCHANGED reader,
         \A k \in Ids \ {i} : record'[k] = record[k]
  PROVE  /\ Here \subseteq Here' /\ i \notin Here => PlaceOf(j) <= PlaceOf(j)'
         /\ Here' \subseteq Here /\ i \notin Here' => PlaceOf(j)' <= PlaceOf(j)
<1>1. PICK P : P = {k \in Here : Before(reader.list, reader.sort, k, j)}
  OBVIOUS
<1>2. PICK Q : Q = {k \in Here' : Before(reader.list, reader.sort, k, j)'}
  OBVIOUS
<1>3. PlaceOf(j) = Cardinality(P) /\ PlaceOf(j)' = Cardinality(Q)
  BY <1>1, <1>2 DEF PlaceOf, Place, Before
<1>4. IsFiniteSet(P) /\ IsFiniteSet(Q)
  <2>1. P \in SUBSET Ids /\ Q \in SUBSET Ids
    BY <1>1, <1>2 DEF Here, Shown
  <2> QED
    BY <2>1, FS_Subset, ListingAssumption
<1>5. \A k \in Ids \ {i} : Before(reader.list, reader.sort, k, j)'
                           <=> Before(reader.list, reader.sort, k, j)
  BY DEF Before
<1>6. Here \subseteq Ids /\ Here' \subseteq Ids
  BY DEF Here, Shown
<1>7. Here \subseteq Here' /\ i \notin Here => P \subseteq Q
  BY <1>1, <1>2, <1>5, <1>6
<1>8. Here' \subseteq Here /\ i \notin Here' => Q \subseteq P
  BY <1>1, <1>2, <1>5, <1>6
<1>9. P \subseteq Q => Cardinality(P) <= Cardinality(Q)
  BY <1>4, FS_Subset
<1>10. Q \subseteq P => Cardinality(Q) <= Cardinality(P)
  BY <1>4, FS_Subset
<1> QED
  BY <1>3, <1>7, <1>8, <1>9, <1>10

LEMMA ChangeRowKeeps ==
  ASSUME ListingInv, reader.at # "idle", NEW i \in Ids, NEW to \in Record \cup {NoRecord},
         ChangeRow(i, to)
  PROVE  ListingInv'
<1>0. /\ ListingTyped /\ reader' = reader /\ i \notin stirred.removed /\ to # record[i]
      /\ reader.list = History => record[i] = NoRecord
  BY DEF ListingInv, ChangeRow
<1>1. /\ record' \in Records /\ record'[i] = to
      /\ \A j \in Ids \ {i} : record'[j] = record[j] /\ (Exists(j)' <=> Exists(j))
  BY <1>0 DEF ListingTyped, Records, ChangeRow, Exists
<1>2. /\ stirred'.rows = stirred.rows
      /\ stirred'.inserted = (stirred.inserted \/ record[i] = NoRecord)
      /\ stirred'.removed = IF to = NoRecord THEN stirred.removed \cup {i} ELSE stirred.removed
      /\ stirred'.moved = (stirred.moved \/ (record[i] # NoRecord /\ to # NoRecord))
      /\ stirred' \in Stirred
  <2>1. stirred \in Stirred
    BY <1>0 DEF ListingTyped
  <2>2. /\ stirred'.rows = stirred.rows
        /\ stirred'.inserted = (stirred.inserted \/ record[i] = NoRecord)
        /\ stirred'.removed = IF to = NoRecord THEN stirred.removed \cup {i} ELSE stirred.removed
        /\ stirred'.moved = (stirred.moved \/ (record[i] # NoRecord /\ to # NoRecord))
    BY <2>1 DEF Stirred, ChangeRow
  <2>3. stirred'.removed \in SUBSET Ids
    BY <2>1, <2>2 DEF Stirred
  <2>4. stirred' = [inserted |-> stirred'.inserted, removed |-> stirred'.removed,
                    moved |-> stirred'.moved, rows |-> stirred'.rows]
    BY <2>1 DEF Stirred, ChangeRow
  <2>5. stirred'.inserted \in BOOLEAN /\ stirred'.moved \in BOOLEAN
    BY <2>2
  <2>6. stirred'.rows \in SUBSET Ids
    BY <2>1, <2>2 DEF Stirred
  <2> QED
    BY <2>2, <2>3, <2>4, <2>5, <2>6 DEF Stirred
<1>3. ListingTyped'
  <2>1. changed' \in 0..MaxChanges
    BY <1>0, ListingAssumption DEF ListingTyped, ChangeRow
  <2> QED
    BY <2>1, <1>0, <1>1, <1>2 DEF ListingTyped, Records, Reader, Stirred, Record
<1>4. /\ Here \in SUBSET Ids /\ Here' \in SUBSET Ids
      /\ \A j \in Ids \ {i} : j \in Here' <=> j \in Here
      /\ ~Exists(i) => i \notin Here
      /\ to = NoRecord => i \notin Here'
  BY <1>0, <1>1 DEF Here, Shown, Exists
<1>5. ~stirred'.moved => ~stirred.moved /\ (record[i] = NoRecord \/ to = NoRecord)
  BY <1>2
<1>6. stirred'.removed = {} => stirred.removed = {} /\ to # NoRecord
  BY <1>2
<1>7. ~stirred'.inserted => ~stirred.inserted /\ record[i] # NoRecord
  BY <1>2
<1>8. reader.seen \in [Ids -> Nat] /\ stirred.rows \subseteq Ids
  BY <1>0, ReaderType
<1>9. /\ stirred.removed = {} /\ ~stirred.moved => stirred.rows \subseteq Here
      /\ \A j \in Ids : reader.seen[j] > 0 => Exists(j) \/ j \in stirred.removed
  BY DEF ListingInv, RowsInv
<1>10. RowsInv'
  <2>1. stirred'.removed = {} /\ ~stirred'.moved => stirred.rows \subseteq Here'
    BY <1>4, <1>5, <1>6, <1>8, <1>9 DEF Exists
  <2>2. ASSUME NEW j \in Ids, reader.seen[j] > 0
        PROVE  Exists(j)' \/ j \in stirred'.removed
    <3>1. CASE j = i
      BY <3>1, <1>1, <1>2 DEF Exists
    <3>2. CASE j # i
      BY <2>2, <3>2, <1>1, <1>2, <1>9
    <3> QED
      BY <3>1, <3>2
  <2> QED
    BY <2>1, <2>2, <1>0, <1>2 DEF RowsInv
<1>11. MineInv'
  <2> SUFFICES ASSUME reader.tenant, reader.list.who # "all", ~stirred'.moved, NEW j \in Ids,
                      reader.seen[j] > 0, Exists(j)'
               PROVE  record'[j].mine
    BY <1>0 DEF MineInv
  <2>1. CASE j = i
    <3>1. Exists(i)
      BY <2>1, <1>0, <1>9
    <3> QED
      BY <2>1, <3>1, <1>1, <1>5 DEF Exists
  <2>2. CASE j # i
    BY <2>2, <1>1, <1>5 DEF ListingInv, MineInv
  <2> QED
    BY <2>1, <2>2
<1>12. PagesInv'
  <2> SUFFICES ASSUME reader.list # History, IsTotal(reader.list, reader.sort), ~stirred'.moved
               PROVE  /\ stirred'.removed = {} => \A j \in stirred.rows :
                           reader.seen[j] >= 1
                           \/ (reader.at # "done" /\ PlaceOf(j)' >= Covered)
                      /\ ~stirred'.inserted => \A j \in Ids :
                           /\ reader.seen[j] <= 1
                           /\ reader.seen[j] = 1 /\ j \in Here' => PlaceOf(j)' < Covered
    BY <1>0, <1>2 DEF PagesInv, IsTotal, Covered, Skip
  <2>0. /\ stirred.removed = {} => \A j \in stirred.rows :
             reader.seen[j] >= 1 \/ (reader.at # "done" /\ PlaceOf(j) >= Covered)
        /\ ~stirred.inserted => \A j \in Ids :
             /\ reader.seen[j] <= 1
             /\ reader.seen[j] = 1 /\ j \in Here => PlaceOf(j) < Covered
    <3>1. PagesInv /\ ~stirred.moved
      BY <1>5 DEF ListingInv
    <3> QED
      BY <3>1 DEF PagesInv
  <2>1. Covered \in Nat
    BY <1>0, ReaderType, PageEnds DEF Covered
  <2>2. \A j \in Ids : PlaceOf(j) \in Nat /\ PlaceOf(j)' \in Nat
    <3>1. IsFiniteSet(Here) /\ IsFiniteSet(Here')
      BY <1>4, FS_Subset, ListingAssumption
    <3>2. \A j \in Ids : PlaceOf(j) \in Nat
      BY <3>1, PlaceNat DEF PlaceOf
    <3>3. ASSUME NEW j \in Ids PROVE PlaceOf(j)' \in Nat
      <4>1. PICK Q \in SUBSET Here' : Q = {k \in Here' : Before(reader.list, reader.sort, k, j)'}
        OBVIOUS
      <4>2. PlaceOf(j)' = Cardinality(Q)
        BY <4>1, <1>0 DEF PlaceOf, Place, Before
      <4> QED
        BY <4>1, <4>2, <3>1, FS_Subset, FS_CardinalityType
    <3> QED
      BY <3>2, <3>3
  <2>3. ASSUME stirred'.removed = {}, NEW j \in stirred.rows
        PROVE  reader.seen[j] >= 1 \/ (reader.at # "done" /\ PlaceOf(j)' >= Covered)
    <3>1. stirred.removed = {} /\ record[i] = NoRecord /\ i \notin Here
      BY <2>3, <1>4, <1>5, <1>6 DEF Exists
    <3>2. j \in Ids /\ j # i
      BY <3>1, <1>5, <1>8, <1>9
    <3>3. Here \subseteq Here'
      BY <3>1, <1>4
    <3>4. PlaceOf(j) <= PlaceOf(j)'
      BY <3>1, <3>2, <3>3, <1>0, <1>1, PlacesShift
    <3>5. PlaceOf(j) >= Covered => PlaceOf(j)' >= Covered
      BY <3>2, <3>4, <2>1, <2>2
    <3> QED
      BY <3>1, <3>5, <2>0
  <2>4. ASSUME ~stirred'.inserted, NEW j \in Ids
        PROVE  /\ reader.seen[j] <= 1
               /\ reader.seen[j] = 1 /\ j \in Here' => PlaceOf(j)' < Covered
    <3>1. ~stirred.inserted /\ to = NoRecord /\ i \notin Here'
      BY <2>4, <1>4, <1>5, <1>7
    <3>2. reader.seen[j] <= 1 /\ (reader.seen[j] = 1 /\ j \in Here => PlaceOf(j) < Covered)
      BY <3>1, <2>0
    <3>3. ASSUME reader.seen[j] = 1, j \in Here' PROVE PlaceOf(j)' < Covered
      <4>1. j # i /\ j \in Here /\ Here' \subseteq Here
        BY <3>1, <3>3, <1>4
      <4>2. PlaceOf(j)' <= PlaceOf(j)
        BY <4>1, <3>1, <1>0, <1>1, PlacesShift
      <4> QED
        BY <4>1, <4>2, <3>2, <3>3, <2>1, <2>2
    <3> QED
      BY <3>2, <3>3
  <2> QED
    BY <2>3, <2>4
<1>13. HistoryInv'
  <2> SUFFICES ASSUME reader.list = History PROVE HistoryInv'
    BY <1>0 DEF HistoryInv
  <2>1. /\ reader.at \in {"page", "done"}
        /\ stirred.rows \subseteq Shown(History, TRUE)
        /\ \A j \in Ids : reader.seen[j] <= 1 /\ (reader.seen[j] = 1 => Exists(j))
        /\ reader.at = "page" /\ reader.cursor = NoRecord => \A j \in Ids : reader.seen[j] = 0
        /\ reader.at = "page" /\ reader.cursor # NoRecord =>
             /\ Exists(reader.cursor)
             /\ \A j \in Ids : reader.seen[j] = 1 => record[j].key >= Ms(record[reader.cursor].key)
             /\ \A j \in stirred.rows :
                  record[j].key < Ms(record[reader.cursor].key) \/ ShownFor(j)
        /\ reader.at = "done" => \A j \in stirred.rows : ShownFor(j)
    BY DEF ListingInv, HistoryInv
  <2>2. ~Exists(i) /\ reader.cursor \in Ids \cup {NoRecord}
    BY <1>0, ReaderType DEF Exists
  <2>3. \A j \in stirred.rows : j \in Ids /\ j # i
    BY <2>1, <2>2 DEF Shown
  <2>4. ASSUME NEW j \in Ids \ {i}, ShownFor(j) PROVE ShownFor(j)'
    <3>1. PICK k \in Ids : reader.seen[k] = 1 /\ Exists(k) /\ Ms(record[k].key) = Ms(record[j].key)
      BY <2>4 DEF ShownFor
    <3>2. k # i
      BY <3>1, <2>2
    <3> QED
      BY <3>1, <3>2, <1>0, <1>1 DEF ShownFor
  <2>5. stirred.rows \subseteq Shown(History, TRUE)'
    BY <2>1, <2>3, <1>1 DEF Shown
  <2>6. \A j \in Ids : reader.seen[j] <= 1 /\ (reader.seen[j] = 1 => j # i /\ Exists(j)')
    BY <2>1, <2>2, <1>1
  <2>7. ASSUME reader.at = "page", reader.cursor # NoRecord
        PROVE  /\ Exists(reader.cursor)' /\ record'[reader.cursor] = record[reader.cursor]
               /\ \A j \in Ids : reader.seen[j] = 1 =>
                    record'[j].key >= Ms(record'[reader.cursor].key)
               /\ \A j \in stirred.rows :
                    record'[j].key < Ms(record'[reader.cursor].key) \/ ShownFor(j)'
    <3>0. reader.cursor \in Ids /\ reader.cursor # i /\ Exists(reader.cursor)
      BY <2>1, <2>2, <2>7
    <3>1. reader.cursor \in Ids \ {i} /\ record'[reader.cursor] = record[reader.cursor]
          /\ Exists(reader.cursor)'
      BY <3>0, <1>0, <1>1 DEF Exists
    <3>2. \A j \in Ids : reader.seen[j] = 1 => record'[j].key >= Ms(record'[reader.cursor].key)
      BY <3>1, <2>1, <2>6, <2>7, <1>1
    <3>3. \A j \in stirred.rows :
            record'[j].key < Ms(record'[reader.cursor].key) \/ ShownFor(j)'
      BY <3>1, <2>1, <2>3, <2>4, <2>7, <1>1
    <3> QED
      BY <3>1, <3>2, <3>3
  <2>8. reader.at = "done" => \A j \in stirred.rows : ShownFor(j)'
    BY <2>1, <2>3, <2>4
  <2> QED
    BY <2>1, <2>5, <2>6, <2>7, <2>8, <1>0, <1>2 DEF HistoryInv
<1> QED
  BY <1>3, <1>10, <1>11, <1>12, <1>13 DEF ListingInv

LEMMA ListingGoesOn == ListingInv /\ [ListingNext]_listingVars => ListingInv'
<1> SUFFICES ASSUME ListingInv, [ListingNext]_listingVars PROVE ListingInv'
  OBVIOUS
<1>1. ASSUME NEW list \in Lists, NEW sort \in {"id", "key"}, NEW tenant \in BOOLEAN,
             NEW limit \in Limits, OpenList(list, sort, tenant, limit)
      PROVE  ListingInv'
  BY <1>1, OpenListKeeps
<1>2. CASE ReadPage
  BY <1>2, ReadPageKeeps
<1>3. CASE CountRows
  BY <1>3, CountRowsKeeps
<1>4. CASE ReadHistory
  BY <1>4, ReadHistoryKeeps
<1>5. ASSUME reader.at # "idle", NEW i \in Ids, NEW to \in Record \cup {NoRecord}, ChangeRow(i, to)
      PROVE  ListingInv'
  BY <1>5, ChangeRowKeeps
<1>6. CASE UNCHANGED listingVars
  <2>1. /\ reader' = reader /\ record' = record /\ changed' = changed /\ stirred' = stirred
        /\ Here' = Here /\ (\A i : PlaceOf(i)' = PlaceOf(i)) /\ (\A i : Exists(i)' <=> Exists(i))
        /\ Shown(History, TRUE)' = Shown(History, TRUE)
    BY <1>6, RowsStay DEF listingVars
  <2>2. ListingTyped'
    BY <2>1 DEF ListingInv, ListingTyped, Records, Reader, Stirred, Record
  <2>3. RowsInv' /\ MineInv'
    BY <2>1 DEF ListingInv, RowsInv, MineInv
  <2>4. PagesInv'
    <3>1. Covered' = Covered
      BY <2>1 DEF Covered, Skip
    <3> QED
      BY <2>1, <3>1 DEF ListingInv, PagesInv, IsTotal
  <2>5. HistoryInv'
    <3>1. \A i : ShownFor(i)' <=> ShownFor(i)
      BY <2>1 DEF ShownFor
    <3> QED
      BY <2>1, <3>1 DEF ListingInv, HistoryInv
  <2> QED
    BY <2>2, <2>3, <2>4, <2>5 DEF ListingInv
<1> QED
  BY <1>1, <1>2, <1>3, <1>4, <1>5, <1>6 DEF ListingNext

LEMMA ListingHolds == ListingSpec => []ListingInv
  BY ListingStarts, ListingGoesOn, PTL DEF ListingSpec

(* The pages of a list whose order is total show every row once, those of  *)
(* the history every message but for its millisecond, and no other         *)
(* tenant's rows: findAll with skip and take, findMessages.                *)
THEOREM PagesShowRowsOnce == ListingSpec => []EachRowOnce
<1>1. ListingInv => EachRowOnce
  <2> SUFFICES ASSUME ListingInv, reader.at = "done" PROVE EachRowOnce
    BY DEF EachRowOnce
  <2>1. reader.list = History =>
          /\ \A i \in Ids : reader.seen[i] <= 1
          /\ \A i \in stirred.rows :
               \E j \in Ids : reader.seen[j] = 1 /\ Ms(record[j].key) = Ms(record[i].key)
    BY DEF ListingInv, HistoryInv, ShownFor
  <2>2. reader.list # History /\ IsTotal(reader.list, reader.sort) /\ ~stirred.moved =>
          /\ stirred.removed = {} => \A i \in stirred.rows : reader.seen[i] >= 1
          /\ ~stirred.inserted => \A i \in Ids : reader.seen[i] <= 1
    BY DEF ListingInv, PagesInv
  <2>3. reader.tenant /\ reader.list.who # "all" /\ ~stirred.moved =>
          \A i \in Ids : reader.seen[i] > 0 /\ Exists(i) => record[i].mine
    BY DEF ListingInv, MineInv
  <2> QED
    BY <2>1, <2>2, <2>3 DEF EachRowOnce
<1> QED
  BY <1>1, ListingHolds, PTL

(* The state of the lists is well typed.                                   *)
THEOREM ListingIsTyped == ListingSpec => []ListingTypeOK
<1>1. ListingInv => ListingTypeOK
  BY DEF ListingInv, ListingTyped, Records, Reader, Stirred, ListingTypeOK
<1> QED
  BY <1>1, ListingHolds, PTL

-----------------------------------------------------------------------------
(* The back office as a whole: one component is busy, the others stay as    *)
(* they are.                                                                *)

LEMMA BackofficeStarts ==
  MCInit =>
    /\ RecurringInit
    /\ LedgerInit
    /\ AccessInit
    /\ MenusInit
    /\ TenantsInit
    /\ AccountsInit
    /\ ListingInit
    /\ ConversationsInit
    /\ AccessTokensInit
BY DEF MCInit

LEMMA OneIsBusy ==
  [MCNext]_mcVars =>
    /\ [RecurringNext]_recurringVars
    /\ [LedgerNext]_ledgerVars
    /\ [AccessNext]_accessVars
    /\ [MenusNext]_menuVars
    /\ [TenantsNext]_tenantVars
    /\ [AccountsNext]_accountsVars
    /\ [ListingNext]_listingVars
    /\ [ConversationsNext]_conversationVars
    /\ [AccessTokensNext]_accessTokenVars
BY DEF MCNext, mcVars

(* The components share no state: what each of them does beside the others *)
(* is what it does alone, so that what is proved of each of them holds of  *)
(* the back office.                                                        *)
THEOREM BackofficeKeepsApart ==
  MCSpec =>
    /\ RecurringSpec
    /\ LedgerSpec
    /\ AccessSpec
    /\ MenusSpec
    /\ TenantsSpec
    /\ AccountsSpec
    /\ ListingSpec
    /\ ConversationsSpec
    /\ AccessTokensSpec
BY BackofficeStarts, OneIsBusy, PTL
   DEF MCSpec, RecurringSpec, LedgerSpec, AccessSpec, MenusSpec, TenantsSpec, AccountsSpec,
     ListingSpec, ConversationsSpec, AccessTokensSpec

(* The types of the back office.                                           *)
THEOREM BackofficeIsTyped == MCSpec => []TypeOK
<1>1. /\ RecurringTypeOK /\ LedgerTypeOK /\ AccessTypeOK /\ MenusTypeOK /\ TenantsTypeOK
      /\ AccountsTypeOK /\ ListingTypeOK /\ ConversationsTypeOK /\ AccessTokensTypeOK
      => TypeOK
  BY DEF TypeOK
<1>2. QED
  BY <1>1, BackofficeKeepsApart, RecurringIsTyped, LedgerIsTyped, AccessIsTyped, MenusAreTyped,
     TenantsAreTyped, AccountsAreTyped, ListingIsTyped, ConversationsAreTyped, TokensAreTyped, PTL
=============================================================================
