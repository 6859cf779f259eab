------------------------------- MODULE Ledger -------------------------------
(***************************************************************************)
(* The transactions of a household with their categories and the members   *)
(* of the family (TransactionService, CategoryService,                     *)
(* FamilyMemberService), and every sum the program shows of them:          *)
(* DashboardService, ReportService, the budgets of BudgetService and the   *)
(* filtered list.  The sums are queries of their own, with joins, filters  *)
(* and groups of their own.                                                *)
(*                                                                         *)
(* A date is a month, counted from January of year 0, and a day.  The      *)
(* amount of a transaction is fixed by its identity.                       *)
(***************************************************************************)
EXTENDS Integers, FiniteSets

CONSTANTS
  Entries,    \* identities of transactions
  AmountOf,   \* their amounts
  Dates,      \* the dates they have
  Since,      \* the date that is so many months before today
  Categories, \* identities of categories
  Members,    \* members of the family
  Nobody,     \* a transaction of nobody
  Writers,    \* slots for requests under way
  MaxWrites   \* bound: how many requests begin

(* The year and the month of a date; February as in a leap year.          *)
YearOf(p) == p \div 12
MonthOf(p) == (p % 12) + 1
DaysIn(month) == IF month = 2 THEN 29 ELSE IF month \in {4, 6, 9, 11} THEN 30 ELSE 31

ASSUME LedgerAssumption ==
  /\ IsFiniteSet(Entries) /\ Entries # {} /\ Categories # {} /\ Dates # {}
  /\ AmountOf \in [Entries -> Nat] /\ MaxWrites \in Nat
  /\ Dates \subseteq Nat \X (1..31) /\ Since \in Nat \X (1..31)
  /\ \A date \in Dates : date[2] <= DaysIn(MonthOf(date[1]))
  /\ Nobody \notin Members

VARIABLES
  entry,      \* rt_transactions
  categories, \* the categories that are not removed
  members,    \* and the members
  write,      \* the requests
  writes      \* how many began

ledgerVars == <<entry, categories, members, write, writes>>

-----------------------------------------------------------------------------
Kinds == {"income", "expense", "recurring"} \* recurring: an expense with isRecurring
Expenses == {"expense", "recurring"}
Row ==
  [live : BOOLEAN, date : Dates, kind : Kinds, category : Categories,
   member : Members \cup {Nobody}]
NoRow ==
  [live |-> FALSE, date |-> CHOOSE d \in Dates : TRUE, kind |-> "income",
   category |-> CHOOSE c \in Categories : TRUE, member |-> Nobody]
NoWrite == [at |-> "idle", id |-> CHOOSE t \in Entries : TRUE, row |-> NoRow]

LedgerTypeOK ==
  /\ entry \in [Entries -> Row]
  /\ categories \in SUBSET Categories
  /\ members \in SUBSET Members
  /\ write \in [Writers -> [at : {"idle", "inserting", "saving"}, id : Entries, row : Row]]
  /\ writes \in 0..MaxWrites

LedgerInit ==
  /\ entry = [t \in Entries |-> NoRow]
  /\ categories = Categories
  /\ members = Members
  /\ write = [w \in Writers |-> NoWrite]
  /\ writes = 0

Valid(row) == row.category \in categories /\ row.member \in members \cup {Nobody}

(* create: category and member are looked for, then the row is inserted.   *)
Create(w, t, row) ==
  /\ write[w].at = "idle" /\ writes < MaxWrites
  /\ entry[t] = NoRow /\ \A v \in Writers : write[v].at = "inserting" => write[v].id # t
  /\ row.live /\ Valid(row)
  /\ writes' = writes + 1
  /\ write' = [write EXCEPT ![w] = [at |-> "inserting", id |-> t, row |-> row]]
  /\ UNCHANGED <<entry, categories, members>>

Insert(w) ==
  /\ write[w].at = "inserting"
  /\ entry' = [entry EXCEPT ![write[w].id] = write[w].row]
  /\ write' = [write EXCEPT ![w] = NoWrite]
  /\ UNCHANGED <<categories, members, writes>>

(* update: the row is loaded with what is joined; a category or a member   *)
(* that changes is looked for.  A relation that was loaded may take        *)
(* precedence over the id that is asked for, and a member that is not      *)
(* there any more is taken off.                                            *)
Update(w, t, row) ==
  LET old == entry[t]
  IN /\ write[w].at = "idle" /\ writes < MaxWrites
     /\ old.live /\ row.live
     /\ row.category = old.category \/ row.category \in categories
     /\ \/ row.member = old.member
        \/ row.member \in members \cup {Nobody}
     /\ \E category \in {old.category, row.category}, member \in {old.member, row.member} :
          write' = [write EXCEPT ![w] =
            [at |-> "saving", id |-> t,
             row |-> [row EXCEPT !.category = category,
                                 !.member = IF member \in members THEN member ELSE Nobody]]]
     /\ writes' = writes + 1
     /\ UNCHANGED <<entry, categories, members>>

(* The whole row is saved; one that was removed meanwhile stays removed or *)
(* is there again.                                                         *)
Save(w) ==
  /\ write[w].at = "saving"
  /\ \E live \in {entry[write[w].id].live, TRUE} :
       entry' = [entry EXCEPT ![write[w].id] = [write[w].row EXCEPT !.live = live]]
  /\ write' = [write EXCEPT ![w] = NoWrite]
  /\ UNCHANGED <<categories, members, writes>>

WriteFails(w) ==
  /\ write[w].at # "idle"
  /\ write' = [write EXCEPT ![w] = NoWrite]
  /\ UNCHANGED <<entry, categories, members, writes>>

RemoveEntry(t) ==
  /\ entry[t].live
  /\ entry' = [entry EXCEPT ![t].live = FALSE]
  /\ UNCHANGED <<categories, members, write, writes>>

(* A soft removal meets no foreign key: the transactions stay.             *)
RemoveCategory(c) ==
  /\ categories' = categories \ {c}
  /\ UNCHANGED <<entry, members, write, writes>>

RemoveMember(m) ==
  /\ members' = members \ {m}
  /\ UNCHANGED <<entry, categories, write, writes>>

LedgerNext ==
  \/ \E w \in Writers :
       \/ \E t \in Entries, row \in Row : Create(w, t, row) \/ Update(w, t, row)
       \/ Insert(w) \/ Save(w) \/ WriteFails(w)
  \/ \E t \in Entries : RemoveEntry(t)
  \/ \E c \in categories : RemoveCategory(c)
  \/ \E m \in members : RemoveMember(m)

LedgerSpec == LedgerInit /\ [][LedgerNext]_ledgerVars

-----------------------------------------------------------------------------
(* What is shown.                                                          *)

In(t, year, month) == YearOf(entry[t].date[1]) = year /\ MonthOf(entry[t].date[1]) = month

(* The sum of a function counts units: as many for each place as its       *)
(* value there.                                                            *)
Units(f) == UNION {{x} \X (1..f[x]) : x \in DOMAIN f}
Total(f) == Cardinality(Units(f))
Sum(T) == Total([t \in T |-> AmountOf[t]])

Live(kinds) == {t \in Entries : entry[t].live /\ entry[t].kind \in kinds}
Of(kinds, year, month) == {t \in Live(kinds) : In(t, year, month)}
Sums(T) ==
  [income |-> Sum({t \in T : entry[t].kind = "income"}),
   expense |-> Sum({t \in T : entry[t].kind \in Expenses})]

(* Mutant of PrevMonth: the year is kept in January.                       *)
PrevMonthOfYear(year, month) == <<year, IF month = 1 THEN 12 ELSE month - 1>>

PrevMonth(year, month) == IF month = 1 THEN <<year - 1, 12>> ELSE <<year, month - 1>>

(* getSummary                                                              *)
Summary(year, month) ==
  LET prev == PrevMonth(year, month)
  IN [current |-> Sums(Of(Kinds, year, month)), previous |-> Sums(Of(Kinds, prev[1], prev[2]))]

(* The month to copy from: new Date(year, month - 2, 1), which borrows     *)
(* from the year.                                                          *)
SourceMonth(year, month) ==
  LET p == 12 * year + month - 2 IN <<YearOf(p), MonthOf(p)>>

(* getDailyChart: every day of the month.                                  *)
DailyChart(year, month) ==
  [day \in 1..DaysIn(month) |-> Sums({t \in Of(Kinds, year, month) : entry[t].date[2] = day})]

(* getCategoryBreakdown, getCategoryReport: an inner join, which finds no  *)
(* category that was removed.                                              *)
ByCategory(year, month) ==
  [c \in categories |-> Sum({t \in Of(Expenses, year, month) : entry[t].category = c})]

(* getMemberBreakdown: a left join; expenses of members that were removed  *)
(* are those of nobody.                                                    *)
ByMember(year, month) ==
  [m \in members \cup {Nobody} |->
     Sum({t \in Of(Expenses, year, month) :
            (IF entry[t].member \in members THEN entry[t].member ELSE Nobody) = m})]

(* getMonthlyReport                                                        *)
MonthlyReport(year) ==
  [month \in 1..12 |-> Sums({t \in Live(Kinds) : In(t, year, month)})]

(* getRecurringReport: the rows, of categories that are there.             *)
RecurringReport(year, month) ==
  {t \in Of({"recurring"}, year, month) : entry[t].category \in categories}

(* getTrend: the months of the rows since a date.                          *)
NotBefore(date, since) == date[1] > since[1] \/ (date[1] = since[1] /\ date[2] >= since[2])
Trend ==
  LET T == {t \in Live(Kinds) : NotBefore(entry[t].date, Since)}
  IN [p \in {entry[t].date[1] : t \in T} |-> Sums({t \in T : entry[t].date[1] = p})]

(* findByPeriod: the realization of the budget of a category.              *)
UsedAmount(c, year, month) ==
  Sum({t \in Of({"expense", "recurring"}, year, month) : entry[t].category = c})

(* findAll of a month or of a year: between its first and its last day.    *)
Listed(year, month) ==
  {t \in Live(Kinds) :
     LET d == entry[t].date
     IN IF month = 0 THEN NotBefore(d, <<12 * year, 1>>) /\ NotBefore(<<12 * year + 11, 31>>, d)
        ELSE /\ NotBefore(d, <<12 * year + month - 1, 1>>)
             /\ NotBefore(<<12 * year + month - 1, DaysIn(month)>>, d)}

-----------------------------------------------------------------------------
Orphans(year, month) ==
  Sum({t \in Of(Expenses, year, month) : entry[t].category \notin categories})

(* Whatever is entered, changed and removed, and whatever categories and   *)
(* members are removed in between, the pages agree: the days, the members  *)
(* and the list of a month make up its summary, and so does the month in   *)
(* the report of its year, in the trend, except for the first month of the *)
(* trend, and in the comparison of the next month; so do the categories,   *)
(* except for what was spent in categories that were removed.              *)
SumsAgree ==
  \A p \in {entry[t].date[1] : t \in Live(Kinds)} :
    LET year == YearOf(p)
        month == MonthOf(p)
        now == Summary(year, month).current
        daily == DailyChart(year, month)
        next == Summary(YearOf(p + 1), MonthOf(p + 1))
    IN /\ now.income = Total([d \in DOMAIN daily |-> daily[d].income])
       /\ now.expense = Total([d \in DOMAIN daily |-> daily[d].expense])
       /\ now.expense = Total(ByMember(year, month))
       /\ now.expense = Total(ByCategory(year, month)) + Orphans(year, month)
       /\ \A c \in categories : ByCategory(year, month)[c] = UsedAmount(c, year, month)
       /\ now = MonthlyReport(year)[month]
       /\ now = Sums(Listed(year, month))
       /\ now.expense + now.income = Sum(Listed(year, 0) \cap Listed(year, month))
       /\ (p \in DOMAIN Trend /\ p > Since[1]) => now = Trend[p]
       /\ now = next.previous
       /\ <<year, month>> = SourceMonth(YearOf(p + 1), MonthOf(p + 1))
       /\ Sum(RecurringReport(year, month)) <= Total(ByCategory(year, month))
=============================================================================
