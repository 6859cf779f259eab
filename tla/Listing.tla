------------------------------ MODULE Listing ------------------------------
(***************************************************************************)
(* The lists that are shown page by page, with OFFSET and LIMIT, and a     *)
(* client that reads all pages one after the other.  Each list has the     *)
(* columns it can be ordered by, whether other tables are joined, for then *)
(* TypeORM pages over the ids, as the last column of the order, and which  *)
(* rows of which tenant it is made of.  What is searched for is left out:  *)
(* it holds for a row or does not.  The history of a conversation is read  *)
(* from the newest message back, each page from where the last one ended.  *)
(***************************************************************************)
EXTENDS Naturals, FiniteSets

CONSTANTS
  Ids,          \* identities of rows, in ascending order
  ColumnValues, \* values of the columns that are not unique
  TicksPerMs,   \* when they are dates, how many are one for a Date of the program
  Limits,       \* sizes of a page
  NoRecord,     \* there is no row
  MaxChanges    \* bound: how many rows are inserted, changed and removed

ASSUME ListingAssumption ==
  /\ Ids \subseteq Nat /\ IsFiniteSet(Ids)
  /\ ColumnValues \subseteq Nat /\ Limits \subseteq Nat \ {0}
  /\ TicksPerMs \in Nat \ {0} /\ MaxChanges \in Nat /\ NoRecord \notin Ids

VARIABLES
  record,  \* the rows of a table
  reader,  \* the client
  changed, \* how many rows changed
  stirred  \* history: what happened since the first page, and the rows that
           \* were there then

listingVars == <<record, reader, changed, stirred>>

-----------------------------------------------------------------------------
(* The lists.  "id" is unique, "key" any other column; who: the rows of    *)
(* the tenant, the same but all when no tenant is known, or all.           *)

UsersList == [sorts |-> {"id"}, joined |-> TRUE, who |-> "tenant or all"]
RolesList == [sorts |-> {"id", "key"}, joined |-> FALSE, who |-> "tenant"]
TenantsList == [sorts |-> {"key"}, joined |-> FALSE, who |-> "all"]
PegawaiList == [sorts |-> {"key"}, joined |-> TRUE, who |-> "tenant or all"]
GalleryList == [sorts |-> {"id", "key"}, joined |-> TRUE, who |-> "tenant or all"]
AlbumList == [sorts |-> {"key"}, joined |-> FALSE, who |-> "tenant"]
DocumentList == [sorts |-> {"id", "key"}, joined |-> TRUE, who |-> "tenant or all"]
TransactionList == [sorts |-> {"id", "key"}, joined |-> TRUE, who |-> "tenant"]
BarangList == [sorts |-> {"id", "key"}, joined |-> TRUE, who |-> "tenant"]
KategoriList == [sorts |-> {"id", "key"}, joined |-> FALSE, who |-> "tenant"]
NotificationList == [sorts |-> {"key"}, joined |-> FALSE, who |-> "tenant"] \* of a user
ActivityLogList == [sorts |-> {"key"}, joined |-> TRUE, who |-> "tenant or all"]
MessageLogList == [sorts |-> {"key"}, joined |-> TRUE, who |-> "tenant"]
History == [sorts |-> {"key"}, joined |-> TRUE, who |-> "conversation"]

Lists ==
  {UsersList, RolesList, TenantsList, PegawaiList, GalleryList, AlbumList, DocumentList,
   TransactionList, BarangList, KategoriList, NotificationList, ActivityLogList, MessageLogList,
   History}

-----------------------------------------------------------------------------
Record == [key : ColumnValues, mine : BOOLEAN]
Exists(i) == record[i] # NoRecord
NoReader ==
  [at |-> "idle", list |-> UsersList, sort |-> "id", tenant |-> TRUE, limit |-> 1, page |-> 1,
   pages |-> 0, cursor |-> NoRecord, seen |-> [i \in Ids |-> 0]]
Unstirred == [inserted |-> FALSE, removed |-> {}, moved |-> FALSE, rows |-> {}]

ListingTypeOK ==
  /\ record \in [Ids -> Record \cup {NoRecord}]
  /\ reader.at \in {"idle", "page", "count", "done"} /\ reader.list \in Lists
  /\ reader.cursor \in Ids \cup {NoRecord} /\ reader.seen \in [Ids -> Nat]
  /\ changed \in 0..MaxChanges
  /\ stirred.rows \in SUBSET Ids /\ stirred.removed \in SUBSET Ids

ListingInit ==
  /\ record \in [Ids -> Record \cup {NoRecord}]
  /\ reader = NoReader
  /\ changed = 0
  /\ stirred = Unstirred

Shown(list, tenant) ==
  {i \in Ids : Exists(i) /\ (list.who = "all" \/ (list.who = "tenant or all" /\ ~tenant)
                             \/ record[i].mine)}

(* Rows with the same values come in any order, another one in each query. *)
IsTotal(list, sort) == sort = "id" \/ list.joined
Before(list, sort, i, j) ==
  IF sort = "id" THEN i < j
  ELSE record[i].key < record[j].key \/ (record[i].key = record[j].key /\ list.joined /\ i < j)
Sorted(list, sort, S) ==
  {f \in [1..Cardinality(S) -> S] :
     \A m, n \in 1..Cardinality(S) : m < n => f[m] # f[n] /\ ~Before(list, sort, f[n], f[m])}

(* Mutant of Skip: a page overlaps the one before.                         *)
SkipLess(page, limit) == IF page = 1 THEN 0 ELSE (page - 1) * limit - 1

Skip(page, limit) == (page - 1) * limit
TotalPages(total, limit) == (total + limit - 1) \div limit

(* A list of the rows of a tenant is refused without one.                  *)
OpenList(list, sort, tenant, limit) ==
  /\ reader.at = "idle"
  /\ sort \in list.sorts /\ (tenant \/ list.who \in {"all", "tenant or all"})
  /\ reader' = [NoReader EXCEPT !.at = "page", !.list = list, !.sort = sort, !.tenant = tenant,
                                !.limit = limit]
  /\ stirred' = [Unstirred EXCEPT !.rows = Shown(list, tenant)]
  /\ UNCHANGED <<record, changed>>

SeenAlso(page) == [i \in Ids |-> reader.seen[i] + IF i \in page THEN 1 ELSE 0]

(* The rows of a page, and then the number of rows in all: two queries.    *)
ReadPage ==
  LET S == Shown(reader.list, reader.tenant)
      from == Skip(reader.page, reader.limit)
  IN /\ reader.at = "page" /\ reader.list # History
     /\ \E f \in Sorted(reader.list, reader.sort, S) :
          LET page == {f[n] : n \in (from + 1)..(from + reader.limit) \cap DOMAIN f}
          IN reader' = [reader EXCEPT !.at = "count", !.seen = SeenAlso(page)]
     /\ UNCHANGED <<record, changed, stirred>>

CountRows ==
  LET pages == TotalPages(Cardinality(Shown(reader.list, reader.tenant)), reader.limit)
  IN /\ reader.at = "count"
     /\ reader' = IF reader.page >= pages THEN [reader EXCEPT !.at = "done", !.pages = pages]
                  ELSE [reader EXCEPT !.at = "page", !.pages = pages, !.page = @ + 1]
     /\ UNCHANGED <<record, changed, stirred>>

(* findMessages: the date of the message the last page ended with is read, *)
(* cut to milliseconds, and the page is made of what is older; one row too *)
(* many is read to see whether there are more.                             *)
Ms(date) == date - (date % TicksPerMs)
OlderThan(cursor) ==
  {i \in Shown(History, TRUE) : cursor = NoRecord \/ record[i].key < Ms(record[cursor].key)}

ReadHistory ==
  LET S == OlderThan(reader.cursor)
      newer(i, j) == record[i].key > record[j].key \/ (record[i].key = record[j].key /\ i < j)
      page == {i \in S : Cardinality({j \in S : newer(j, i)}) < reader.limit}
      more == S # page
  IN /\ reader.at = "page" /\ reader.list = History
     /\ \E last \in IF more THEN {i \in page : \A j \in page \ {i} : newer(j, i)} ELSE {NoRecord} :
          reader' = [reader EXCEPT !.at = IF more THEN "page" ELSE "done",
                                   !.cursor = last, !.seen = SeenAlso(page)]
     /\ UNCHANGED <<record, changed, stirred>>

(* Messages are emptied but never removed, and keep their date.  The       *)
(* identity of a row that was removed is not used again.                   *)
ChangeRow(i, to) ==
  /\ changed < MaxChanges /\ changed' = changed + 1
  /\ i \notin stirred.removed
  /\ to # record[i] /\ (reader.list = History => record[i] = NoRecord)
  /\ record' = [record EXCEPT ![i] = to]
  /\ stirred' = [stirred EXCEPT !.inserted = @ \/ record[i] = NoRecord,
                                !.removed = IF to = NoRecord THEN @ \cup {i} ELSE @,
                                !.moved = @ \/ (record[i] # NoRecord /\ to # NoRecord)]
  /\ UNCHANGED reader

ListingNext ==
  \/ \E list \in Lists, sort \in {"id", "key"}, tenant \in BOOLEAN, limit \in Limits :
       OpenList(list, sort, tenant, limit)
  \/ ReadPage \/ CountRows \/ ReadHistory
  \/ reader.at # "idle" /\ \E i \in Ids, to \in Record \cup {NoRecord} : ChangeRow(i, to)

ListingSpec == ListingInit /\ [][ListingNext]_listingVars

-----------------------------------------------------------------------------
(* The pages of a list whose order is total show every row once: none is   *)
(* left out when rows are inserted meanwhile, but none removed or changed, *)
(* none comes twice when rows are removed, but none inserted or changed;   *)
(* and a client with a tenant sees no other tenant's rows, but in the list *)
(* of tenants.  When two rows can have the same place, a row may come      *)
(* twice and another one never, in a table that does not change.  The      *)
(* history shows every message once, however many are sent meanwhile, but  *)
(* may leave out one of the same millisecond as another one it shows.      *)
EachRowOnce ==
  reader.at = "done" =>
    /\ reader.list = History =>
         /\ \A i \in Ids : reader.seen[i] <= 1
         /\ \A i \in stirred.rows :
              \E j \in Ids : reader.seen[j] = 1 /\ Ms(record[j].key) = Ms(record[i].key)
    /\ reader.list # History /\ IsTotal(reader.list, reader.sort) /\ ~stirred.moved =>
         /\ stirred.removed = {} => \A i \in stirred.rows : reader.seen[i] >= 1
         /\ ~stirred.inserted => \A i \in Ids : reader.seen[i] <= 1
    /\ reader.tenant /\ reader.list.who # "all" /\ ~stirred.moved =>
         \A i \in Ids : reader.seen[i] > 0 /\ Exists(i) => record[i].mine
=============================================================================
