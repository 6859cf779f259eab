--------------------------- MODULE CompanyProfile ---------------------------
(***************************************************************************)
(* The company profile of one tenant: its row, the file of its logo and    *)
(* the copy one user reads through Redis (CompanyProfileService).  The     *)
(* keys of other users are written and dropped like this one.              *)
(*                                                                         *)
(* A change finds the row, removes the file of a logo that is replaced,    *)
(* saves the row as it was found with the fields that change, and drops    *)
(* every cached copy with KEYS and DEL; Redis errors are swallowed.        *)
(***************************************************************************)
EXTENDS Naturals, FiniteSets

CONSTANTS
  Profiles,   \* identities of rows
  Logos,      \* names of logo files; every upload has one of its own
  Changers,   \* slots for requests under way
  MaxChanges, \* bound: how many changes begin
  NoLogo      \* a profile without a logo

ASSUME ProfilesAssumption == Profiles # {}
ASSUME NoLogoAssumption == NoLogo \notin Logos
ASSUME ChangesAssumption == MaxChanges \in Nat

VARIABLES
  profile, \* company_profiles
  logos,   \* the logo files on disk
  cache,   \* the copy of the profile under the user's key
  change,  \* the requests
  changes, \* how many changes began
  lost     \* history: logos a request removed without saving another, or
           \* that a save of an older copy wrote back

profileVars == <<profile, logos, cache, change, changes, lost>>

-----------------------------------------------------------------------------
(* text stands for every column but the logo.                              *)
Row == [live : BOOLEAN, text : 0..MaxChanges, logo : Logos \cup {NoLogo}]
NoRow == [live |-> FALSE, text |-> 0, logo |-> NoLogo]

(* excused: history, the copy was read before a change that has been       *)
(* saved since, or the change failed to drop it.                           *)
Copy == [row : Row, excused : BOOLEAN]
NoCopy == [row |-> NoRow, excused |-> FALSE]

Change ==
  [at : {"idle", "getting", "querying", "setting", "inserting", "saving", "removing",
         "listing", "dropping"},
   id : Profiles, row : Row, old : Logos \cup {NoLogo}, copy : Copy,
   found : BOOLEAN, reads : BOOLEAN]
NoChange ==
  [at |-> "idle", id |-> CHOOSE p \in Profiles : TRUE, row |-> NoRow, old |-> NoLogo,
   copy |-> NoCopy, found |-> FALSE, reads |-> FALSE]

Fresh(row) == \E p \in Profiles : profile[p].live /\ profile[p] = row
NewLogo(l) == l \notin logos /\ l \notin lost /\ \A p \in Profiles : profile[p].logo # l
                /\ \A r \in Changers : l \notin {change[r].row.logo, change[r].old}

ProfileTypeOK ==
  /\ profile \in [Profiles -> Row]
  /\ logos \in SUBSET Logos
  /\ cache \in Copy
  /\ change \in [Changers -> Change]
  /\ changes \in 0..MaxChanges
  /\ lost \in SUBSET Logos

ProfileInit ==
  /\ profile = [p \in Profiles |-> NoRow]
  /\ logos = {}
  /\ cache = NoCopy
  /\ change = [r \in Changers |-> NoChange]
  /\ changes = 0
  /\ lost = {}

-----------------------------------------------------------------------------
(* getProfile                                                              *)

GetProfile(r) ==
  /\ change[r].at = "idle"
  /\ change' = [change EXCEPT ![r].at = "getting"]
  /\ UNCHANGED <<profile, logos, cache, changes, lost>>

(* A copy is returned; a miss and an error of Redis go on to the row.      *)
ReadCopy(r) ==
  /\ change[r].at = "getting"
  /\ \/ cache # NoCopy /\ change' = [change EXCEPT ![r] = NoChange]
     \/ change' = [change EXCEPT ![r] = [NoChange EXCEPT !.at = "querying"]]
  /\ UNCHANGED <<profile, logos, cache, changes, lost>>

QueryProfile(r) ==
  /\ change[r].at = "querying"
  /\ \/ \E p \in Profiles :
          /\ profile[p].live
          /\ change' = [change EXCEPT ![r].at = "setting", ![r].copy.row = profile[p]]
     \/ /\ \A p \in Profiles : ~profile[p].live
        /\ change' = [change EXCEPT ![r] = NoChange]
  /\ UNCHANGED <<profile, logos, cache, changes, lost>>

SetCopy(r) ==
  /\ change[r].at = "setting"
  /\ cache' \in {cache, change[r].copy}
  /\ change' = [change EXCEPT ![r] = NoChange]
  /\ UNCHANGED <<profile, logos, changes, lost>>

(* EX 10800                                                                *)
ExpireCopy ==
  /\ cache # NoCopy
  /\ cache' = NoCopy
  /\ UNCHANGED <<profile, logos, change, changes, lost>>

-----------------------------------------------------------------------------
(* Changes.                                                                *)

BeginChange(r, does) ==
  /\ change[r].at = "idle" /\ changes < MaxChanges
  /\ changes' = changes + 1
  /\ change' = [change EXCEPT ![r] = does]

(* Mutant of Placed: the uploaded file is not where it is expected and is  *)
(* not moved.                                                              *)
PlacedNowhere(old, new) == logos \ {old}

(* deleteOldLogo, resolveLogoFields                                        *)
Placed(old, new) == (logos \ {old}) \cup ({new} \ {NoLogo})

(* createProfile: there is no profile, as far as can be seen.              *)
CheckNone(r, l) ==
  /\ \A p \in Profiles : ~profile[p].live
  /\ l = NoLogo \/ NewLogo(l)
  /\ BeginChange(r, [NoChange EXCEPT !.at = "inserting", !.reads = TRUE,
                               !.row = [live |-> TRUE, text |-> changes + 1, logo |-> l]])
  /\ logos' = Placed(NoLogo, l)
  /\ UNCHANGED <<profile, cache, lost>>

(* updateProfile with or without a new logo.                               *)
UpdateProfile(r, p, l) ==
  LET old == IF l = NoLogo THEN NoLogo ELSE profile[p].logo
  IN /\ profile[p].live /\ (l = NoLogo \/ NewLogo(l))
     /\ BeginChange(r, [NoChange EXCEPT
          !.at = "saving", !.id = p, !.old = old, !.reads = TRUE,
          !.row = [live |-> TRUE, text |-> changes + 1,
                   logo |-> IF l = NoLogo THEN profile[p].logo ELSE l]])
     /\ logos' = Placed(old, l)
     /\ UNCHANGED <<profile, cache, lost>>

(* uploadLogo, and removeLogo (l = NoLogo).                                *)
ReplaceLogo(r, p, l) ==
  /\ profile[p].live
  /\ \/ NewLogo(l)
     \/ l = NoLogo /\ profile[p].logo # NoLogo
  /\ BeginChange(r, [NoChange EXCEPT !.at = "saving", !.id = p, !.old = profile[p].logo,
                               !.row = [profile[p] EXCEPT !.logo = l]])
  /\ logos' = Placed(profile[p].logo, l)
  /\ UNCHANGED <<profile, cache, lost>>

RemoveProfile(r, p) ==
  /\ profile[p].live
  /\ BeginChange(r, [NoChange EXCEPT !.at = "removing", !.id = p])
  /\ UNCHANGED <<profile, logos, cache, lost>>

(* Mutant of Saved: the copies are not dropped.                            *)
SavedOnly(r, row) ==
  [q \in Changers |->
     IF q = r THEN [change[r] EXCEPT !.at = IF @ = "removing" THEN "idle" ELSE "getting"]
     ELSE change[q]]

(* A row has been saved: the copies are dropped next, and whoever is about *)
(* to keep another one has read before.                                    *)
Saved(r, row) ==
  [q \in Changers |->
     IF q = r THEN [change[r] EXCEPT !.at = "listing"]
     ELSE IF change[q].at = "setting" THEN [change[q] EXCEPT !.copy.excused = TRUE]
     ELSE change[q]]

InsertProfile(r, p) ==
  /\ change[r].at = "inserting"
  /\ profile[p] = NoRow
  /\ profile' = [profile EXCEPT ![p] = change[r].row]
  /\ change' = Saved(r, change[r].row)
  /\ UNCHANGED <<logos, cache, changes, lost>>

(* The row as it was found with its changes; one that was removed          *)
(* meanwhile stays removed or, its deletion mark being written back, is    *)
(* there again.                                                            *)
SaveProfile(r) ==
  LET row == change[r].row
      p == change[r].id
  IN /\ change[r].at = "saving"
     /\ \E live \in {profile[p].live, TRUE} :
          profile' = [profile EXCEPT ![p] = [row EXCEPT !.live = live]]
     /\ lost' = lost \cup ({row.logo} \ (logos \cup {NoLogo}))
     /\ change' = Saved(r, row)
     /\ UNCHANGED <<logos, cache, changes>>

SoftDelete(r) ==
  /\ change[r].at = "removing"
  /\ profile' = [profile EXCEPT ![change[r].id].live = FALSE]
  /\ change' = Saved(r, NoRow)
  /\ UNCHANGED <<logos, cache, changes, lost>>

(* The query fails; what has happened to the files stays.                  *)
ChangeFails(r) ==
  /\ change[r].at \in {"inserting", "saving", "removing"}
  /\ lost' = lost \cup ({change[r].old} \ {NoLogo})
  /\ change' = [change EXCEPT ![r] = NoChange]
  /\ UNCHANGED <<profile, logos, cache, changes>>

(* invalidateCache, then getProfile for those that return the profile.     *)
Dropped(r) == [NoChange EXCEPT !.at = IF change[r].reads THEN "getting" ELSE "idle"]

ListKeys(r) ==
  /\ change[r].at = "listing"
  /\ \/ /\ cache # NoCopy
        /\ change' = [change EXCEPT ![r].at = "dropping"]
     \/ /\ cache = NoCopy
        /\ change' = [change EXCEPT ![r] = Dropped(r)]
  /\ UNCHANGED <<profile, logos, cache, changes, lost>>

DropCopy(r) ==
  /\ change[r].at = "dropping"
  /\ cache' = NoCopy
  /\ change' = [change EXCEPT ![r] = Dropped(r)]
  /\ UNCHANGED <<profile, logos, changes, lost>>

(* An error of Redis is swallowed.                                         *)
DropFails(r) ==
  /\ change[r].at \in {"listing", "dropping"}
  /\ cache' = IF cache = NoCopy THEN NoCopy ELSE [cache EXCEPT !.excused = TRUE]
  /\ change' = [change EXCEPT ![r] = Dropped(r)]
  /\ UNCHANGED <<profile, logos, changes, lost>>

ProfileCrash ==
  /\ change' = [r \in Changers |-> NoChange]
  /\ LET saving == {r \in Changers : change[r].at = "saving"}
     IN lost' = lost \cup ({change[r].old : r \in saving} \ {NoLogo})
  /\ cache' = IF \E r \in Changers : change[r].at \in {"listing", "dropping"} /\ cache # NoCopy
              THEN [cache EXCEPT !.excused = TRUE] ELSE cache
  /\ UNCHANGED <<profile, logos, changes>>

-----------------------------------------------------------------------------
ProfileNext ==
  \/ \E r \in Changers :
       \/ GetProfile(r) \/ ReadCopy(r) \/ QueryProfile(r) \/ SetCopy(r)
       \/ \E l \in Logos \cup {NoLogo} :
            CheckNone(r, l) \/ \E p \in Profiles : UpdateProfile(r, p, l) \/ ReplaceLogo(r, p, l)
       \/ \E p \in Profiles : RemoveProfile(r, p) \/ InsertProfile(r, p)
       \/ SaveProfile(r) \/ SoftDelete(r) \/ ChangeFails(r)
       \/ ListKeys(r) \/ DropCopy(r) \/ DropFails(r)
  \/ ExpireCopy
  \/ ProfileCrash

ProfileSpec == ProfileInit /\ [][ProfileNext]_profileVars

-----------------------------------------------------------------------------
(* The logo of a profile is on disk, unless the request that replaces it   *)
(* is under way or failed, or a save of an older copy wrote back the name  *)
(* of a logo that had been removed.                                        *)
LogoExists ==
  \A p \in Profiles :
    LET l == profile[p].logo
    IN l \in logos \cup lost \cup {NoLogo}
         \/ \E r \in Changers : change[r].at = "saving" /\ change[r].old = l

(* The cached copy is the profile, except while the request that changed   *)
(* it has still to drop the copies, when Redis failed to, or when it was   *)
(* kept by a reader whose query came before the change.                    *)
CopyIsFresh ==
  \/ cache = NoCopy \/ cache.excused \/ Fresh(cache.row)
  \/ \E r \in Changers : change[r].at \in {"listing", "dropping"}

(* What is shown of the company is what is stored: its logo is there, and  *)
(* the copy is that of the row.                                            *)
ShownAsStored == LogoExists /\ CopyIsFresh
=============================================================================
