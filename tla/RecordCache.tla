------------------------------ MODULE RecordCache ------------------------------
(***************************************************************************)
(* SharedTable::dbcache: the records of users that are kept in memory to   *)
(* check sessions and categories.  A reader (UserCredService::Get, then    *)
(* ValidateUserCategories) looks there first and puts there what it reads  *)
(* from the database; a writer (StoreTrans::Commit) changes the record and *)
(* then deletes the entry (AddToCache).  Every operation holds the lock of *)
(* the cache, nothing holds it from one operation to the next.             *)
(*                                                                         *)
(* The categories of a user are entries of their own, stamped with the     *)
(* updated_at of the record they come from.  Nothing ever deletes these.   *)
(*                                                                         *)
(* Abstractions: one user, with its categories; the record is always       *)
(* there; one writer, since a name is reserved while it is written and a   *)
(* slave has one sync thread.  Services for exters, categories and tags    *)
(* do the same with the record alone.                                      *)
(***************************************************************************)
EXTENDS Naturals, Sequences, FiniteSets

CONSTANTS
  Reader,     \* handlers that check a category
  Category,
  SameMs,     \* TRUE: a change may have the time stamp of the one before
  MaxUpdate   \* bound on changes of the record

ASSUME RecordCacheAssumption ==
  MaxUpdate \in Nat /\ SameMs \in BOOLEAN

VARIABLES
  versions,  \* what the record was and, as the last element, is
  entry,     \* its entry in the cache, with at = 0 when there is none
  stamp,     \* stamp[c]: the entry for category c, 0 when there is none
  writing,   \* TRUE: the record is changed, its entry not yet deleted
  crowded,   \* TRUE: two handlers have run at the same time
  pc,        \* of a reader: its next step,
  copy,      \*   the record it works with,
  todo,      \*   the categories it has still to put in the cache,
  since      \*   and the length of versions when it began

CacheVars == <<versions, entry, stamp, writing, crowded, pc, copy, todo, since>>

Stamp == 1..(MaxUpdate + 1)
Record == [at : Stamp, cats : SUBSET Category]
NoEntry == [at |-> 0, cats |-> {}]

Now == Len(versions)
Stored == versions[Now]

CacheInit ==
  /\ \E cats \in SUBSET Category : versions = << [at |-> 1, cats |-> cats] >>
  /\ entry = NoEntry
  /\ stamp = [c \in Category |-> 0]
  /\ writing = FALSE /\ crowded = FALSE
  /\ pc = [r \in Reader |-> "idle"]
  /\ copy = [r \in Reader |-> NoEntry]
  /\ todo = [r \in Reader |-> {}]
  /\ since = [r \in Reader |-> 1]

-----------------------------------------------------------------------------
\* Another handler begins.
Crowd == crowded' = (crowded \/ writing \/ \E r \in Reader : pc[r] # "idle")

\* CommitData: the record changes, with the time at which the handler began.
Change ==
  /\ ~writing /\ Crowd
  /\ Now <= MaxUpdate
  /\ \E cats \in SUBSET Category, d \in IF SameMs THEN {0, 1} ELSE {1} :
       versions' = Append(versions, [at |-> Stored.at + d, cats |-> cats])
  /\ writing' = TRUE
  /\ UNCHANGED <<entry, stamp, pc, copy, todo, since>>

\* Mutant of Forget: the entry stays.
ForgetNothing ==
  /\ writing
  /\ writing' = FALSE
  /\ UNCHANGED <<crowded, versions, entry, stamp, pc, copy, todo, since>>

\* AddToCache: DelAssoc of the record.
Forget ==
  /\ writing
  /\ entry' = NoEntry
  /\ writing' = FALSE
  /\ UNCHANGED <<crowded, versions, stamp, pc, copy, todo, since>>

-----------------------------------------------------------------------------
GoTo(r, step) == pc' = [pc EXCEPT ![r] = step]

\* Get begins: GetAssoc of the record.
Look(r) ==
  /\ pc[r] = "idle" /\ Crowd
  /\ since' = [since EXCEPT ![r] = Now]
  /\ \/ /\ entry # NoEntry
        /\ copy' = [copy EXCEPT ![r] = entry]
        /\ GoTo(r, "validate")
     \/ /\ entry = NoEntry
        /\ GoTo(r, "read")
        /\ UNCHANGED copy
  /\ UNCHANGED <<versions, entry, stamp, writing, todo>>

\* GetOne.
GetOne(r) ==
  /\ pc[r] = "read"
  /\ copy' = [copy EXCEPT ![r] = Stored]
  /\ GoTo(r, "put")
  /\ UNCHANGED <<crowded, versions, entry, stamp, writing, todo, since>>

\* SetAssoc of the record.
Put(r) ==
  /\ pc[r] = "put"
  /\ entry' = copy[r]
  /\ todo' = [todo EXCEPT ![r] = copy[r].cats]
  /\ GoTo(r, "stamp")
  /\ UNCHANGED <<crowded, versions, stamp, writing, copy, since>>

\* Mutant of PutStamp: the time stamp is that of the record as it is now.
PutStampNow(r) ==
  /\ pc[r] = "stamp"
  /\ \/ \E c \in todo[r] :
          /\ stamp' = [stamp EXCEPT ![c] = Stored.at]
          /\ todo' = [todo EXCEPT ![r] = @ \ {c}]
          /\ UNCHANGED pc
     \/ /\ todo[r] = {}
        /\ GoTo(r, "validate")
        /\ UNCHANGED <<stamp, todo>>
  /\ UNCHANGED <<crowded, versions, entry, writing, copy, since>>

\* SetAssoc of its categories, one after the other.
PutStamp(r) ==
  /\ pc[r] = "stamp"
  /\ \/ \E c \in todo[r] :
          /\ stamp' = [stamp EXCEPT ![c] = copy[r].at]
          /\ todo' = [todo EXCEPT ![r] = @ \ {c}]
          /\ UNCHANGED pc
     \/ /\ todo[r] = {}
        /\ GoTo(r, "validate")
        /\ UNCHANGED <<stamp, todo>>
  /\ UNCHANGED <<crowded, versions, entry, writing, copy, since>>

\* What ValidateUserCategories says of c: the entry of c has the time stamp of
\* the record.
Valid(r, c) == stamp[c] = copy[r].at

\* ValidateUserCategories: GetAssoc of a category, and the answer.
Validate(r) ==
  /\ pc[r] = "validate"
  /\ GoTo(r, "idle")
  /\ copy' = [copy EXCEPT ![r] = NoEntry]
  /\ since' = [since EXCEPT ![r] = 1]
  /\ UNCHANGED <<crowded, versions, entry, stamp, writing, todo>>

CacheNext ==
  \/ Change \/ Forget
  \/ \E r \in Reader : Look(r) \/ GetOne(r) \/ Put(r) \/ PutStamp(r) \/ Validate(r)

CacheSpec == CacheInit /\ [][CacheNext]_CacheVars

-----------------------------------------------------------------------------
\* The kinds of values the state holds.
CacheTypeOK ==
  /\ versions \in Seq(Record) /\ Now \in 1..(MaxUpdate + 1)
  /\ entry \in Record \cup {NoEntry}
  /\ stamp \in [Category -> 0..(MaxUpdate + 1)]
  /\ writing \in BOOLEAN /\ crowded \in BOOLEAN
  /\ pc \in [Reader -> {"idle", "read", "put", "stamp", "validate"}]
  /\ copy \in [Reader -> Record \cup {NoEntry}]
  /\ todo \in [Reader -> SUBSET Category]
  /\ since \in [Reader -> 1..(MaxUpdate + 1)]

\* An entry for a category, which no change ever deletes, is not taken for one
\* of a later record: with the time stamp of a record goes one of its categories.
StampIsTrue ==
  \A c \in Category, k \in 1..Now : stamp[c] = versions[k].at => c \in versions[k].cats

\* A handler that asks for a category learns what was so at some moment
\* between its beginning and its answer.
AnswerIsCurrent ==
  \A r \in Reader, c \in Category : pc[r] = "validate" =>
    \E k \in since[r]..Now : Valid(r, c) = (c \in versions[k].cats)

\* When nothing is under way the cache holds nothing that is out of date.
CacheIsFresh ==
  (~writing /\ \A r \in Reader : pc[r] = "idle") => entry \in {NoEntry, Stored}

\* The two, as long as handlers have run one at a time.
AnswerAloneIsCurrent == ~crowded => AnswerIsCurrent
CacheAloneIsFresh == ~crowded => CacheIsFresh
=============================================================================
