------------------------------ MODULE ManageData ------------------------------
(***************************************************************************)
(* The handlers that write records on the master: ManageDataAction of the  *)
(* tag, category, user, exter and item services and ResetPassAction, the   *)
(* reservation of names between them (TempNameCache), the unique index and *)
(* the allocation of ids (StoreTable::AddRecord, maincounter).             *)
(*                                                                         *)
(* Handlers run in the threads of a pool.  Tag and category handlers       *)
(* reserve a name and read its record afterwards, the others read first    *)
(* (service).  Reserving is two operations of the cache, each under its    *)
(* own lock: CheckAssoc and SetAssoc.                                      *)
(*                                                                         *)
(* Abstractions: records of one type; what a record holds is the set of    *)
(* requests it is made of, so that an update which was undone is seen;     *)
(* a delete only sets a flag and is an update; the rights of the caller    *)
(* and the validity of the data are a choice; StoreTrans::Commit is one    *)
(* step, its own steps being in module StoreTrans.                         *)
(***************************************************************************)
EXTENDS Naturals, Sequences, FiniteSets

CONSTANTS
  Worker,        \* threads of the pool
  Name,          \* unique names of records
  Services,      \* kinds of services whose handlers are modelled
  Replicated,    \* names whose records came from a master this node has replaced
  MaxRequest, MaxPayload   \* bounds

ASSUME ManageDataAssumption ==
  /\ Services \subseteq {"tag", "user"}
  /\ Replicated \subseteq Name /\ IsFiniteSet(Replicated)
  /\ MaxRequest \in Nat /\ MaxPayload \in Nat

Request == 1..MaxRequest
Action == {"create", "update", "upsert", "reset"}

VARIABLES
  service,     \* whose handlers they are: "tag" is tag and category, "user" user and exter
  pc,          \* pc[w]: what worker w does next
  request,     \* request[w]: the number of the request it works on
  action,      \* action[w]: its WriteTypeE, or "reset"
  payloads,    \* payloads[w]: the names its payloads are about, those left
  found,       \* found[w]: the record read for the first of them
  trans,       \* trans[w]: the records to write so far, by their ids
  inset,       \* inset[w]: the names its TempNameCache holds
  tmpcache,    \* the names in SharedTable::tmpcache
  index,       \* index[n]: the id the unique key n is mapped to, 0 if it is not there
  records,     \* records[i]: the record with id i
  maincounter, \* SharedTable::maincounter
  answer,      \* answer[r]: what became of request r
  raced        \* two requests have been between CheckAssoc and SetAssoc for one name

vars == <<service, pc, request, action, payloads, found, trans, inset, tmpcache, index,
          records, maincounter, answer, raced>>

\* Tag and category handlers reserve a name and read afterwards, the others read
\* first.  Only users and exters have ResetPassAction.
ReserveFirst == service = "tag"
HasReset == service = "user"

\* What the handlers read and write in the database.
data == <<index, records>>

Nothing == [id |-> 0, changes |-> {}]
Record == [name : Name, changes : SUBSET Request]
NoRecords == [i \in {} |-> [name |-> "", changes |-> {}]]

\* The records g with those of f put in their place.
Over(f, g) == [i \in DOMAIN f \cup DOMAIN g |-> IF i \in DOMAIN f THEN f[i] ELSE g[i]]

\* The counter of a process that starts with an empty database is 1.  What a
\* slave copies from its master does not advance it.
FirstId == 2

Init ==
  /\ service \in Services
  /\ pc = [w \in Worker |-> "idle"]
  /\ request = [w \in Worker |-> 0] /\ action = [w \in Worker |-> "reset"]
  /\ payloads = [w \in Worker |-> << >>]
  /\ found = [w \in Worker |-> Nothing] /\ trans = [w \in Worker |-> NoRecords]
  /\ inset = [w \in Worker |-> {}] /\ tmpcache = {}
  /\ \E id \in [Replicated -> FirstId..(FirstId + Cardinality(Replicated) - 1)] :
       /\ index = [n \in Name |-> IF n \in Replicated THEN id[n] ELSE 0]
       /\ \E name \in [{id[n] : n \in Replicated} -> Replicated] :
            /\ \A n \in Replicated : name[id[n]] = n
            /\ records = [i \in DOMAIN name |-> [name |-> name[i], changes |-> {}]]
  /\ maincounter = FirstId - 1
  /\ answer = << >> /\ raced = FALSE

-----------------------------------------------------------------------------
GoTo(w, step) == pc' = [pc EXCEPT ![w] = step]

\* An exception leaves the handler: nothing is committed.
Refuse(w) ==
  /\ answer' = [answer EXCEPT ![request[w]] = "refused"]
  /\ GoTo(w, "release")

FirstStep(a) == IF ReserveFirst /\ a # "reset" THEN "check" ELSE "read"

\* A request arrives.
Start(w) ==
  /\ pc[w] = "idle" /\ Len(answer) < MaxRequest
  /\ answer' = Append(answer, "none")
  /\ request' = [request EXCEPT ![w] = Len(answer) + 1]
  /\ \E a \in Action, k \in 1..MaxPayload :
       /\ a = "reset" => HasReset /\ k = 1
       /\ action' = [action EXCEPT ![w] = a]
       /\ \E names \in [1..k -> Name] : payloads' = [payloads EXCEPT ![w] = names]
       /\ GoTo(w, FirstStep(a))
  /\ trans' = [trans EXCEPT ![w] = NoRecords]
  /\ UNCHANGED <<found, inset, tmpcache, data, maincounter, raced>>

\* GetOne by the unique key.
Stored(n) ==
  IF index[n] = 0 THEN Nothing
  ELSE [id |-> index[n], changes |-> records[index[n]].changes]

\* The record is there or not as the action needs it.
Fits(w, record) ==
  /\ record.id # 0 => action[w] # "create"
  /\ record.id = 0 => action[w] \notin {"update", "reset"}

\* Mutant of Read: what the record holds is not read.
ReadIdOnly(w) ==
  LET n == Head(payloads[w]) IN
  /\ pc[w] = "read"
  /\ found' = [found EXCEPT ![w] = [Stored(n) EXCEPT !.changes = {}]]
  /\ \/ /\ Fits(w, Stored(n))
        /\ GoTo(w, IF ReserveFirst \/ action[w] = "reset" THEN "add" ELSE "check")
        /\ UNCHANGED answer
     \/ Refuse(w)
  /\ UNCHANGED <<request, action, payloads, trans, inset, tmpcache, data, maincounter, raced>>

\* The record is read (PrepareData, or GetOne of the handler), and the request
\* may be refused, for that or for the rights of its caller.
Read(w) ==
  LET n == Head(payloads[w]) IN
  /\ pc[w] = "read"
  /\ found' = [found EXCEPT ![w] = Stored(n)]
  /\ \/ /\ Fits(w, Stored(n))
        /\ GoTo(w, IF ReserveFirst \/ action[w] = "reset" THEN "add" ELSE "check")
        /\ UNCHANGED answer
     \/ Refuse(w)
  /\ UNCHANGED <<request, action, payloads, trans, inset, tmpcache, data, maincounter, raced>>

\* No other request has found n free and is about to reserve it.
Alone(n) == \A v \in Worker : pc[v] = "claim" => Head(payloads[v]) # n

\* Mutant of CheckName: only what the request has reserved itself is looked at.
CheckNameLocally(w) ==
  LET n == Head(payloads[w]) IN
  /\ pc[w] = "check"
  /\ \/ /\ n \notin inset[w]
        /\ raced' = (raced \/ ~Alone(n))
        /\ GoTo(w, "claim") /\ UNCHANGED answer
     \/ /\ n \in inset[w]
        /\ Refuse(w) /\ UNCHANGED raced
  /\ UNCHANGED <<request, action, payloads, found, trans, inset, tmpcache, data, maincounter>>

\* CheckLocal, and the first half of ReserveName: CheckAssoc.
CheckName(w) ==
  LET n == Head(payloads[w]) IN
  /\ pc[w] = "check"
  /\ \/ /\ n \notin inset[w] /\ n \notin tmpcache
        /\ raced' = (raced \/ ~Alone(n))
        /\ GoTo(w, "claim") /\ UNCHANGED answer
     \/ /\ n \in inset[w] \/ n \in tmpcache
        /\ Refuse(w) /\ UNCHANGED raced
  /\ UNCHANGED <<request, action, payloads, found, trans, inset, tmpcache, data, maincounter>>

\* The second half of ReserveName: SetAssoc.
Claim(w) ==
  LET n == Head(payloads[w]) IN
  /\ pc[w] = "claim"
  /\ tmpcache' = tmpcache \cup {n}
  /\ inset' = [inset EXCEPT ![w] = @ \cup {n}]
  /\ GoTo(w, IF ReserveFirst THEN "read" ELSE "add")
  /\ UNCHANGED <<request, action, payloads, found, trans, data, maincounter, answer, raced>>

\* The id of the record: a new one comes from GetNext.
IdFor(w) == IF found[w].id = 0 THEN maincounter + 1 ELSE found[w].id

\* AddRecord refuses a new record with an id that is taken, and a name whose
\* unique key leads to another record.
Clash(w) ==
  \/ found[w].id = 0 /\ IdFor(w) \in DOMAIN records
  \/ index[Head(payloads[w])] \notin {0, IdFor(w)}

\* The record with what the request changes.
Changed(w) ==
  [i \in {IdFor(w)} |-> [name |-> Head(payloads[w]), changes |-> found[w].changes \cup {request[w]}]]

\* Puts the records new in their places.  The unique key is written with a
\* record that was not there before.
Write(new) ==
  /\ records' = Over(new, records)
  /\ index' = [n \in Name |->
       LET ids == {i \in DOMAIN new \ DOMAIN records : new[i].name = n}
       IN IF ids = {} THEN index[n] ELSE CHOOSE i \in ids : TRUE]

\* The next payload, or the end of the loop.
NextPayload(w) ==
  /\ payloads' = [payloads EXCEPT ![w] = Tail(@)]
  /\ GoTo(w, IF Len(payloads[w]) = 1 THEN "commit" ELSE FirstStep(action[w]))
  /\ UNCHANGED answer

\* Mutant of AddRecord: every payload is written in the loop.
AddRecordAtOnce(w) ==
  /\ pc[w] = "add"
  /\ maincounter' = IF found[w].id = 0 THEN maincounter + 1 ELSE maincounter
  /\ \/ /\ Clash(w)
        /\ Refuse(w)
        /\ UNCHANGED <<data, payloads>>
     \/ /\ ~Clash(w)
        /\ Write(Changed(w))
        /\ NextPayload(w)
  /\ UNCHANGED <<request, action, found, trans, inset, tmpcache, raced>>

\* Mutant of AddRecord: the counter is read and not advanced.
AddRecordNoNext(w) ==
  /\ pc[w] = "add"
  /\ \/ /\ Clash(w)
        /\ Refuse(w)
        /\ UNCHANGED <<trans, payloads>>
     \/ /\ ~Clash(w)
        /\ trans' = [trans EXCEPT ![w] = Over(Changed(w), @)]
        /\ NextPayload(w)
  /\ UNCHANGED <<request, action, found, inset, tmpcache, data, maincounter, raced>>

\* GetNext for a record that was not found, and AddRecord.
AddRecord(w) ==
  /\ pc[w] = "add"
  /\ maincounter' = IF found[w].id = 0 THEN maincounter + 1 ELSE maincounter
  /\ \/ /\ Clash(w)
        /\ Refuse(w)
        /\ UNCHANGED <<trans, payloads>>
     \/ /\ ~Clash(w)
        /\ trans' = [trans EXCEPT ![w] = Over(Changed(w), @)]
        /\ NextPayload(w)
  /\ UNCHANGED <<request, action, found, inset, tmpcache, data, raced>>

\* StoreTrans::Commit writes all of it.
Commit(w) ==
  /\ pc[w] = "commit"
  /\ Write(trans[w])
  /\ answer' = [answer EXCEPT ![request[w]] = "done"]
  /\ GoTo(w, "release")
  /\ UNCHANGED <<request, action, payloads, found, trans, inset, tmpcache, maincounter, raced>>

\* Mutant of Release: a handler that was left by an exception frees nothing.
ReleaseIfDone(w) ==
  /\ pc[w] = "release"
  /\ IF answer[request[w]] = "done" THEN tmpcache' = tmpcache \ inset[w] ELSE UNCHANGED tmpcache
  /\ inset' = [inset EXCEPT ![w] = {}]
  /\ GoTo(w, "idle")
  /\ UNCHANGED <<request, action, payloads, found, trans, data, maincounter, answer, raced>>

\* The destructor of TempNameCache: DelAssoc for one name after the other, be
\* the name in tmpcache by this request or by another.
Release(w) ==
  /\ pc[w] = "release"
  /\ \/ \E n \in inset[w] :
          /\ tmpcache' = tmpcache \ {n}
          /\ inset' = [inset EXCEPT ![w] = @ \ {n}]
          /\ UNCHANGED pc
     \/ /\ inset[w] = {}
        /\ GoTo(w, "idle")
        /\ UNCHANGED <<tmpcache, inset>>
  /\ UNCHANGED <<request, action, payloads, found, trans, data, maincounter, answer, raced>>

Step(w) == Read(w) \/ CheckName(w) \/ Claim(w) \/ AddRecord(w) \/ Commit(w) \/ Release(w)

Next == (\E w \in Worker : Start(w) \/ Step(w)) /\ UNCHANGED service

Spec == Init /\ [][Next]_vars

-----------------------------------------------------------------------------
\* The kinds of values the state holds.
TypeOK ==
  /\ service \in Services
  /\ pc \in [Worker -> {"idle", "check", "claim", "read", "add", "commit", "release"}]
  /\ action \in [Worker -> Action]
  /\ answer \in Seq({"none", "done", "refused"}) /\ Len(answer) <= MaxRequest
  /\ request \in [Worker -> 0..Len(answer)]
  /\ payloads \in [Worker -> Seq(Name)]
  /\ found \in [Worker -> [id : Nat, changes : SUBSET Request]]
  /\ inset \in [Worker -> SUBSET Name] /\ tmpcache \subseteq Name
  /\ maincounter \in Nat /\ raced \in BOOLEAN
  /\ index \in [Name -> Nat]
  /\ DOMAIN records \subseteq Nat \ (0..(FirstId - 1))
  /\ \A i \in DOMAIN records : records[i] \in Record
  /\ \A w \in Worker : /\ DOMAIN trans[w] \subseteq Nat \ (0..(FirstId - 1))
                       /\ \A i \in DOMAIN trans[w] : trans[w][i] \in Record

\* No name stays reserved without a request that holds it: such a name could
\* not be written again until the process is started anew.
ReservedIsHeld == tmpcache \subseteq UNION {inset[w] : w \in Worker}

\* A unique key leads to a record, and to one of that name.
IndexIsSound ==
  \A n \in Name : index[n] # 0 => index[n] \in DOMAIN records /\ records[index[n]].name = n

\* The id a new record is given is not that of another record, so that it is not
\* refused for that.
NewIdIsFree ==
  \A w \in Worker : (pc[w] = "add" /\ found[w].id = 0) =>
    IdFor(w) \notin DOMAIN records \cup UNION {DOMAIN trans[v] : v \in Worker}

\* A request that was refused, if only for its last payload, changed nothing.
RefusedChangesNothing ==
  \A r \in 1..Len(answer) : answer[r] = "refused" =>
    \A i \in DOMAIN records : r \notin records[i].changes

\* A request holds the names it has reserved for itself, unless two requests
\* have ever been between CheckAssoc and SetAssoc for one name.
HeldByOne ==
  \A v, w \in Worker : v # w /\ ~raced => inset[v] \cap inset[w] = {}

\* There are not two records of one name.  ManageDataFails.cfg finds two.
NamesAreUnique ==
  \A i, j \in DOMAIN records : records[i].name = records[j].name => i = j

\* There are not two records of one name as long as no two requests have been
\* between CheckAssoc and SetAssoc for one name: that window is the only way.
OneRecordPerName == raced \/ NamesAreUnique

\* No record loses what a request that was done has changed.
\* ManageDataFails.cfg finds one that does, without that window, where the record
\* is read before its name is reserved.
NoLostUpdate ==
  [][raced \/ \A i \in DOMAIN records : records[i].changes \subseteq records'[i].changes]_vars

\* The record that can be found by each name, as RecordStore sees it.
StoreOf == INSTANCE RecordStore WITH changes <- [n \in Name |-> Stored(n).changes]

\* The handlers that reserve first (tag and category) do what RecordStore promises, as long as no
\* two requests have been between CheckAssoc and SetAssoc for one name.
ImplementsRecordStore ==
  StoreOf!Init /\ [][raced \/ ~ReserveFirst \/ StoreOf!Next]_[n \in Name |-> Stored(n).changes]
=============================================================================
