--------------------------- MODULE ManageDataProofs ---------------------------
(***************************************************************************)
(* Proofs about module ManageData, for any number of threads, names,       *)
(* requests and payloads.                                                  *)
(*                                                                         *)
(* ReserveInv: no reservation is left behind, and two requests hold one    *)
(* name only after both have been between CheckAssoc and SetAssoc for it.  *)
(* DataInv: what a request is about to write agrees with the database by   *)
(* name, or has an id that no other batch has, so that the unique index is *)
(* sound.  ChangesInv: records are made of requests that were done.        *)
(* UniqueInv: who holds a name is alone in making a record of it.          *)
(* StoreInv: who reserves first writes what is current, so that a commit   *)
(* is a step of RecordStore.                                               *)
(***************************************************************************)
EXTENDS ManageData, SequenceTheorems, FiniteSetTheorems, TLAPS

Phase == {"idle", "check", "claim", "read", "add", "commit", "release"}

\* What the reservations need of the kinds of values.
Shape ==
  /\ pc \in [Worker -> Phase]
  /\ payloads \in [Worker -> Seq(Name)]
  /\ inset \in [Worker -> SUBSET Name]
  /\ raced \in BOOLEAN
  /\ \A w \in Worker : pc[w] \in {"check", "claim", "read", "add"} => payloads[w] # << >>

\* The reservations agree with tmpcache.
HeldIsReserved == \A w \in Worker : inset[w] \subseteq tmpcache

\* A name that a request is about to reserve is free, and nobody else is about
\* to reserve it.
ClaimedIsFree ==
  /\ \A w \in Worker : pc[w] = "claim" => Head(payloads[w]) \notin tmpcache
  /\ \A v, w \in Worker :
       (v # w /\ pc[v] = "claim" /\ pc[w] = "claim") => Head(payloads[v]) # Head(payloads[w])

ReserveInv ==
  /\ Shape
  /\ ReservedIsHeld
  /\ ~raced => HeldByOne /\ HeldIsReserved /\ ClaimedIsFree

-----------------------------------------------------------------------------
\* The loop over the payloads goes on while some are left.
LEMMA HeadAndTail ==
  ASSUME NEW s \in Seq(Name), s # << >>
  PROVE  /\ Head(s) \in Name /\ Tail(s) \in Seq(Name)
         /\ Len(s) # 1 => Tail(s) # << >>
  <1>1. Len(s) \in Nat /\ Len(s) # 0 /\ Len(Tail(s)) = Len(s) - 1
    BY EmptySeq, HeadTailProperties, LenProperties
  <1>2. Head(s) \in Name /\ Tail(s) \in Seq(Name)
    BY HeadTailProperties
  <1>3. Len(s) # 1 => Len(Tail(s)) # 0
    BY <1>1
  <1>4. Tail(s) = << >> => Len(Tail(s)) = 0
    BY <1>2, EmptySeq
  <1> QED
    BY <1>2, <1>3, <1>4

\* No name is reserved when the process starts.
LEMMA InitReserveInv == Init => ReserveInv
  <1> SUFFICES ASSUME Init PROVE ReserveInv
    OBVIOUS
  <1>1. << >> \in Seq(Name)
    BY EmptySeq
  <1>2. Shape
    BY <1>1 DEF Init, Shape, Phase
  <1> QED
    BY <1>2 DEF Init, ReserveInv, ReservedIsHeld, HeldByOne, HeldIsReserved, ClaimedIsFree

\* A step that leaves the reservations alone and does not lead to "claim".
LEMMA NoReservation ==
  ASSUME ReserveInv, Shape', NEW w \in Worker,
         UNCHANGED <<inset, tmpcache, raced>>,
         pc' = [pc EXCEPT ![w] = pc'[w]], pc'[w] # "claim",
         \A v \in Worker \ {w} : payloads'[v] = payloads[v]
  PROVE  ReserveInv'
  <1>1. \A v \in Worker : pc'[v] = "claim" => v # w /\ pc[v] = "claim" /\ payloads'[v] = payloads[v]
    BY DEF ReserveInv, Shape
  <1> QED
    BY <1>1 DEF ReserveInv, ReservedIsHeld, HeldByOne, HeldIsReserved, ClaimedIsFree

\* A payload begins with the reservation, if that comes first, or with the read.
LEMMA FirstStepIsPhase ==
  \A a : /\ FirstStep(a) \in {"check", "read"}
         /\ FirstStep(a) = "check" => ReserveFirst
  BY DEF FirstStep

\* ReserveInv is inductive.
LEMMA NextReserveInv == ReserveInv /\ [Next]_vars => ReserveInv'
  <1> SUFFICES ASSUME ReserveInv, [Next]_vars PROVE ReserveInv'
    OBVIOUS
  <1>0. Shape
    BY DEF ReserveInv
  <1>1. ASSUME NEW w \in Worker, Start(w)
        PROVE  ReserveInv'
    <2>0. PICK a \in Action, k \in 1..MaxPayload :
            /\ \E names \in [1..k -> Name] : payloads' = [payloads EXCEPT ![w] = names]
            /\ pc' = [pc EXCEPT ![w] = FirstStep(a)]
      BY <1>1 DEF Start, GoTo
    <2>1. PICK names \in [1..k -> Name] : payloads' = [payloads EXCEPT ![w] = names]
      BY <2>0
    <2>2. names \in Seq(Name) /\ names # << >>
      <3>1. k \in Nat /\ k # 0
        BY ManageDataAssumption
      <3>2. names \in Seq(Name)
        BY <3>1, SeqDef
      <3>3. Len(names) = k
        BY <3>1, <3>2, LenProperties
      <3> QED
        BY <3>1, <3>2, <3>3, EmptySeq
    <2>3. Shape'
      BY <1>0, <1>1, <2>0, <2>1, <2>2, FirstStepIsPhase DEF Start, Shape, Phase
    <2> QED
      BY <1>0, <1>1, <2>0, <2>1, <2>3, FirstStepIsPhase, NoReservation DEF Start, Shape
  <1>2. ASSUME NEW w \in Worker, Read(w)
        PROVE  ReserveInv'
    <2>1. /\ pc[w] = "read" /\ UNCHANGED <<inset, tmpcache, raced, payloads>>
          /\ \E s \in {"add", "check", "release"} : pc' = [pc EXCEPT ![w] = s]
      BY <1>2 DEF Read, Refuse, GoTo
    <2>2. Shape'
      BY <1>0, <2>1 DEF Shape, Phase
    <2> QED
      BY <1>0, <2>1, <2>2, NoReservation DEF Shape
  \* The test: with nobody else at "claim" for the name, ClaimedIsFree goes on.
  <1>3. ASSUME NEW w \in Worker, CheckName(w)
        PROVE  ReserveInv'
    <2>1. CASE pc'[w] = "claim"
      <3>1. /\ pc[w] = "check" /\ pc' = [pc EXCEPT ![w] = "claim"]
            /\ Head(payloads[w]) \notin tmpcache
            /\ raced' = (raced \/ ~Alone(Head(payloads[w])))
            /\ UNCHANGED <<inset, tmpcache, payloads>>
        BY <1>0, <1>3, <2>1 DEF CheckName, Refuse, GoTo, Shape
      <3>2. Shape'
        BY <1>0, <3>1 DEF Shape, Phase
      <3>3. ReservedIsHeld'
        BY <3>1 DEF ReserveInv, ReservedIsHeld
      <3>4. ASSUME ~raced' PROVE (HeldByOne /\ HeldIsReserved /\ ClaimedIsFree)'
        <4>1. ~raced /\ \A v \in Worker : pc[v] = "claim" => Head(payloads[v]) # Head(payloads[w])
          BY <1>0, <3>1, <3>4 DEF Alone, Shape
        <4>2. \A v \in Worker \ {w} : pc'[v] = pc[v]
          BY <1>0, <3>1 DEF Shape
        <4> QED
          BY <3>1, <4>1, <4>2 DEF ReserveInv, HeldByOne, HeldIsReserved, ClaimedIsFree
      <3> QED
        BY <3>2, <3>3, <3>4 DEF ReserveInv
    <2>2. CASE pc'[w] # "claim"
      <3>1. /\ pc[w] = "check" /\ pc' = [pc EXCEPT ![w] = "release"]
            /\ UNCHANGED <<inset, tmpcache, raced, payloads>>
        BY <1>0, <1>3, <2>2 DEF CheckName, Refuse, GoTo, Shape
      <3>2. Shape'
        BY <1>0, <3>1 DEF Shape, Phase
      <3> QED
        BY <1>0, <3>1, <3>2, NoReservation DEF Shape
    <2> QED
      BY <2>1, <2>2
  \* The setting: the name was free, so no other request holds it.
  <1>4. ASSUME NEW w \in Worker, Claim(w)
        PROVE  ReserveInv'
    <2> DEFINE n == Head(payloads[w])
    <2>1. /\ pc[w] = "claim" /\ tmpcache' = tmpcache \cup {n}
          /\ inset' = [inset EXCEPT ![w] = @ \cup {n}]
          /\ UNCHANGED <<raced, payloads>>
          /\ \E s \in {"add", "read"} : pc' = [pc EXCEPT ![w] = s]
      BY <1>4 DEF Claim, GoTo
    <2>2. n \in Name
      BY <1>0, <2>1, HeadAndTail DEF Shape
    <2> HIDE DEF n
    <2>3. Shape'
      BY <1>0, <2>1, <2>2 DEF Shape, Phase
    <2>4. \A v \in Worker : inset'[v] = IF v = w THEN inset[w] \cup {n} ELSE inset[v]
      BY <1>0, <2>1 DEF Shape
    <2>5. ReservedIsHeld'
      BY <2>1, <2>4 DEF ReserveInv, ReservedIsHeld
    <2>6. ASSUME ~raced PROVE (HeldByOne /\ HeldIsReserved /\ ClaimedIsFree)'
      <3>1. n \notin tmpcache /\ HeldByOne /\ HeldIsReserved /\ ClaimedIsFree
        BY <2>1, <2>6 DEF ReserveInv, ClaimedIsFree, n
      <3>2. HeldByOne' /\ HeldIsReserved'
        BY <2>1, <2>4, <2>6, <3>1 DEF HeldByOne, HeldIsReserved
      <3>3. \A v \in Worker : pc'[v] = "claim" => v # w /\ pc[v] = "claim"
        BY <1>0, <2>1 DEF Shape
      <3>4. ClaimedIsFree'
        BY <2>1, <3>1, <3>3 DEF ClaimedIsFree, n
      <3> QED
        BY <3>2, <3>4
    <2> QED
      BY <2>1, <2>3, <2>5, <2>6 DEF ReserveInv
  <1>5. ASSUME NEW w \in Worker, AddRecord(w)
        PROVE  ReserveInv'
    <2>1. pc[w] = "add" /\ payloads[w] \in Seq(Name) /\ payloads[w] # << >>
      BY <1>0, <1>5 DEF AddRecord, Shape
    <2>2. UNCHANGED <<inset, tmpcache, raced>>
      BY <1>5 DEF AddRecord
    <2>3. CASE Refuse(w) /\ UNCHANGED payloads
      <3>1. Shape'
        BY <1>0, <2>2, <2>3 DEF Refuse, GoTo, Shape, Phase
      <3> QED
        BY <1>0, <2>2, <2>3, <3>1, NoReservation DEF Refuse, GoTo, Shape
    <2>4. CASE NextPayload(w)
      <3>1. /\ payloads' = [payloads EXCEPT ![w] = Tail(payloads[w])]
            /\ pc' = [pc EXCEPT ![w] = IF Len(payloads[w]) = 1 THEN "commit"
                                       ELSE FirstStep(action[w])]
        BY <1>0, <2>4 DEF NextPayload, GoTo, Shape
      <3>2. Shape'
        BY <1>0, <2>1, <2>2, <3>1, HeadAndTail, FirstStepIsPhase DEF Shape, Phase
      <3> QED
        BY <1>0, <2>2, <3>1, <3>2, NoReservation, FirstStepIsPhase DEF Shape
    <2> QED
      BY <1>5, <2>3, <2>4 DEF AddRecord
  <1>6. ASSUME NEW w \in Worker, Commit(w)
        PROVE  ReserveInv'
    <2>1. /\ pc' = [pc EXCEPT ![w] = "release"]
          /\ UNCHANGED <<inset, tmpcache, raced, payloads>>
      BY <1>6 DEF Commit, GoTo
    <2>2. Shape'
      BY <1>0, <2>1 DEF Shape, Phase
    <2> QED
      BY <1>0, <2>1, <2>2, NoReservation DEF Shape
  \* The destructor: no other request holds the name that is freed.
  <1>7. ASSUME NEW w \in Worker, Release(w)
        PROVE  ReserveInv'
    <2>1. pc[w] = "release" /\ UNCHANGED <<raced, payloads>>
      BY <1>7 DEF Release
    <2>2. ASSUME NEW n \in inset[w], tmpcache' = tmpcache \ {n}, UNCHANGED pc,
                 inset' = [inset EXCEPT ![w] = @ \ {n}]
          PROVE  ReserveInv'
      <3>1. \A v \in Worker : inset'[v] = IF v = w THEN inset[w] \ {n} ELSE inset[v]
        BY <1>0, <2>2 DEF Shape
      <3>2. Shape'
        BY <1>0, <2>1, <2>2 DEF Shape
      <3>3. ReservedIsHeld'
        BY <2>2, <3>1 DEF ReserveInv, ReservedIsHeld
      <3>4. ~raced => (HeldByOne /\ HeldIsReserved /\ ClaimedIsFree)'
        BY <2>1, <2>2, <3>1 DEF ReserveInv, HeldByOne, HeldIsReserved, ClaimedIsFree
      <3> QED
        BY <2>1, <3>2, <3>3, <3>4 DEF ReserveInv
    <2>3. ASSUME pc' = [pc EXCEPT ![w] = "idle"], UNCHANGED <<tmpcache, inset>>
          PROVE  ReserveInv'
      <3>1. Shape'
        BY <1>0, <2>1, <2>3 DEF Shape, Phase
      <3> QED
        BY <1>0, <2>1, <2>3, <3>1, NoReservation DEF Shape
    <2> QED
      BY <1>7, <2>2, <2>3 DEF Release, GoTo
  <1>8. CASE UNCHANGED vars
    BY <1>8 DEF vars, ReserveInv, Shape, ReservedIsHeld, HeldByOne, HeldIsReserved, ClaimedIsFree
  <1> QED
    BY <1>1, <1>2, <1>3, <1>4, <1>5, <1>6, <1>7, <1>8 DEF Next, Step

\* ReserveInv holds throughout.
LEMMA SpecReserveInv == Spec => []ReserveInv
  BY InitReserveInv, NextReserveInv, PTL DEF Spec

\* A handler that ends, done or left by an exception, leaves no name reserved
\* (the destructor of TempNameCache), whoever else had reserved it.
THEOREM SpecReservedIsHeld == Spec => []ReservedIsHeld
  BY SpecReserveInv, PTL DEF ReserveInv

\* Two requests hold one name only if two have been between CheckAssoc and
\* SetAssoc for one name: there is no other way around the reservation.
THEOREM SpecHeldByOne == Spec => []HeldByOne
  <1>1. ReserveInv => HeldByOne
    BY DEF ReserveInv, HeldByOne
  <1> QED
    BY <1>1, SpecReserveInv, PTL

-----------------------------------------------------------------------------
\* A handler that has a request has payloads left until it commits.
HasWork ==
  \A w \in Worker : /\ pc[w] # "idle" => request[w] # 0
                    /\ pc[w] \in {"check", "claim", "read", "add"} => payloads[w] # << >>

\* What a handler has read of the record it is about to change is a record of that name.
FoundIsRecord ==
  \A w \in Worker :
    (found[w].id # 0 /\ (pc[w] = "add" \/ (~ReserveFirst /\ pc[w] \in {"check", "claim"}))) =>
      found[w].id \in DOMAIN records /\ records[found[w].id].name = Head(payloads[w])

\* What a handler is about to write is a record of the same name, or one with an id
\* that it alone has been given.
TransAgrees ==
  \A w \in Worker : \A i \in DOMAIN trans[w] :
    /\ i \in DOMAIN records => trans[w][i].name = records[i].name
    /\ i \notin DOMAIN records => i <= maincounter /\ \A v \in Worker \ {w} : i \notin DOMAIN trans[v]

DataInv ==
  /\ TypeOK /\ trans = [w \in Worker |-> trans[w]] /\ FirstId - 1 <= maincounter
  /\ HasWork /\ IndexIsSound /\ FoundIsRecord /\ TransAgrees

\* The new records of a handler.
Unwritten(w) == DOMAIN trans[w] \ DOMAIN records

-----------------------------------------------------------------------------
\* What was copied from the master that was replaced is sound.
LEMMA InitDataInv == Init => DataInv
  <1> SUFFICES ASSUME Init PROVE DataInv
    OBVIOUS
  <1> DEFINE last == FirstId + Cardinality(Replicated) - 1
  <1>1. /\ service \in Services /\ pc = [w \in Worker |-> "idle"]
        /\ request = [w \in Worker |-> 0] /\ action = [w \in Worker |-> "reset"]
        /\ payloads = [w \in Worker |-> << >>] /\ found = [w \in Worker |-> Nothing]
        /\ trans = [w \in Worker |-> NoRecords] /\ inset = [w \in Worker |-> {}]
        /\ tmpcache = {} /\ maincounter = FirstId - 1 /\ answer = << >> /\ raced = FALSE
    BY DEF Init
  <1>2. PICK id \in [Replicated -> FirstId..last] :
          /\ index = [n \in Name |-> IF n \in Replicated THEN id[n] ELSE 0]
          /\ \E name \in [{id[n] : n \in Replicated} -> Replicated] :
               /\ \A n \in Replicated : name[id[n]] = n
               /\ records = [i \in DOMAIN name |-> [name |-> name[i], changes |-> {}]]
    BY DEF Init
  <1>3. PICK name \in [{id[n] : n \in Replicated} -> Replicated] :
          /\ \A n \in Replicated : name[id[n]] = n
          /\ records = [i \in DOMAIN name |-> [name |-> name[i], changes |-> {}]]
    BY <1>2
  <1>4. last \in Nat
    BY ManageDataAssumption, FS_CardinalityType DEF FirstId
  <1> HIDE DEF last
  <1>5. \A i \in FirstId..last : i \in Nat \ (0..(FirstId - 1))
    BY <1>4 DEF FirstId
  <1>6. DOMAIN records = {id[n] : n \in Replicated} /\ \A n \in Replicated : id[n] \in FirstId..last
    BY <1>2, <1>3
  <1>7. << >> \in Seq(Name) /\ << >> \in Seq({"none", "done", "refused"}) /\ Len(<< >>) = 0
    BY EmptySeq
  <1>8. TypeOK
    <2>1. index \in [Name -> Nat]
      BY <1>2, <1>5, <1>6
    <2>2. DOMAIN records \subseteq Nat \ (0..(FirstId - 1)) /\ \A i \in DOMAIN records : records[i] \in Record
      BY <1>3, <1>5, <1>6, ManageDataAssumption DEF Record
    <2>3. DOMAIN NoRecords = {}
      BY DEF NoRecords
    <2>4. found \in [Worker -> [id : Nat, changes : SUBSET Request]]
      BY <1>1 DEF Nothing
    <2>5. /\ answer \in Seq({"none", "done", "refused"}) /\ Len(answer) <= MaxRequest
          /\ request \in [Worker -> 0..Len(answer)]
      BY <1>1, <1>7, ManageDataAssumption
    <2>6. maincounter = 1
      BY <1>1 DEF FirstId
    <2>9. raced \in BOOLEAN /\ tmpcache \subseteq Name
      BY <1>1
    <2>7. \A w \in Worker : DOMAIN trans[w] = {}
      BY <1>1, <2>3
    <2>8. /\ pc \in [Worker -> {"idle", "check", "claim", "read", "add", "commit", "release"}]
          /\ action \in [Worker -> Action] /\ payloads \in [Worker -> Seq(Name)]
          /\ inset \in [Worker -> SUBSET Name]
      BY <1>1, <1>7 DEF Action
    <2> QED
      BY <1>1, <2>1, <2>2, <2>4, <2>5, <2>6, <2>7, <2>8, <2>9 DEF TypeOK
  <1>9. IndexIsSound
    BY <1>2, <1>3, <1>6 DEF IndexIsSound
  <1> QED
    BY <1>1, <1>8, <1>9 DEF DataInv, HasWork, FoundIsRecord, TransAgrees, NoRecords, Nothing, FirstId

\* GetOne returns a record of the name, or nothing.
LEMMA StoredIsRecord ==
  ASSUME DataInv, NEW n \in Name
  PROVE  /\ Stored(n) \in [id : Nat, changes : SUBSET Request]
         /\ Stored(n).id # 0 => /\ Stored(n).id \in DOMAIN records
                                /\ records[Stored(n).id].name = n
                                /\ Stored(n).changes = records[Stored(n).id].changes
         /\ Stored(n).id = 0 => Stored(n).changes = {}
  BY DEF DataInv, TypeOK, IndexIsSound, Stored, Nothing, Record

\* A handler that goes on without touching the records.
LEMMA StillDataInv ==
  ASSUME DataInv, TypeOK', HasWork', FoundIsRecord', UNCHANGED <<data, trans, maincounter>>
  PROVE  DataInv'
  BY DEF DataInv, IndexIsSound, TransAgrees, data

\* A new request has nothing to write yet.
LEMMA StartDataInv ==
  ASSUME DataInv, NEW w \in Worker, Start(w), UNCHANGED service
  PROVE  DataInv'
  <1>1. PICK a \in Action, k \in 1..MaxPayload :
          /\ action' = [action EXCEPT ![w] = a]
          /\ \E names \in [1..k -> Name] : payloads' = [payloads EXCEPT ![w] = names]
          /\ pc' = [pc EXCEPT ![w] = FirstStep(a)]
    BY DEF Start, GoTo
  <1>2. PICK names \in [1..k -> Name] : payloads' = [payloads EXCEPT ![w] = names]
    BY <1>1
  <1>3. names \in Seq(Name) /\ names # << >>
    <2>1. k \in Nat /\ k # 0
      BY ManageDataAssumption
    <2>2. names \in Seq(Name)
      BY <2>1, SeqDef
    <2>3. Len(names) = k
      BY <2>1, <2>2, LenProperties
    <2> QED
      BY <2>1, <2>2, <2>3, EmptySeq
  <1>4. /\ Len(answer) \in Nat /\ Len(answer) < MaxRequest
        /\ answer' = Append(answer, "none") /\ request' = [request EXCEPT ![w] = Len(answer) + 1]
        /\ trans' = [trans EXCEPT ![w] = NoRecords]
        /\ UNCHANGED <<found, inset, tmpcache, index, records, maincounter, raced>>
        /\ TypeOK /\ DOMAIN trans = Worker /\ HasWork /\ FoundIsRecord
    BY LenProperties DEF Start, data, DataInv, TypeOK
  <1>5. answer' \in Seq({"none", "done", "refused"}) /\ Len(answer') = Len(answer) + 1
    BY <1>4, AppendProperties DEF TypeOK
  <1>6. \A v \in Worker : DOMAIN trans'[v] = IF v = w THEN {} ELSE DOMAIN trans[v]
    BY <1>4 DEF NoRecords
  <1>7. \A v \in Worker \ {w} : /\ trans'[v] = trans[v] /\ pc'[v] = pc[v]
                                 /\ payloads'[v] = payloads[v] /\ request'[v] = request[v]
    BY <1>1, <1>2, <1>4 DEF TypeOK
  <1>8. pc'[w] = FirstStep(a) /\ payloads'[w] = names /\ request'[w] = Len(answer) + 1
    BY <1>1, <1>2, <1>4 DEF TypeOK
  <1>9. TypeOK'
    <2>1. request' \in [Worker -> 0..Len(answer')]
      BY <1>4, <1>5 DEF TypeOK
    <2>2. Len(answer') <= MaxRequest
      BY <1>4, <1>5, ManageDataAssumption
    <2>3. pc' \in [Worker -> {"idle", "check", "claim", "read", "add", "commit", "release"}]
      BY <1>1, <1>4, FirstStepIsPhase DEF TypeOK
    <2>4. payloads' \in [Worker -> Seq(Name)] /\ action' \in [Worker -> Action]
      BY <1>1, <1>2, <1>3, <1>4 DEF TypeOK
    <2>5. \A v \in Worker : /\ DOMAIN trans'[v] \subseteq Nat \ (0..(FirstId - 1))
                            /\ \A i \in DOMAIN trans'[v] : trans'[v][i] \in Record
      BY <1>4, <1>6, <1>7 DEF TypeOK
    <2> QED
      BY <1>4, <1>5, <2>1, <2>2, <2>3, <2>4, <2>5 DEF TypeOK
  <1>10. HasWork'
    <2>1. Len(answer) + 1 # 0
      BY <1>4
    <2> QED
      BY <1>3, <1>4, <1>7, <1>8, <2>1 DEF HasWork
  <1>11. FoundIsRecord'
    <2>1. pc'[w] = "read" \/ ReserveFirst'
      BY <1>8, FirstStepIsPhase DEF ReserveFirst
    <2>2. pc'[w] \in {"check", "read"}
      BY <1>8, FirstStepIsPhase
    <2> QED
      BY <1>4, <1>7, <2>1, <2>2 DEF FoundIsRecord, ReserveFirst
  <1>12. TransAgrees'
    BY <1>4, <1>6, <1>7 DEF TransAgrees, DataInv
  <1> QED
    BY <1>4, <1>9, <1>10, <1>11, <1>12 DEF DataInv, IndexIsSound

\* Refuse, when nothing but the answer and the phase is changed.
LEMMA RefuseTyped ==
  ASSUME TypeOK, HasWork, NEW w \in Worker, pc[w] # "idle", Refuse(w)
  PROVE  /\ answer' \in Seq({"none", "done", "refused"}) /\ Len(answer') = Len(answer)
         /\ pc' = [pc EXCEPT ![w] = "release"]
         /\ \A r \in 1..Len(answer) : answer'[r] = IF r = request[w] THEN "refused" ELSE answer[r]
  <1>1. request[w] \in 1..Len(answer)
    BY LenProperties DEF TypeOK, HasWork
  <1> QED
    BY <1>1, ExceptSeq DEF Refuse, GoTo, TypeOK

\* What is read is a record of the name, and nobody takes it away before it is used.
LEMMA ReadDataInv ==
  ASSUME DataInv, NEW w \in Worker, Read(w), UNCHANGED service
  PROVE  DataInv'
  <1> DEFINE n == Head(payloads[w])
  <1>1. TypeOK /\ HasWork /\ FoundIsRecord /\ pc[w] = "read" /\ payloads[w] # << >>
    BY DEF DataInv, HasWork, Read
  <1>2. n \in Name
    BY <1>1, HeadAndTail DEF TypeOK
  <1>3. /\ found' = [found EXCEPT ![w] = Stored(n)]
        /\ UNCHANGED <<request, action, payloads, trans, inset, tmpcache, data, maincounter, raced>>
        /\ UNCHANGED <<index, records>>
    BY DEF Read, data
  <1>4. \E s \in {"add", "check", "release"} : pc' = [pc EXCEPT ![w] = s]
    BY DEF Read, Refuse, GoTo
  <1>5. answer' \in Seq({"none", "done", "refused"}) /\ Len(answer') = Len(answer)
    BY <1>1, RefuseTyped DEF Read, TypeOK
  <1>10. n = Head(payloads[w])
    OBVIOUS
  <1> HIDE DEF n
  <1>6. TypeOK'
    BY <1>1, <1>2, <1>3, <1>4, <1>5, StoredIsRecord DEF TypeOK
  <1>7. HasWork'
    BY <1>1, <1>3, <1>4 DEF HasWork, TypeOK
  <1>8. \A v \in Worker : v # w => found'[v] = found[v] /\ pc'[v] = pc[v]
    BY <1>1, <1>3, <1>4 DEF TypeOK
  <1>11. found'[w] = Stored(n)
    BY <1>1, <1>3 DEF TypeOK
  <1>9. FoundIsRecord'
    <2>1. Stored(n).id # 0 => Stored(n).id \in DOMAIN records /\ records[Stored(n).id].name = n
      BY <1>2, StoredIsRecord
    <2>2. records' = records /\ payloads' = payloads
      BY <1>3
    <2>3. ReserveFirst' = ReserveFirst
      BY DEF ReserveFirst
    <2> QED
      BY <1>1, <1>8, <1>10, <1>11, <2>1, <2>2, <2>3 DEF FoundIsRecord
  <1> QED
    BY <1>3, <1>6, <1>7, <1>9, StillDataInv

\* CheckAssoc leaves the records alone.
LEMMA CheckDataInv ==
  ASSUME DataInv, NEW w \in Worker, CheckName(w), UNCHANGED service
  PROVE  DataInv'
  <1>1. TypeOK /\ HasWork /\ FoundIsRecord /\ pc[w] = "check" /\ payloads[w] # << >>
    BY DEF DataInv, HasWork, CheckName
  <1>2. /\ UNCHANGED <<request, action, payloads, found, trans, inset, tmpcache, data, maincounter>>
        /\ UNCHANGED <<index, records>> /\ raced' \in BOOLEAN
        /\ \E s \in {"claim", "release"} : pc' = [pc EXCEPT ![w] = s]
    BY <1>1 DEF CheckName, data, Refuse, GoTo, TypeOK
  <1>3. answer' \in Seq({"none", "done", "refused"}) /\ Len(answer') = Len(answer)
    BY <1>1, RefuseTyped DEF CheckName, TypeOK
  <1>4. TypeOK' /\ HasWork'
    BY <1>1, <1>2, <1>3 DEF TypeOK, HasWork
  <1>5. FoundIsRecord'
    BY <1>1, <1>2 DEF FoundIsRecord, ReserveFirst, TypeOK
  <1> QED
    BY <1>2, <1>4, <1>5, StillDataInv

\* SetAssoc leaves the records alone.
LEMMA ClaimDataInv ==
  ASSUME DataInv, NEW w \in Worker, Claim(w), UNCHANGED service
  PROVE  DataInv'
  <1>1. TypeOK /\ HasWork /\ FoundIsRecord /\ pc[w] = "claim" /\ payloads[w] # << >>
    BY DEF DataInv, HasWork, Claim
  <1>2. Head(payloads[w]) \in Name
    BY <1>1, HeadAndTail DEF TypeOK
  <1>3. /\ tmpcache' = tmpcache \cup {Head(payloads[w])}
        /\ inset' = [inset EXCEPT ![w] = @ \cup {Head(payloads[w])}]
        /\ pc' = [pc EXCEPT ![w] = IF ReserveFirst THEN "read" ELSE "add"]
        /\ UNCHANGED <<request, action, payloads, found, trans, data, index, records, maincounter,
                       answer, raced>>
    BY DEF Claim, data, GoTo
  <1>4. TypeOK' /\ HasWork'
    BY <1>1, <1>2, <1>3 DEF TypeOK, HasWork
  <1>5. FoundIsRecord'
    BY <1>1, <1>3 DEF FoundIsRecord, ReserveFirst, TypeOK
  <1> QED
    BY <1>3, <1>4, <1>5, StillDataInv

\* The destructor of TempNameCache leaves the records alone.
LEMMA ReleaseDataInv ==
  ASSUME DataInv, NEW w \in Worker, Release(w), UNCHANGED service
  PROVE  DataInv'
  <1>1. TypeOK /\ HasWork /\ FoundIsRecord /\ pc[w] = "release"
    BY DEF DataInv, Release
  <1>2. /\ UNCHANGED <<request, action, payloads, found, trans, data, index, records, maincounter,
                       answer, raced>>
        /\ tmpcache' \subseteq Name /\ inset' \in [Worker -> SUBSET Name]
        /\ pc' = pc \/ pc' = [pc EXCEPT ![w] = "idle"]
    BY <1>1 DEF Release, data, GoTo, TypeOK
  <1>3. TypeOK' /\ HasWork'
    BY <1>1, <1>2 DEF TypeOK, HasWork
  <1>4. FoundIsRecord'
    BY <1>1, <1>2 DEF FoundIsRecord, ReserveFirst, TypeOK
  <1> QED
    BY <1>2, <1>3, <1>4, StillDataInv

\* AddRecord puts a record into the batch that agrees with the database, or one
\* with an id that is in no batch.
LEMMA AddDataInv ==
  ASSUME DataInv, NEW w \in Worker, AddRecord(w), UNCHANGED service
  PROVE  DataInv'
  <1> DEFINE n == Head(payloads[w])
             i == IdFor(w)
             new == found[w].id = 0
  <1>1. /\ TypeOK /\ HasWork /\ FoundIsRecord /\ TransAgrees /\ IndexIsSound /\ DOMAIN trans = Worker
        /\ pc[w] = "add" /\ payloads[w] # << >> /\ FirstId - 1 <= maincounter
    BY DEF DataInv, HasWork, AddRecord
  <1>2. /\ n \in Name /\ Tail(payloads[w]) \in Seq(Name)
        /\ Len(payloads[w]) # 1 => Tail(payloads[w]) # << >>
    BY <1>1, HeadAndTail DEF TypeOK
  <1>3. /\ UNCHANGED <<request, action, found, inset, tmpcache, data, index, records, raced>>
        /\ maincounter' = IF new THEN maincounter + 1 ELSE maincounter
    BY DEF AddRecord, data
  <1>4. maincounter' \in Nat /\ maincounter <= maincounter' /\ FirstId - 1 <= maincounter'
    BY <1>1, <1>3 DEF TypeOK, FirstId
  <1>5. \A v \in Worker : pc'[v] # "add" \/ v # w
    BY <1>1, FirstStepIsPhase DEF AddRecord, NextPayload, Refuse, GoTo, TypeOK
  <1>6. CASE Clash(w)
    <2>1. /\ UNCHANGED <<trans, payloads>> /\ pc' = [pc EXCEPT ![w] = "release"]
          /\ answer' \in Seq({"none", "done", "refused"}) /\ Len(answer') = Len(answer)
      BY <1>1, <1>6, RefuseTyped DEF AddRecord
    <2>2. TypeOK' /\ HasWork'
      BY <1>1, <1>3, <1>4, <2>1 DEF TypeOK, HasWork
    <2>3. FoundIsRecord'
      BY <1>1, <1>3, <2>1 DEF FoundIsRecord, ReserveFirst, TypeOK
    <2>4. \A v \in Worker : DOMAIN trans[v] \subseteq Nat
      BY <1>1 DEF TypeOK
    <2>5. TransAgrees'
      BY <1>1, <1>3, <1>4, <2>1, <2>4 DEF TransAgrees, TypeOK
    <2> QED
      BY <1>1, <1>3, <1>4, <2>1, <2>2, <2>3, <2>5 DEF DataInv, IndexIsSound
  <1>7. CASE ~Clash(w)
    <2>1. /\ trans' = [trans EXCEPT ![w] = Over(Changed(w), trans[w])]
          /\ payloads' = [payloads EXCEPT ![w] = Tail(payloads[w])]
          /\ pc' = [pc EXCEPT ![w] = IF Len(payloads[w]) = 1 THEN "commit" ELSE FirstStep(action[w])]
          /\ UNCHANGED answer
      BY <1>1, <1>7 DEF AddRecord, NextPayload, GoTo, TypeOK
    <2>2. i \in Nat /\ i > FirstId - 1
      BY <1>1 DEF IdFor, TypeOK, FirstId, FoundIsRecord
    <2>3. /\ ~new => i = found[w].id /\ i \in DOMAIN records /\ records[i].name = n
          /\ new => i = maincounter + 1 /\ i \notin DOMAIN records
      BY <1>1, <1>7 DEF IdFor, FoundIsRecord, Clash
    <2>4. DOMAIN Changed(w) = {i} /\ Changed(w)[i] = [name |-> n, changes |-> found[w].changes \cup {request[w]}]
      BY DEF Changed
    <2>5. request[w] \in Request /\ Changed(w)[i] \in Record /\ Changed(w)[i].name = n
      <3>1. request[w] \in Request
        BY <1>1, ManageDataAssumption, LenProperties DEF TypeOK, HasWork, Request
      <3> QED
        BY <1>1, <1>2, <2>4, <3>1 DEF Record, TypeOK
    <2> HIDE DEF i, new, n
    <2>6. /\ DOMAIN trans'[w] = DOMAIN trans[w] \cup {i} /\ trans'[w][i] = Changed(w)[i]
          /\ \A j \in DOMAIN trans[w] \ {i} : trans'[w][j] = trans[w][j]
      BY <1>1, <2>1, <2>4 DEF Over
    <2>7. \A v \in Worker : v # w => /\ trans'[v] = trans[v] /\ payloads'[v] = payloads[v]
                                     /\ pc'[v] = pc[v]
      BY <1>1, <2>1 DEF TypeOK
    <2>8. TypeOK'
      <3>1. pc' \in [Worker -> {"idle", "check", "claim", "read", "add", "commit", "release"}]
        BY <1>1, <2>1, FirstStepIsPhase DEF TypeOK
      <3>2. payloads' \in [Worker -> Seq(Name)]
        BY <1>1, <1>2, <2>1 DEF TypeOK
      <3>3. \A v \in Worker : /\ DOMAIN trans'[v] \subseteq Nat \ (0..(FirstId - 1))
                              /\ \A j \in DOMAIN trans'[v] : trans'[v][j] \in Record
        <4>1. i \in Nat \ (0..(FirstId - 1))
          BY <2>2 DEF FirstId
        <4>2. \A v \in Worker : /\ DOMAIN trans[v] \subseteq Nat \ (0..(FirstId - 1))
                                /\ \A j \in DOMAIN trans[v] : trans[v][j] \in Record
          BY <1>1 DEF TypeOK
        <4> QED
          BY <2>5, <2>6, <2>7, <4>1, <4>2
      <3> QED
        BY <1>1, <1>3, <1>4, <2>1, <3>1, <3>2, <3>3 DEF TypeOK
    <2>9. HasWork'
      <3>1. payloads'[w] = Tail(payloads[w]) /\ pc'[w] # "idle" /\ (Len(payloads[w]) = 1 => pc'[w] = "commit")
        BY <1>1, <2>1, FirstStepIsPhase DEF TypeOK
      <3> QED
        BY <1>1, <1>2, <1>3, <2>7, <3>1 DEF HasWork
    <2>10. FoundIsRecord'
      <3>1. pc'[w] = "commit" \/ pc'[w] = FirstStep(action[w])
        BY <1>1, <2>1 DEF TypeOK
      <3>2. pc'[w] \notin {"add", "claim"} /\ (pc'[w] = "check" => ReserveFirst)
        BY <3>1, FirstStepIsPhase
      <3>3. ReserveFirst' = ReserveFirst /\ records' = records /\ found' = found
        BY <1>3 DEF ReserveFirst
      <3> QED
        BY <1>1, <2>7, <3>2, <3>3 DEF FoundIsRecord
    <2>11. TransAgrees'
      <3>1. \A v \in Worker : \A j \in DOMAIN trans[v] : j \in Nat
        BY <1>1 DEF TypeOK
      <3>2. \A v \in Worker : \A j \in DOMAIN trans[v] : j \notin DOMAIN records => j <= maincounter /\ j <= maincounter'
        BY <1>1, <1>4, <3>1 DEF TransAgrees, TypeOK
      <3>3. ASSUME NEW v \in Worker, NEW j \in DOMAIN trans'[v], j \in DOMAIN records
            PROVE  trans'[v][j].name = records[j].name
        <4>1. CASE v = w /\ j = i
          BY <2>3, <2>5, <2>6, <3>3, <4>1 DEF new
        <4>2. CASE ~(v = w /\ j = i)
          BY <1>1, <2>6, <2>7, <3>3, <4>2 DEF TransAgrees
        <4> QED
          BY <4>1, <4>2
      <3>4. new => i = maincounter' /\ \A v \in Worker : i \notin DOMAIN trans[v]
        <4>1. ASSUME new PROVE maincounter \in Nat /\ i = maincounter + 1 /\ i \notin DOMAIN records /\ i = maincounter'
          BY <1>1, <1>3, <2>3, <4>1 DEF TypeOK
        <4>2. ASSUME new PROVE ~(i <= maincounter)
          BY <4>1, <4>2
        <4> QED
          BY <3>2, <4>1, <4>2
      <3>5. ASSUME NEW v \in Worker, NEW j \in DOMAIN trans'[v], j \notin DOMAIN records
            PROVE  j <= maincounter' /\ \A u \in Worker \ {v} : j \notin DOMAIN trans'[u]
        <4>1. j = i => new
          BY <2>3, <3>5
        <4>2. CASE j = i
          <5>1. v = w /\ j <= maincounter'
            BY <1>4, <2>7, <3>4, <3>5, <4>1, <4>2
          <5> QED
            BY <2>7, <3>4, <4>1, <4>2, <5>1
        <4>3. CASE j # i
          <5>1. j \in DOMAIN trans[v]
            BY <2>6, <2>7, <3>5, <4>3
          <5>2. \A u \in Worker \ {v} : j \notin DOMAIN trans[u]
            BY <1>1, <3>5, <5>1 DEF TransAgrees
          <5> QED
            BY <2>6, <2>7, <3>2, <3>5, <4>3, <5>1, <5>2
        <4> QED
          BY <4>2, <4>3
      <3> QED
        BY <1>3, <3>3, <3>5 DEF TransAgrees
    <2> QED
      BY <1>1, <1>3, <1>4, <2>1, <2>8, <2>9, <2>10, <2>11 DEF DataInv, IndexIsSound
  <1> QED
    BY <1>6, <1>7

\* Commit: each record of the batch is in its place, the others are as they were, and
\* the unique index leads to the new ones.
LEMMA CommitWrites ==
  ASSUME DataInv, NEW w \in Worker, Write(trans[w])
  PROVE  /\ DOMAIN records' = DOMAIN records \cup DOMAIN trans[w]
         /\ \A i \in DOMAIN trans[w] : records'[i] = trans[w][i]
         /\ \A i \in DOMAIN records \ DOMAIN trans[w] : records'[i] = records[i]
         /\ \A i \in DOMAIN records : records'[i].name = records[i].name
         /\ index' = [n \in Name |-> index'[n]]
         /\ \A n \in Name :
              \/ index'[n] = index[n] /\ \A i \in Unwritten(w) : trans[w][i].name # n
              \/ index'[n] \in Unwritten(w) /\ trans[w][index'[n]].name = n
  <1>1. /\ DOMAIN records' = DOMAIN records \cup DOMAIN trans[w]
        /\ \A i \in DOMAIN trans[w] : records'[i] = trans[w][i]
        /\ \A i \in DOMAIN records \ DOMAIN trans[w] : records'[i] = records[i]
    BY DEF Write, Over
  <1>2. \A i \in DOMAIN records : records'[i].name = records[i].name
    BY <1>1 DEF DataInv, TransAgrees
  <1> DEFINE ids(n) == {i \in DOMAIN trans[w] \ DOMAIN records : trans[w][i].name = n}
  <1>3. index' = [n \in Name |-> IF ids(n) = {} THEN index[n] ELSE CHOOSE i \in ids(n) : TRUE]
    BY DEF Write
  <1>4. \A n \in Name : IF ids(n) = {} THEN index'[n] = index[n] ELSE index'[n] \in ids(n)
    <2>1. \A n : ids(n) # {} => (CHOOSE i \in ids(n) : TRUE) \in ids(n)
      OBVIOUS
    <2> HIDE DEF ids
    <2> QED
      BY <1>3, <2>1
  <1>5. index' = [n \in Name |-> index'[n]]
    BY <1>3
  <1>6. \A n \in Name :
          \/ index'[n] = index[n] /\ \A i \in Unwritten(w) : trans[w][i].name # n
          \/ index'[n] \in Unwritten(w) /\ trans[w][index'[n]].name = n
    BY <1>4 DEF Unwritten
  <1> QED
    BY <1>1, <1>2, <1>5, <1>6

\* A commit leaves the batches of the others in agreement with the records.
LEMMA CommitDataInv ==
  ASSUME DataInv, NEW w \in Worker, Commit(w), UNCHANGED service
  PROVE  DataInv'
  <1>1. /\ TypeOK /\ HasWork /\ FoundIsRecord /\ TransAgrees /\ IndexIsSound /\ DOMAIN trans = Worker
        /\ pc[w] = "commit" /\ FirstId - 1 <= maincounter
    BY DEF DataInv, Commit
  <1>2. /\ UNCHANGED <<request, action, payloads, found, trans, inset, tmpcache, maincounter, raced>>
        /\ pc' = [pc EXCEPT ![w] = "release"] /\ Write(trans[w])
        /\ answer' = [answer EXCEPT ![request[w]] = "done"]
    BY DEF Commit, GoTo
  <1>3. answer' \in Seq({"none", "done", "refused"}) /\ Len(answer') = Len(answer)
    <2>1. request[w] \in 1..Len(answer)
      BY <1>1, LenProperties DEF TypeOK, HasWork
    <2> QED
      BY <1>1, <1>2, <2>1, ExceptSeq DEF TypeOK
  <1>4. \A n \in Name : index'[n] = index[n] \/ (index'[n] \in DOMAIN trans[w] /\ trans[w][index'[n]].name = n)
    BY <1>2, CommitWrites DEF Unwritten
  <1>10. /\ DOMAIN records' = DOMAIN records \cup DOMAIN trans[w]
         /\ \A i \in DOMAIN trans[w] : records'[i] = trans[w][i]
         /\ \A i \in DOMAIN records : records'[i].name = records[i].name
    BY <1>2, CommitWrites
  <1>5. TypeOK'
    <2>1. index' \in [Name -> Nat]
      BY <1>1, <1>2, <1>4, CommitWrites DEF TypeOK
    <2>2. DOMAIN records' \subseteq Nat \ (0..(FirstId - 1)) /\ \A i \in DOMAIN records' : records'[i] \in Record
      <3>1. /\ DOMAIN records \cup DOMAIN trans[w] \subseteq Nat \ (0..(FirstId - 1))
            /\ \A i \in DOMAIN records : records[i] \in Record
            /\ \A i \in DOMAIN trans[w] : trans[w][i] \in Record
        BY <1>1 DEF TypeOK
      <3> QED
        BY <1>2, <3>1, CommitWrites
    <2> QED
      BY <1>1, <1>2, <1>3, <2>1, <2>2 DEF TypeOK
  <1>6. HasWork'
    BY <1>1, <1>2 DEF HasWork, TypeOK
  <1>7. IndexIsSound'
    BY <1>1, <1>4, <1>10 DEF IndexIsSound
  <1>8. FoundIsRecord'
    <2>1. \A v \in Worker : v # w => pc'[v] = pc[v]
      BY <1>1, <1>2 DEF TypeOK
    <2>2. pc'[w] = "release" /\ ReserveFirst' = ReserveFirst /\ found' = found /\ payloads' = payloads
      BY <1>1, <1>2 DEF TypeOK, ReserveFirst
    <2> QED
      BY <1>1, <1>10, <2>1, <2>2 DEF FoundIsRecord
  <1>9. TransAgrees'
    <2> SUFFICES ASSUME NEW v \in Worker, NEW i \in DOMAIN trans[v]
                 PROVE  /\ i \in DOMAIN records' => trans[v][i].name = records'[i].name
                        /\ i \notin DOMAIN records' =>
                             i <= maincounter /\ \A u \in Worker \ {v} : i \notin DOMAIN trans[u]
      BY <1>2 DEF TransAgrees
    <2>1. CASE i \in DOMAIN records
      BY <1>1, <1>10, <2>1 DEF TransAgrees
    <2>2. CASE i \notin DOMAIN records
      BY <1>1, <1>10, <2>2 DEF TransAgrees
    <2> QED
      BY <2>1, <2>2
  <1> QED
    BY <1>1, <1>2, <1>5, <1>6, <1>7, <1>8, <1>9 DEF DataInv

\* DataInv is inductive.
LEMMA NextDataInv == DataInv /\ [Next]_vars => DataInv'
  <1>1. ASSUME DataInv, NEW w \in Worker, Start(w) \/ Step(w), UNCHANGED service PROVE DataInv'
    BY <1>1, StartDataInv, ReadDataInv, CheckDataInv, ClaimDataInv, AddDataInv, CommitDataInv,
       ReleaseDataInv DEF Step
  <1>2. ASSUME DataInv, UNCHANGED vars PROVE DataInv'
    BY <1>2 DEF vars, data, DataInv, TypeOK, HasWork, IndexIsSound, FoundIsRecord, TransAgrees,
                ReserveFirst
  <1> QED
    BY <1>1, <1>2 DEF Next

\* DataInv holds throughout.
LEMMA SpecDataInv == Spec => []DataInv
  BY InitDataInv, NextDataInv, PTL DEF Spec

\* Type correctness of requests, batches, records and the unique index.
THEOREM SpecTypeOK == Spec => []TypeOK
  <1>1. DataInv => TypeOK
    BY DEF DataInv
  <1> QED
    BY <1>1, SpecDataInv, PTL

\* StoreTable::AddRecord: a unique key leads to a record of that name, also when two
\* requests reserved one name.
THEOREM SpecIndexIsSound == Spec => []IndexIsSound
  <1>1. DataInv => IndexIsSound
    BY DEF DataInv
  <1> QED
    BY <1>1, SpecDataInv, PTL

-----------------------------------------------------------------------------
\* No record has an id that GetNext has still to give.
IdsAreCounted == \A i \in DOMAIN records : i <= maincounter

\* The records of a process that starts are those it has copied.
LEMMA InitRecords ==
  ASSUME Init
  PROVE  /\ \A i \in DOMAIN records : records[i].changes = {}
         /\ \A i \in DOMAIN records : \E n \in Replicated : TRUE
  <1>1. PICK id \in [Replicated -> FirstId..(FirstId + Cardinality(Replicated) - 1)] :
          \E name \in [{id[n] : n \in Replicated} -> Replicated] :
            records = [i \in DOMAIN name |-> [name |-> name[i], changes |-> {}]]
    BY DEF Init
  <1>2. PICK name \in [{id[n] : n \in Replicated} -> Replicated] :
          records = [i \in DOMAIN name |-> [name |-> name[i], changes |-> {}]]
    BY <1>1
  <1> QED
    BY <1>2

\* A process that has copied nothing has no record.
LEMMA InitIdsAreCounted ==
  ASSUME Replicated = {}, Init
  PROVE  IdsAreCounted
  BY InitRecords DEF IdsAreCounted

\* Every id comes from the counter, or from a record that has it.
LEMMA NextIdsAreCounted == DataInv /\ IdsAreCounted /\ [Next]_vars => IdsAreCounted'
  <1> SUFFICES ASSUME DataInv, IdsAreCounted, [Next]_vars PROVE IdsAreCounted'
    OBVIOUS
  <1>1. /\ maincounter \in Nat /\ DOMAIN records \subseteq Nat
        /\ \A w \in Worker : DOMAIN trans[w] \subseteq Nat
    BY DEF DataInv, TypeOK
  <1>2. ASSUME NEW w \in Worker, AddRecord(w) PROVE IdsAreCounted'
    <2>1. records' = records /\ (maincounter' = maincounter \/ maincounter' = maincounter + 1)
      BY <1>2 DEF AddRecord, data
    <2> QED
      BY <1>1, <2>1 DEF IdsAreCounted
  <1>3. ASSUME NEW w \in Worker, Commit(w) PROVE IdsAreCounted'
    <2>1. DOMAIN records' = DOMAIN records \cup DOMAIN trans[w] /\ maincounter' = maincounter
      BY <1>3, CommitWrites DEF Commit
    <2>2. \A i \in DOMAIN trans[w] : i \in DOMAIN records \/ i <= maincounter
      BY DEF DataInv, TransAgrees
    <2> QED
      BY <2>1, <2>2 DEF IdsAreCounted
  <1>4. ASSUME NEW w \in Worker,
               Start(w) \/ Read(w) \/ CheckName(w) \/ Claim(w) \/ Release(w)
        PROVE  records' = records /\ maincounter' = maincounter
    BY <1>4 DEF Start, Read, CheckName, Claim, Release, data
  <1>5. UNCHANGED vars => IdsAreCounted'
    BY DEF vars, IdsAreCounted
  <1> QED
    BY <1>2, <1>3, <1>4, <1>5 DEF Next, Step, IdsAreCounted

\* GetNext and AddRecord: on a master that has replaced none, no new record is refused
\* because its id is taken.  After a promotion it may be, as ManageDataFails.cfg shows.
THEOREM SpecNewIdIsFree == ASSUME Replicated = {} PROVE Spec => []NewIdIsFree
  <1>1. Init => IdsAreCounted
    BY InitIdsAreCounted
  <1>2. DataInv /\ IdsAreCounted => NewIdIsFree
    <2> SUFFICES ASSUME DataInv, IdsAreCounted, NEW w \in Worker, pc[w] = "add", found[w].id = 0
                 PROVE  IdFor(w) \notin DOMAIN records \cup UNION {DOMAIN trans[v] : v \in Worker}
      BY DEF NewIdIsFree
    <2>1. maincounter \in Nat /\ ~(maincounter + 1 <= maincounter)
      BY DEF DataInv, TypeOK
    <2>2. \A v \in Worker : \A i \in DOMAIN trans[v] : i <= maincounter
      BY DEF DataInv, TransAgrees, IdsAreCounted
    <2> QED
      BY <2>1, <2>2 DEF IdFor, IdsAreCounted
  <1>3. Spec => []IdsAreCounted
    BY <1>1, SpecDataInv, NextIdsAreCounted, PTL DEF Spec
  <1> QED
    BY <1>2, <1>3, SpecDataInv, PTL

-----------------------------------------------------------------------------
\* Requests that were done.
Done == {r \in 1..Len(answer) : answer[r] = "done"}
Busy(w) == pc[w] \in {"check", "claim", "read", "add", "commit"}

\* Two handlers work on two requests, which have no answer yet.
RequestsDiffer ==
  \A v, w \in Worker : (v # w /\ pc[v] # "idle" /\ pc[w] # "idle") => request[v] # request[w]
RequestIsOpen == \A w \in Worker : Busy(w) => answer[request[w]] = "none"

\* Records are made of requests that were done, and what a handler is about to write
\* of those and its own.
RecordsAreDone == \A i \in DOMAIN records : records[i].changes \subseteq Done
FoundIsDone == \A w \in Worker : found[w].changes \subseteq Done
BatchIsOwn ==
  \A w \in Worker : Busy(w) =>
    \A i \in DOMAIN trans[w] : trans[w][i].changes \subseteq Done \cup {request[w]}

ChangesInv == RequestsDiffer /\ RequestIsOpen /\ RecordsAreDone /\ FoundIsDone /\ BatchIsOwn

\* No request was done when the process starts.
LEMMA InitChangesInv == Init => ChangesInv
  <1> SUFFICES ASSUME Init PROVE ChangesInv
    OBVIOUS
  <1>2. RecordsAreDone
    BY InitRecords DEF RecordsAreDone
  <1> QED
    BY <1>2 DEF Init, ChangesInv, RequestsDiffer, RequestIsOpen, FoundIsDone, BatchIsOwn, Busy, Nothing

\* A new request has a number of its own.
LEMMA StartChangesInv ==
  ASSUME DataInv, ChangesInv, NEW w \in Worker, Start(w)
  PROVE  ChangesInv'
  <1>1. /\ Len(answer) \in Nat /\ answer' = Append(answer, "none") /\ pc[w] = "idle"
        /\ request' = [request EXCEPT ![w] = Len(answer) + 1]
        /\ trans' = [trans EXCEPT ![w] = NoRecords] /\ DOMAIN trans = Worker
        /\ found' = found /\ records' = records /\ TypeOK /\ HasWork
        /\ \E s : pc' = [pc EXCEPT ![w] = s]
    BY LenProperties DEF Start, GoTo, data, DataInv, TypeOK
  <1>2. /\ Len(answer') = Len(answer) + 1 /\ answer'[Len(answer) + 1] = "none"
        /\ \A r \in 1..Len(answer) : answer'[r] = answer[r]
    BY <1>1, AppendProperties DEF TypeOK
  <1>3. \A v \in Worker : request[v] \in 0..Len(answer) /\ request[v] # Len(answer) + 1
    BY <1>1 DEF TypeOK
  <1>4. \A v \in Worker : v # w => request'[v] = request[v] /\ pc'[v] = pc[v] /\ trans'[v] = trans[v]
    BY <1>1 DEF TypeOK
  <1>5. request'[w] = Len(answer) + 1 /\ DOMAIN trans'[w] = {}
    BY <1>1 DEF TypeOK, NoRecords
  <1>6. Done \subseteq Done'
    BY <1>1, <1>2 DEF Done
  <1>7. \A v \in Worker : (v # w /\ Busy(v)) => answer'[request[v]] = "none"
    BY <1>1, <1>2, <1>3 DEF ChangesInv, RequestIsOpen, Busy, HasWork
  <1>8. RequestsDiffer'
    BY <1>1, <1>3, <1>4, <1>5 DEF ChangesInv, RequestsDiffer
  <1>9. RequestIsOpen'
    BY <1>2, <1>4, <1>5, <1>7 DEF RequestIsOpen, Busy
  <1>10. RecordsAreDone' /\ FoundIsDone'
    BY <1>1, <1>6 DEF ChangesInv, RecordsAreDone, FoundIsDone
  <1>11. BatchIsOwn'
    BY <1>4, <1>5, <1>6 DEF ChangesInv, BatchIsOwn, Busy
  <1> QED
    BY <1>8, <1>9, <1>10, <1>11 DEF ChangesInv

\* A request that has no answer yet gets one, or none.
LEMMA AnswerKeepsDone ==
  ASSUME DataInv, ChangesInv, NEW w \in Worker, pc[w] # "idle",
         \/ answer' = answer
         \/ Busy(w) /\ \E x \in {"done", "refused"} : answer' = [answer EXCEPT ![request[w]] = x]
  PROVE  /\ Done \subseteq Done'
         /\ \A v \in Worker : (v # w /\ Busy(v)) => answer'[request[v]] = "none"
         /\ \A x \in {"done"} : (Busy(w) /\ answer' = [answer EXCEPT ![request[w]] = x])
                                   => request[w] \in Done'
  <1>1. \A v \in Worker : pc[v] # "idle" => request[v] \in 1..Len(answer)
    BY LenProperties DEF DataInv, TypeOK, HasWork
  <1>2. /\ Len(answer') = Len(answer)
        /\ \A r \in 1..Len(answer) : r # request[w] => answer'[r] = answer[r]
    BY <1>1, ExceptSeq DEF DataInv, TypeOK
  <1>3. Busy(w) => answer[request[w]] = "none"
    BY DEF ChangesInv, RequestIsOpen
  <1>4. Done \subseteq Done'
    BY <1>2, <1>3 DEF Done
  <1>5. \A v \in Worker : (v # w /\ Busy(v)) => answer'[request[v]] = "none"
    BY <1>1, <1>2 DEF ChangesInv, RequestsDiffer, RequestIsOpen, Busy
  <1>6. answer' = [answer EXCEPT ![request[w]] = "done"] => request[w] \in Done'
    BY <1>1, ExceptSeq DEF Done, DataInv, TypeOK
  <1> QED
    BY <1>4, <1>5, <1>6

\* A handler that goes on, or ends, without writing a record.
LEMMA StillChangesInv ==
  ASSUME DataInv, ChangesInv, NEW w \in Worker, pc[w] # "idle",
         UNCHANGED <<request, records>>,
         \A v \in Worker : v # w => pc'[v] = pc[v] /\ trans'[v] = trans[v] /\ found'[v] = found[v],
         Busy(w)' => Busy(w),
         answer' = answer \/ (Busy(w) /\ answer' = [answer EXCEPT ![request[w]] = "refused"] /\ ~Busy(w)'),
         found'[w].changes \subseteq Done,
         Busy(w)' => \A i \in DOMAIN trans'[w] : trans'[w][i].changes \subseteq Done \cup {request[w]}
  PROVE  ChangesInv'
  <1>1. /\ Done \subseteq Done'
        /\ \A v \in Worker : (v # w /\ Busy(v)) => answer'[request[v]] = "none"
    BY AnswerKeepsDone
  <1>2. RequestsDiffer'
    BY DEF ChangesInv, RequestsDiffer
  <1>3. RequestIsOpen'
    BY <1>1 DEF ChangesInv, RequestIsOpen, Busy
  <1>4. RecordsAreDone' /\ FoundIsDone'
    BY <1>1 DEF ChangesInv, RecordsAreDone, FoundIsDone
  <1>5. BatchIsOwn'
    BY <1>1 DEF ChangesInv, BatchIsOwn, Busy
  <1> QED
    BY <1>2, <1>3, <1>4, <1>5 DEF ChangesInv

\* ChangesInv is inductive.
LEMMA NextChangesInv == DataInv /\ ChangesInv /\ [Next]_vars => ChangesInv'
  <1> SUFFICES ASSUME DataInv, ChangesInv, [Next]_vars PROVE ChangesInv'
    OBVIOUS
  <1>0. /\ TypeOK /\ DOMAIN trans = Worker /\ DOMAIN found = Worker /\ DOMAIN pc = Worker
        /\ HasWork /\ BatchIsOwn /\ FoundIsDone /\ RecordsAreDone
    BY DEF DataInv, TypeOK, ChangesInv
  <1>1. ASSUME NEW w \in Worker, Read(w) PROVE ChangesInv'
    <2> DEFINE n == Head(payloads[w])
    <2>1. /\ pc[w] = "read" /\ n \in Name /\ found' = [found EXCEPT ![w] = Stored(n)]
          /\ UNCHANGED <<request, records, trans>>
      BY <1>0, <1>1, HeadAndTail DEF Read, HasWork, TypeOK, data
    <2>2. \/ answer' = answer /\ \E x \in {"add", "check"} : pc' = [pc EXCEPT ![w] = x]
          \/ answer' = [answer EXCEPT ![request[w]] = "refused"] /\ pc' = [pc EXCEPT ![w] = "release"]
      BY <1>1 DEF Read, Refuse, GoTo
    <2>3. Stored(n).changes \subseteq Done
      BY <1>0, <2>1, StoredIsRecord DEF RecordsAreDone
    <2> HIDE DEF n
    <2>4. Busy(w) /\ found'[w] = Stored(n)
      BY <1>0, <2>1 DEF Busy
    <2>5. \/ answer' = answer /\ Busy(w)'
          \/ answer' = [answer EXCEPT ![request[w]] = "refused"] /\ ~Busy(w)'
      BY <1>0, <2>2 DEF Busy
    <2>6. \A v \in Worker : v # w => pc'[v] = pc[v] /\ trans'[v] = trans[v] /\ found'[v] = found[v]
      BY <1>0, <2>1, <2>2
    <2>7. \A i \in DOMAIN trans'[w] : trans'[w][i].changes \subseteq Done \cup {request[w]}
      BY <1>0, <2>1, <2>4 DEF BatchIsOwn
    <2> QED
      BY <2>1, <2>3, <2>4, <2>5, <2>6, <2>7, StillChangesInv
  <1>2. ASSUME NEW w \in Worker, CheckName(w) \/ Claim(w) \/ Release(w) PROVE ChangesInv'
    <2>1. UNCHANGED <<request, records, trans, found>> /\ pc[w] # "idle"
      BY <1>2 DEF CheckName, Claim, Release, data
    <2>2. \/ Busy(w) /\ answer' = answer /\ \E x \in {"claim", "read", "add"} : pc' = [pc EXCEPT ![w] = x]
          \/ Busy(w) /\ answer' = [answer EXCEPT ![request[w]] = "refused"] /\ pc' = [pc EXCEPT ![w] = "release"]
          \/ ~Busy(w) /\ answer' = answer /\ (pc' = pc \/ pc' = [pc EXCEPT ![w] = "idle"])
      BY <1>2 DEF CheckName, Claim, Release, Refuse, GoTo, Busy
    <2>3. \/ Busy(w) /\ answer' = answer
          \/ Busy(w) /\ answer' = [answer EXCEPT ![request[w]] = "refused"] /\ ~Busy(w)'
          \/ ~Busy(w) /\ answer' = answer /\ ~Busy(w)'
      BY <1>0, <2>2 DEF Busy
    <2>4. \A v \in Worker : v # w => pc'[v] = pc[v] /\ trans'[v] = trans[v] /\ found'[v] = found[v]
      BY <1>0, <2>1, <2>2
    <2>5. Busy(w)' => \A i \in DOMAIN trans'[w] : trans'[w][i].changes \subseteq Done \cup {request[w]}
      BY <1>0, <2>1, <2>3 DEF BatchIsOwn
    <2>6. found'[w].changes \subseteq Done
      BY <1>0, <2>1 DEF FoundIsDone
    <2> QED
      BY <2>1, <2>3, <2>4, <2>5, <2>6, StillChangesInv
  <1>3. ASSUME NEW w \in Worker, AddRecord(w) PROVE ChangesInv'
    <2>1. pc[w] = "add" /\ Busy(w) /\ UNCHANGED <<request, records, found>>
      BY <1>3 DEF AddRecord, data, Busy
    <2>2. \/ answer' = [answer EXCEPT ![request[w]] = "refused"] /\ pc' = [pc EXCEPT ![w] = "release"]
             /\ trans' = trans
          \/ answer' = answer /\ (\E x \in {"check", "read", "commit"} : pc' = [pc EXCEPT ![w] = x])
             /\ trans' = [trans EXCEPT ![w] = Over(Changed(w), trans[w])]
      BY <1>0, <1>3, FirstStepIsPhase DEF AddRecord, NextPayload, Refuse, GoTo
    <2>3. \A i \in DOMAIN Over(Changed(w), trans[w]) :
            \/ Over(Changed(w), trans[w])[i].changes = found[w].changes \cup {request[w]}
            \/ i \in DOMAIN trans[w] /\ Over(Changed(w), trans[w])[i] = trans[w][i]
      BY DEF Over, Changed
    <2>4. \A v \in Worker : v # w => pc'[v] = pc[v] /\ trans'[v] = trans[v] /\ found'[v] = found[v]
      BY <1>0, <2>1, <2>2
    <2>5. \/ answer' = [answer EXCEPT ![request[w]] = "refused"] /\ ~Busy(w)'
          \/ answer' = answer /\ trans'[w] = Over(Changed(w), trans[w])
      BY <1>0, <2>2 DEF Busy
    <2>6. Busy(w)' => \A i \in DOMAIN trans'[w] : trans'[w][i].changes \subseteq Done \cup {request[w]}
      <3>1. found[w].changes \subseteq Done /\ \A i \in DOMAIN trans[w] : trans[w][i].changes \subseteq Done \cup {request[w]}
        BY <1>0, <2>1 DEF BatchIsOwn, FoundIsDone
      <3>2. \A i \in DOMAIN Over(Changed(w), trans[w]) :
              Over(Changed(w), trans[w])[i].changes \subseteq Done \cup {request[w]}
        BY <2>3, <3>1
      <3>3. trans'[w] = trans[w] \/ trans'[w] = Over(Changed(w), trans[w])
        BY <1>0, <2>2
      <3> QED
        BY <3>1, <3>2, <3>3
    <2>7. found'[w].changes \subseteq Done
      BY <1>0, <2>1 DEF FoundIsDone
    <2> QED
      BY <2>1, <2>4, <2>5, <2>6, <2>7, StillChangesInv
  \* What the batch adds to records is done from now on.
  <1>4. ASSUME NEW w \in Worker, Commit(w) PROVE ChangesInv'
    <2>1. /\ pc[w] = "commit" /\ Busy(w) /\ UNCHANGED <<request, trans, found>> /\ Write(trans[w])
          /\ answer' = [answer EXCEPT ![request[w]] = "done"] /\ pc' = [pc EXCEPT ![w] = "release"]
      BY <1>4 DEF Commit, Busy, GoTo
    <2>2. /\ Done \subseteq Done' /\ request[w] \in Done'
          /\ \A v \in Worker : (v # w /\ Busy(v)) => answer'[request[v]] = "none"
      BY <2>1, AnswerKeepsDone
    <2>3. /\ \A v \in Worker : v # w => pc'[v] = pc[v]
          /\ pc'[w] = "release"
      BY <1>0, <2>1
    <2>4. RequestsDiffer' /\ RequestIsOpen'
      BY <2>1, <2>2, <2>3 DEF ChangesInv, RequestsDiffer, RequestIsOpen, Busy
    <2>5. RecordsAreDone'
      <3>1. /\ DOMAIN records' = DOMAIN records \cup DOMAIN trans[w]
            /\ \A i \in DOMAIN trans[w] : records'[i] = trans[w][i]
            /\ \A i \in DOMAIN records \ DOMAIN trans[w] : records'[i] = records[i]
        BY <2>1, CommitWrites
      <3>2. \A i \in DOMAIN trans[w] : trans[w][i].changes \subseteq Done \cup {request[w]}
        BY <1>0, <2>1 DEF BatchIsOwn
      <3> QED
        BY <1>0, <2>2, <3>1, <3>2 DEF RecordsAreDone
    <2>6. FoundIsDone' /\ BatchIsOwn'
      BY <1>0, <2>1, <2>2, <2>3 DEF FoundIsDone, BatchIsOwn, Busy
    <2> QED
      BY <2>4, <2>5, <2>6 DEF ChangesInv
  <1>5. CASE UNCHANGED vars
    BY <1>5 DEF vars, data, ChangesInv, RequestsDiffer, RequestIsOpen, RecordsAreDone, FoundIsDone,
                BatchIsOwn, Busy, Done
  <1> QED
    BY <1>1, <1>2, <1>3, <1>4, <1>5, StartChangesInv DEF Next, Step

\* ManageDataAction: an exception, if at the last payload, leaves no record with a
\* trace of the request.
THEOREM SpecRefusedChangesNothing == Spec => []RefusedChangesNothing
  <1>1. ChangesInv => RefusedChangesNothing
    BY DEF ChangesInv, RecordsAreDone, Done, RefusedChangesNothing
  <1>2. Spec => []ChangesInv
    BY InitChangesInv, SpecDataInv, NextChangesInv, PTL DEF Spec
  <1> QED
    BY <1>1, <1>2, PTL

-----------------------------------------------------------------------------
\* The unique index leads to every record.
IndexIsComplete == \A i \in DOMAIN records : index[records[i].name] = i

\* A handler holds the names of its new records, and no record has them.
UnwrittenIsHeld ==
  \A w \in Worker : Busy(w) => \A i \in Unwritten(w) :
    /\ trans[w][i].name \in inset[w] /\ index[trans[w][i].name] = 0
    /\ \A j \in Unwritten(w) : trans[w][j].name = trans[w][i].name => i = j

\* A name is reserved once in a request, before a new record of it is made.
HeldIsNew ==
  \A w \in Worker :
    /\ pc[w] = "claim" => Head(payloads[w]) \notin inset[w]
    /\ (action[w] # "reset" /\ (pc[w] = "add" \/ (ReserveFirst /\ pc[w] = "read"))) =>
         /\ Head(payloads[w]) \in inset[w]
         /\ \A i \in Unwritten(w) : trans[w][i].name # Head(payloads[w])

\* ResetPass is of users and writes records that it has found.
ResetFinds ==
  \A w \in Worker : (action[w] = "reset" /\ pc[w] # "idle") =>
    ~ReserveFirst /\ pc[w] \notin {"check", "claim"} /\ (pc[w] = "add" => found[w].id # 0)

UniqueInv == ResetFinds /\ (raced \/ (IndexIsComplete /\ UnwrittenIsHeld /\ HeldIsNew))

\* Every record that was copied has its key.
LEMMA InitUniqueInv == Init => UniqueInv
  <1> SUFFICES ASSUME Init PROVE UniqueInv
    OBVIOUS
  <1>1. PICK id \in [Replicated -> FirstId..(FirstId + Cardinality(Replicated) - 1)] :
          /\ index = [n \in Name |-> IF n \in Replicated THEN id[n] ELSE 0]
          /\ \E name \in [{id[n] : n \in Replicated} -> Replicated] :
               /\ \A n \in Replicated : name[id[n]] = n
               /\ records = [i \in DOMAIN name |-> [name |-> name[i], changes |-> {}]]
    BY DEF Init
  <1>2. PICK name \in [{id[n] : n \in Replicated} -> Replicated] :
          /\ \A n \in Replicated : name[id[n]] = n
          /\ records = [i \in DOMAIN name |-> [name |-> name[i], changes |-> {}]]
    BY <1>1
  <1>3. IndexIsComplete
    BY <1>1, <1>2, ManageDataAssumption DEF IndexIsComplete
  <1>4. ResetFinds /\ UnwrittenIsHeld /\ HeldIsNew
    BY DEF Init, ResetFinds, UnwrittenIsHeld, HeldIsNew, Busy
  <1> QED
    BY <1>3, <1>4 DEF UniqueInv

\* ResetFinds is inductive.
LEMMA NextResetFinds == DataInv /\ ResetFinds /\ [Next]_vars => ResetFinds'
  <1> SUFFICES ASSUME DataInv, ResetFinds, [Next]_vars PROVE ResetFinds'
    OBVIOUS
  <1>0. TypeOK /\ HasWork
    BY DEF DataInv
  <1>1. ASSUME NEW w \in Worker, Start(w), UNCHANGED service PROVE ResetFinds'
    <2>1. PICK a \in Action, k \in 1..MaxPayload :
            /\ a = "reset" => HasReset
            /\ action' = [action EXCEPT ![w] = a] /\ pc' = [pc EXCEPT ![w] = FirstStep(a)]
      BY <1>1 DEF Start, GoTo
    <2>2. \A v \in Worker : v # w => action'[v] = action[v] /\ pc'[v] = pc[v]
      BY <1>0, <2>1 DEF TypeOK
    <2>3. action'[w] = a /\ pc'[w] = FirstStep(a)
      BY <1>0, <2>1 DEF TypeOK
    <2>5. FirstStep(a) # "add" /\ FirstStep(a) # "claim" /\ (a = "reset" => FirstStep(a) = "read")
      BY DEF FirstStep
    <2>4. found' = found /\ ReserveFirst' = ReserveFirst /\ (HasReset => ~ReserveFirst)
      BY <1>1 DEF Start, ReserveFirst, HasReset
    <2> QED
      BY <2>1, <2>2, <2>3, <2>4, <2>5 DEF ResetFinds
  <1>2. ASSUME NEW w \in Worker, Read(w), UNCHANGED service PROVE ResetFinds'
    <2> DEFINE n == Head(payloads[w])
    <2>1. /\ found' = [found EXCEPT ![w] = Stored(n)] /\ action' = action /\ pc[w] = "read"
          /\ \/ pc' = [pc EXCEPT ![w] = "release"]
             \/ pc' = [pc EXCEPT ![w] = "add"] /\ Fits(w, Stored(n))
             \/ pc' = [pc EXCEPT ![w] = "check"] /\ action[w] # "reset"
      BY <1>2 DEF Read, Refuse, GoTo
    <2> HIDE DEF n
    <2>2. \A v \in Worker : v # w => found'[v] = found[v] /\ pc'[v] = pc[v]
      BY <1>0, <2>1 DEF TypeOK
    <2>3. found'[w] = Stored(n)
      BY <1>0, <2>1 DEF TypeOK
    <2>4. Fits(w, Stored(n)) /\ action[w] = "reset" => Stored(n).id # 0
      BY DEF Fits
    <2>6. \/ pc'[w] = "release"
          \/ pc'[w] = "add" /\ Fits(w, Stored(n))
          \/ pc'[w] = "check" /\ action[w] # "reset"
      BY <1>0, <2>1 DEF TypeOK
    <2>5. ReserveFirst' = ReserveFirst
      BY <1>2 DEF ReserveFirst
    <2> QED
      BY <2>1, <2>2, <2>3, <2>4, <2>5, <2>6 DEF ResetFinds
  \* A reset does not reserve, and goes from the last payload to the commit.
  <1>3. ASSUME NEW w \in Worker, CheckName(w) \/ Claim(w) \/ AddRecord(w) \/ Commit(w) \/ Release(w),
               UNCHANGED service PROVE ResetFinds'
    <2>1. UNCHANGED <<action, found>> /\ ReserveFirst' = ReserveFirst /\ pc[w] # "idle"
      BY <1>3 DEF CheckName, Claim, AddRecord, Commit, Release, ReserveFirst
    <2>2. \/ pc[w] \in {"check", "claim"} /\ \E s : pc' = [pc EXCEPT ![w] = s]
          \/ pc' = pc
          \/ \E s \in {"idle", "release", "commit", FirstStep(action[w])} : pc' = [pc EXCEPT ![w] = s]
      BY <1>3 DEF CheckName, Claim, AddRecord, Commit, Release, Refuse, NextPayload, GoTo
    <2>3. action[w] = "reset" => FirstStep(action[w]) = "read"
      BY DEF FirstStep
    <2>4. \A v \in Worker : v # w => pc'[v] = pc[v]
      BY <1>0, <2>2 DEF TypeOK
    <2>5. \/ pc[w] \in {"check", "claim"}
          \/ pc'[w] \in {pc[w], "idle", "release", "commit", FirstStep(action[w])}
      BY <1>0, <2>2 DEF TypeOK
    <2> QED
      BY <2>1, <2>3, <2>4, <2>5 DEF ResetFinds
  <1>4. UNCHANGED vars => ResetFinds'
    BY DEF vars, ResetFinds, ReserveFirst
  <1> QED
    BY <1>1, <1>2, <1>3, <1>4 DEF Next, Step

\* A step of w that writes no record concerns what w holds and is about to write alone.
LEMMA StillUnique ==
  ASSUME NEW w \in Worker, IndexIsComplete, UnwrittenIsHeld, HeldIsNew,
         UNCHANGED <<service, index, records>>,
         \A v \in Worker : v # w => /\ pc'[v] = pc[v] /\ payloads'[v] = payloads[v]
                                    /\ action'[v] = action[v]
                                    /\ trans'[v] = trans[v] /\ inset'[v] = inset[v],
         Busy(w)' => \A i \in Unwritten(w)' :
           /\ trans'[w][i].name \in inset'[w] /\ index[trans'[w][i].name] = 0
           /\ \A j \in Unwritten(w)' : trans'[w][j].name = trans'[w][i].name => i = j,
         pc'[w] = "claim" => Head(payloads'[w]) \notin inset'[w],
         (action'[w] # "reset" /\ (pc'[w] = "add" \/ (ReserveFirst /\ pc'[w] = "read"))) =>
           /\ Head(payloads'[w]) \in inset'[w]
           /\ \A i \in Unwritten(w)' : trans'[w][i].name # Head(payloads'[w])
  PROVE  (IndexIsComplete /\ UnwrittenIsHeld /\ HeldIsNew)'
  <1>1. IndexIsComplete'
    BY DEF IndexIsComplete
  <1>2. \A v \in Worker : v # w => Unwritten(v)' = Unwritten(v) /\ Busy(v)' = Busy(v)
    BY DEF Unwritten, Busy
  <1>3. UnwrittenIsHeld'
    BY <1>2 DEF UnwrittenIsHeld
  <1>4. HeldIsNew'
    BY <1>2 DEF HeldIsNew, ReserveFirst
  <1> QED
    BY <1>1, <1>3, <1>4

\* UniqueInv is inductive, with what is reserved and what the batches hold.
LEMMA NextUniqueInv == DataInv /\ ReserveInv /\ UniqueInv /\ [Next]_vars => UniqueInv'
  <1> SUFFICES ASSUME DataInv, ReserveInv, UniqueInv, [Next]_vars, ~raced'
               PROVE  (IndexIsComplete /\ UnwrittenIsHeld /\ HeldIsNew)'
    BY NextResetFinds DEF UniqueInv
  <1>0. /\ TypeOK /\ HasWork /\ FoundIsRecord /\ TransAgrees /\ IndexIsSound /\ DOMAIN trans = Worker
        /\ ResetFinds
    BY DEF DataInv, UniqueInv
  <1>1. CASE UNCHANGED vars
    BY <1>1 DEF vars, data, UniqueInv, IndexIsComplete, UnwrittenIsHeld, HeldIsNew, Unwritten, Busy,
                ReserveFirst
  <1>2. ASSUME NEW w \in Worker, Start(w) \/ Step(w) PROVE ~raced
    BY <1>2 DEF Start, Step, Read, CheckName, Claim, AddRecord, Commit, Release
  <1>3. ASSUME NEW w \in Worker, Start(w), UNCHANGED service
        PROVE  (IndexIsComplete /\ UnwrittenIsHeld /\ HeldIsNew)'
    <2>1. PICK a \in Action, k \in 1..MaxPayload :
            /\ a = "reset" => HasReset
            /\ \E names \in [1..k -> Name] : payloads' = [payloads EXCEPT ![w] = names]
            /\ action' = [action EXCEPT ![w] = a] /\ pc' = [pc EXCEPT ![w] = FirstStep(a)]
      BY <1>3 DEF Start, GoTo
    <2>2. trans' = [trans EXCEPT ![w] = NoRecords] /\ UNCHANGED <<inset, index, records>>
      BY <1>3 DEF Start, data
    <2>3. Unwritten(w)' = {}
      BY <1>0, <2>2 DEF Unwritten, NoRecords
    <2>4. \A v \in Worker : v # w => /\ pc'[v] = pc[v] /\ payloads'[v] = payloads[v]
                                     /\ action'[v] = action[v]
                                     /\ trans'[v] = trans[v] /\ inset'[v] = inset[v]
      BY <1>0, <2>1, <2>2 DEF TypeOK
    <2>5. pc'[w] = FirstStep(a) /\ action'[w] = a
      BY <1>0, <2>1 DEF TypeOK
    <2>6. pc'[w] \notin {"claim", "add"} /\ (ReserveFirst /\ pc'[w] = "read" => action'[w] = "reset")
      BY <2>5 DEF FirstStep
    <2> QED
      BY <1>2, <1>3, <2>2, <2>3, <2>4, <2>6, StillUnique DEF UniqueInv
  <1>4. ASSUME NEW w \in Worker, Read(w), UNCHANGED service
        PROVE  (IndexIsComplete /\ UnwrittenIsHeld /\ HeldIsNew)'
    <2>1. pc[w] = "read" /\ UNCHANGED <<action, payloads, trans, inset, index, records>>
      BY <1>4 DEF Read, data
    <2>2. \/ pc' = [pc EXCEPT ![w] = "release"] \/ pc' = [pc EXCEPT ![w] = "check"]
          \/ pc' = [pc EXCEPT ![w] = "add"] /\ (ReserveFirst \/ action[w] = "reset")
      BY <1>4 DEF Read, Refuse, GoTo
    <2>3. \/ pc'[w] \in {"release", "check"}
          \/ pc'[w] = "add" /\ (ReserveFirst \/ action[w] = "reset")
      BY <1>0, <2>2 DEF TypeOK
    <2>4. \A v \in Worker : v # w => pc'[v] = pc[v]
      BY <1>0, <2>2 DEF TypeOK
    <2>5. Busy(w) /\ Unwritten(w)' = Unwritten(w)
      BY <2>1 DEF Busy, Unwritten
    <2>6. IndexIsComplete /\ UnwrittenIsHeld /\ HeldIsNew
      BY <1>2, <1>4 DEF UniqueInv, Step
    <2>7. (action[w] # "reset" /\ pc'[w] = "add") =>
            /\ Head(payloads[w]) \in inset[w]
            /\ \A i \in Unwritten(w) : trans[w][i].name # Head(payloads[w])
      BY <2>1, <2>3, <2>6 DEF HeldIsNew
    <2>8. \A i \in Unwritten(w) :
            /\ trans[w][i].name \in inset[w] /\ index[trans[w][i].name] = 0
            /\ \A j \in Unwritten(w) : trans[w][j].name = trans[w][i].name => i = j
      BY <2>5, <2>6 DEF UnwrittenIsHeld
    <2> QED
      BY <1>4, <2>1, <2>3, <2>4, <2>5, <2>6, <2>7, <2>8, StillUnique
  <1>5. ASSUME NEW w \in Worker, CheckName(w), UNCHANGED service
        PROVE  (IndexIsComplete /\ UnwrittenIsHeld /\ HeldIsNew)'
    <2>1. pc[w] = "check" /\ UNCHANGED <<action, payloads, trans, inset, index, records>>
      BY <1>5 DEF CheckName, data
    <2>2. \/ pc' = [pc EXCEPT ![w] = "release"]
          \/ pc' = [pc EXCEPT ![w] = "claim"] /\ Head(payloads[w]) \notin inset[w]
      BY <1>5 DEF CheckName, Refuse, GoTo
    <2>3. pc'[w] = "release" \/ (pc'[w] = "claim" /\ Head(payloads[w]) \notin inset[w])
      BY <1>0, <2>2 DEF TypeOK
    <2>4. \A v \in Worker : v # w => pc'[v] = pc[v]
      BY <1>0, <2>2 DEF TypeOK
    <2>5. Busy(w) /\ Unwritten(w)' = Unwritten(w)
      BY <2>1 DEF Busy, Unwritten
    <2>6. IndexIsComplete /\ UnwrittenIsHeld /\ HeldIsNew
      BY <1>2, <1>5 DEF UniqueInv, Step
    <2>7. \A i \in Unwritten(w) :
            /\ trans[w][i].name \in inset[w] /\ index[trans[w][i].name] = 0
            /\ \A j \in Unwritten(w) : trans[w][j].name = trans[w][i].name => i = j
      BY <2>5, <2>6 DEF UnwrittenIsHeld
    <2> QED
      BY <1>5, <2>1, <2>3, <2>4, <2>5, <2>6, <2>7, StillUnique
  \* The names of new records are held, and this one was not.
  <1>6. ASSUME NEW w \in Worker, Claim(w), UNCHANGED service
        PROVE  (IndexIsComplete /\ UnwrittenIsHeld /\ HeldIsNew)'
    <2> DEFINE n == Head(payloads[w])
    <2>1. /\ pc[w] = "claim" /\ UNCHANGED <<action, payloads, trans, index, records>>
          /\ inset' = [inset EXCEPT ![w] = @ \cup {n}]
          /\ \E s \in {"read", "add"} : pc' = [pc EXCEPT ![w] = s]
      BY <1>6 DEF Claim, data, GoTo
    <2>2. inset'[w] = inset[w] \cup {n} /\ pc'[w] # "claim"
      BY <1>0, <2>1 DEF TypeOK
    <2>3. \A v \in Worker : v # w => pc'[v] = pc[v] /\ inset'[v] = inset[v]
      BY <1>0, <2>1 DEF TypeOK
    <2>4. Busy(w) /\ Unwritten(w)' = Unwritten(w)
      BY <2>1 DEF Busy, Unwritten
    <2>5. IndexIsComplete /\ UnwrittenIsHeld /\ HeldIsNew
      BY <1>2, <1>6 DEF UniqueInv, Step
    <2>6. n \notin inset[w]
      BY <2>1, <2>5 DEF HeldIsNew
    <2>7. \A i \in Unwritten(w) :
            /\ trans[w][i].name \in inset[w] /\ index[trans[w][i].name] = 0
            /\ \A j \in Unwritten(w) : trans[w][j].name = trans[w][i].name => i = j
      BY <2>4, <2>5 DEF UnwrittenIsHeld
    <2>8. \A i \in Unwritten(w) : trans[w][i].name # n
      BY <2>6, <2>7
    <2> QED
      BY <1>6, <2>1, <2>2, <2>3, <2>4, <2>5, <2>7, <2>8, StillUnique
  <1>7. ASSUME NEW w \in Worker, Release(w), UNCHANGED service
        PROVE  (IndexIsComplete /\ UnwrittenIsHeld /\ HeldIsNew)'
    <2>1. /\ pc[w] = "release" /\ UNCHANGED <<action, payloads, trans, index, records>>
          /\ \/ pc' = pc /\ \E n : inset' = [inset EXCEPT ![w] = @ \ {n}]
             \/ pc' = [pc EXCEPT ![w] = "idle"] /\ inset' = inset
      BY <1>7 DEF Release, data, GoTo
    <2>2. pc'[w] \in {"release", "idle"}
      BY <1>0, <2>1 DEF TypeOK
    <2>3. \A v \in Worker : v # w => pc'[v] = pc[v] /\ inset'[v] = inset[v]
      BY <1>0, <2>1 DEF TypeOK
    <2>4. IndexIsComplete /\ UnwrittenIsHeld /\ HeldIsNew /\ ~Busy(w)'
      BY <1>2, <1>7, <2>2 DEF UniqueInv, Step, Busy
    <2> QED
      BY <1>7, <2>1, <2>2, <2>3, <2>4, StillUnique
  \* A new record is of a name that the request holds and that leads to no record.
  <1>8. ASSUME NEW w \in Worker, AddRecord(w), UNCHANGED service
        PROVE  (IndexIsComplete /\ UnwrittenIsHeld /\ HeldIsNew)'
    <2> DEFINE n == Head(payloads[w])
               i == IdFor(w)
    <2>1. pc[w] = "add" /\ n \in Name /\ UNCHANGED <<action, inset, index, records>>
      BY <1>0, <1>8, HeadAndTail DEF AddRecord, data, HasWork, TypeOK
    <2>2. IndexIsComplete /\ UnwrittenIsHeld /\ HeldIsNew
      BY <1>2, <1>8 DEF UniqueInv, Step
    <2>3. \A j \in Unwritten(w) :
            /\ trans[w][j].name \in inset[w] /\ index[trans[w][j].name] = 0
            /\ \A k \in Unwritten(w) : trans[w][k].name = trans[w][j].name => j = k
      BY <2>1, <2>2 DEF UnwrittenIsHeld, Busy
    <2>4. CASE Clash(w)
      <3>1. pc' = [pc EXCEPT ![w] = "release"] /\ UNCHANGED <<payloads, trans>>
        BY <1>8, <2>4 DEF AddRecord, Refuse, GoTo
      <3>2. pc'[w] = "release" /\ \A v \in Worker : v # w => pc'[v] = pc[v]
        BY <1>0, <3>1 DEF TypeOK
      <3>3. ~Busy(w)'
        BY <3>2 DEF Busy
      <3> QED
        BY <1>8, <2>1, <2>2, <3>1, <3>2, <3>3, StillUnique
    <2>5. CASE ~Clash(w)
      <3>1. /\ trans' = [trans EXCEPT ![w] = Over(Changed(w), trans[w])]
            /\ payloads' = [payloads EXCEPT ![w] = Tail(payloads[w])]
            /\ pc' = [pc EXCEPT ![w] = IF Len(payloads[w]) = 1 THEN "commit" ELSE FirstStep(action[w])]
        BY <1>0, <1>8, <2>5 DEF AddRecord, NextPayload, GoTo, TypeOK
      <3>2. \A v \in Worker : v # w => /\ pc'[v] = pc[v] /\ payloads'[v] = payloads[v]
                                       /\ trans'[v] = trans[v]
        BY <1>0, <3>1 DEF TypeOK
      <3>3. pc'[w] \notin {"claim", "add"} /\ (ReserveFirst /\ pc'[w] = "read" => action[w] = "reset")
        <4>1. pc'[w] = "commit" \/ pc'[w] = FirstStep(action[w])
          BY <1>0, <3>1 DEF TypeOK
        <4> QED
          BY <4>1 DEF FirstStep
      <3>4. /\ DOMAIN trans'[w] = DOMAIN trans[w] \cup {i} /\ trans'[w][i].name = n
            /\ \A j \in DOMAIN trans[w] \ {i} : trans'[w][j] = trans[w][j]
        BY <1>0, <3>1 DEF Over, Changed
      <3>5. CASE i \in DOMAIN records
        <4>1. Unwritten(w)' = Unwritten(w) /\ \A j \in Unwritten(w) : trans'[w][j] = trans[w][j]
          BY <2>1, <3>4, <3>5 DEF Unwritten
        <4> QED
          BY <1>8, <2>1, <2>2, <2>3, <3>2, <3>3, <4>1, StillUnique
      <3>6. CASE i \notin DOMAIN records
        <4>1. found[w].id = 0
          BY <1>0, <2>1, <3>6 DEF FoundIsRecord, IdFor
        <4>2. action[w] # "reset"
          BY <1>0, <2>1, <4>1 DEF ResetFinds
        <4>3. n \in inset[w] /\ \A j \in Unwritten(w) : trans[w][j].name # n
          BY <2>1, <2>2, <4>2 DEF HeldIsNew
        <4>4. index[n] = 0
          BY <1>0, <2>1, <2>5, <3>6 DEF Clash, IndexIsSound
        <4>5. Unwritten(w)' = Unwritten(w) \cup {i}
          BY <2>1, <3>4, <3>6 DEF Unwritten
        <4>6. \A j \in Unwritten(w) : j # i => trans'[w][j] = trans[w][j]
          BY <3>4 DEF Unwritten
        <4> HIDE DEF n, i
        <4>7. \A j \in Unwritten(w)' :
                /\ trans'[w][j].name \in inset'[w] /\ index[trans'[w][j].name] = 0
                /\ \A k \in Unwritten(w)' : trans'[w][k].name = trans'[w][j].name => j = k
          BY <2>1, <2>3, <3>4, <4>3, <4>4, <4>5, <4>6
        <4> QED
          BY <1>8, <2>1, <2>2, <3>2, <3>3, <4>7, StillUnique
      <3> QED
        BY <3>5, <3>6
    <2> QED
      BY <2>4, <2>5
  \* What is written has names that nobody else holds.
  <1>9. ASSUME NEW w \in Worker, Commit(w), UNCHANGED service
        PROVE  (IndexIsComplete /\ UnwrittenIsHeld /\ HeldIsNew)'
    <2>1. /\ pc[w] = "commit" /\ Write(trans[w]) /\ pc' = [pc EXCEPT ![w] = "release"]
          /\ UNCHANGED <<action, payloads, trans, inset>>
      BY <1>9 DEF Commit, GoTo
    <2>2. IndexIsComplete /\ UnwrittenIsHeld /\ HeldIsNew /\ HeldByOne /\ ~raced
      BY <1>2, <1>9 DEF UniqueInv, Step, ReserveInv
    <2>3. \A j \in Unwritten(w) :
            /\ trans[w][j].name \in inset[w] /\ index[trans[w][j].name] = 0
            /\ \A k \in Unwritten(w) : trans[w][k].name = trans[w][j].name => j = k
      BY <2>1, <2>2 DEF UnwrittenIsHeld, Busy
    <2>4. /\ DOMAIN records' = DOMAIN records \cup DOMAIN trans[w]
          /\ \A i \in DOMAIN trans[w] : records'[i] = trans[w][i]
          /\ \A i \in DOMAIN records : records'[i].name = records[i].name
      BY <2>1, CommitWrites
    <2>5. \A n \in Name :
            \/ index'[n] = index[n] /\ \A i \in Unwritten(w) : trans[w][i].name # n
            \/ index'[n] \in Unwritten(w) /\ trans[w][index'[n]].name = n
      BY <2>1, CommitWrites
    <2>6. IndexIsComplete'
      <3>1. ASSUME NEW i \in Unwritten(w) PROVE index'[records'[i].name] = i
        <4>1. i \in DOMAIN trans[w] /\ records'[i].name = trans[w][i].name /\ trans[w][i].name \in Name
          BY <1>0, <2>4 DEF Unwritten, TypeOK, Record
        <4> QED
          BY <2>3, <2>5, <4>1
      <3>2. ASSUME NEW i \in DOMAIN records PROVE index'[records'[i].name] = i
        <4>1. records'[i].name = records[i].name /\ records[i].name \in Name
          BY <1>0, <2>4 DEF TypeOK, Record
        <4>2. index[records[i].name] = i /\ i # 0
          BY <1>0, <2>2 DEF IndexIsComplete, TypeOK, FirstId
        <4> QED
          BY <2>3, <2>5, <4>1, <4>2
      <3>3. \A i \in DOMAIN records' : i \in Unwritten(w) \/ i \in DOMAIN records
        BY <2>4 DEF Unwritten
      <3> QED
        BY <3>1, <3>2, <3>3 DEF IndexIsComplete
    <2>7. /\ \A v \in Worker : v # w => pc'[v] = pc[v]
          /\ pc'[w] = "release"
      BY <1>0, <2>1 DEF TypeOK
    <2>8. \A v \in Worker : Unwritten(v)' \subseteq Unwritten(v)
      BY <2>1, <2>4 DEF Unwritten
    <2>9. UnwrittenIsHeld'
      <3> SUFFICES ASSUME NEW v \in Worker, Busy(v)', NEW i \in Unwritten(v)'
                   PROVE  /\ trans'[v][i].name \in inset'[v] /\ index'[trans'[v][i].name] = 0
                          /\ \A j \in Unwritten(v)' : trans'[v][j].name = trans'[v][i].name => i = j
        BY DEF UnwrittenIsHeld
      <3>1. v # w /\ Busy(v) /\ i \in Unwritten(v)
        BY <2>7, <2>8 DEF Busy
      <3>2. /\ trans[v][i].name \in inset[v] /\ index[trans[v][i].name] = 0
            /\ \A j \in Unwritten(v) : trans[v][j].name = trans[v][i].name => i = j
        BY <2>2, <3>1 DEF UnwrittenIsHeld
      <3>3. trans[v][i].name \in Name
        BY <1>0, <3>1 DEF Unwritten, TypeOK, Record
      <3>4. trans[v][i].name \notin inset[w]
        BY <2>2, <3>1, <3>2 DEF HeldByOne
      <3>5. index'[trans[v][i].name] = 0
        BY <2>3, <2>5, <3>2, <3>3, <3>4
      <3> QED
        BY <2>1, <2>8, <3>2, <3>5
    <2>10. HeldIsNew'
      BY <1>9, <2>1, <2>2, <2>7, <2>8 DEF HeldIsNew, ReserveFirst
    <2> QED
      BY <2>6, <2>9, <2>10
  <1> QED
    BY <1>1, <1>3, <1>4, <1>5, <1>6, <1>7, <1>8, <1>9 DEF Next, Step

\* AddRecord and TempNameCache: there are not two records of one name unless two
\* requests have been between CheckAssoc and SetAssoc for one name, whether the record
\* is read before its name is reserved or after.
THEOREM SpecOneRecordPerName == Spec => []OneRecordPerName
  <1>1. UniqueInv => OneRecordPerName
    BY DEF UniqueInv, IndexIsComplete, OneRecordPerName, NamesAreUnique
  <1>2. Spec => []UniqueInv
    BY InitUniqueInv, SpecDataInv, SpecReserveInv, NextUniqueInv, PTL DEF Spec
  <1> QED
    BY <1>1, <1>2, PTL

-----------------------------------------------------------------------------
\* The records a handler is about to write are of names it holds, and are those of the
\* database with its request added.
BatchIsHeld ==
  \A w \in Worker : Busy(w) => \A i \in DOMAIN trans[w] : trans[w][i].name \in inset[w]
BatchIsCurrent ==
  \A w \in Worker : Busy(w) => \A i \in DOMAIN trans[w] :
    trans[w][i].changes =
      (IF i \in DOMAIN records THEN records[i].changes ELSE {}) \cup {request[w]}

\* What it has read is what there is.
FoundIsCurrent == \A w \in Worker : pc[w] = "add" => found[w] = Stored(Head(payloads[w]))

\* A handler that commits has something to write.
BatchIsFull == \A w \in Worker : pc[w] = "commit" => DOMAIN trans[w] # {}

StoreInv ==
  BatchIsFull /\ (raced \/ ~ReserveFirst \/ (BatchIsHeld /\ BatchIsCurrent /\ FoundIsCurrent))

\* Nobody has a batch when the process starts.
LEMMA InitStoreInv == Init => StoreInv
  BY DEF Init, StoreInv, BatchIsFull, BatchIsHeld, BatchIsCurrent, FoundIsCurrent, Busy

\* A handler commits after its last payload, and each payload adds a record.
LEMMA NextBatchIsFull == DataInv /\ BatchIsFull /\ [Next]_vars => BatchIsFull'
  <1> SUFFICES ASSUME DataInv, BatchIsFull, [Next]_vars PROVE BatchIsFull'
    OBVIOUS
  <1>0. TypeOK /\ DOMAIN trans = Worker
    BY DEF DataInv
  <1>1. ASSUME NEW w \in Worker, AddRecord(w) PROVE BatchIsFull'
    <2>1. pc[w] = "add" /\ \E s : pc' = [pc EXCEPT ![w] = s]
      BY <1>1 DEF AddRecord, Refuse, NextPayload, GoTo
    <2>2. \/ pc' = [pc EXCEPT ![w] = "release"] /\ trans' = trans
          \/ trans' = [trans EXCEPT ![w] = Over(Changed(w), trans[w])]
      BY <1>0, <1>1 DEF AddRecord, Refuse, GoTo
    <2>3. DOMAIN Over(Changed(w), trans[w]) # {}
      BY DEF Over, Changed
    <2>4. \A v \in Worker : v # w => pc'[v] = pc[v] /\ trans'[v] = trans[v]
      BY <1>0, <2>1, <2>2 DEF TypeOK
    <2>5. pc'[w] = "release" \/ trans'[w] = Over(Changed(w), trans[w])
      BY <1>0, <2>2 DEF TypeOK
    <2> QED
      BY <2>3, <2>4, <2>5 DEF BatchIsFull
  <1>2. ASSUME NEW w \in Worker, Start(w) PROVE BatchIsFull'
    <2>1. PICK a \in Action : pc' = [pc EXCEPT ![w] = FirstStep(a)]
      BY <1>2 DEF Start, GoTo
    <2>2. trans' = [trans EXCEPT ![w] = NoRecords]
      BY <1>2 DEF Start
    <2>3. \A v \in Worker : v # w => pc'[v] = pc[v] /\ trans'[v] = trans[v]
      BY <1>0, <2>1, <2>2 DEF TypeOK
    <2>4. pc'[w] # "commit"
      BY <1>0, <2>1, FirstStepIsPhase DEF TypeOK
    <2> QED
      BY <2>3, <2>4 DEF BatchIsFull
  <1>3. ASSUME NEW w \in Worker, Read(w) \/ CheckName(w) \/ Claim(w) \/ Commit(w) \/ Release(w)
        PROVE  BatchIsFull'
    <2>1. /\ trans' = trans
          /\ \/ pc' = pc
             \/ \E s \in {"check", "claim", "read", "add", "release", "idle"} : pc' = [pc EXCEPT ![w] = s]
      BY <1>3 DEF Read, CheckName, Claim, Commit, Release, Refuse, GoTo
    <2>2. \A v \in Worker : pc'[v] = "commit" => pc[v] = "commit"
      BY <1>0, <2>1 DEF TypeOK
    <2> QED
      BY <2>1, <2>2 DEF BatchIsFull
  <1>4. UNCHANGED vars => BatchIsFull'
    BY DEF vars, BatchIsFull
  <1> QED
    BY <1>1, <1>2, <1>3, <1>4 DEF Next, Step

\* A step of w that writes no record.
LEMMA StillCurrent ==
  ASSUME NEW w \in Worker, BatchIsHeld, BatchIsCurrent, FoundIsCurrent,
         UNCHANGED <<index, records>>,
         \A v \in Worker : v # w => /\ pc'[v] = pc[v] /\ payloads'[v] = payloads[v]
                                    /\ request'[v] = request[v] /\ found'[v] = found[v]
                                    /\ trans'[v] = trans[v] /\ inset'[v] = inset[v],
         Busy(w)' => \A i \in DOMAIN trans'[w] :
           /\ trans'[w][i].name \in inset'[w]
           /\ trans'[w][i].changes =
                (IF i \in DOMAIN records THEN records[i].changes ELSE {}) \cup {request'[w]},
         pc'[w] = "add" => found'[w] = Stored(Head(payloads'[w]))
  PROVE  (BatchIsHeld /\ BatchIsCurrent /\ FoundIsCurrent)'
  <1>1. \A v \in Worker : v # w => Busy(v)' = Busy(v)
    BY DEF Busy
  <1>2. BatchIsHeld'
    BY <1>1 DEF BatchIsHeld
  <1>3. BatchIsCurrent'
    BY <1>1 DEF BatchIsCurrent
  <1>4. FoundIsCurrent'
    BY DEF FoundIsCurrent, Stored
  <1> QED
    BY <1>2, <1>3, <1>4

\* StoreInv is inductive, with what is reserved and what the batches hold.
LEMMA NextStoreInv ==
  DataInv /\ ReserveInv /\ UniqueInv /\ StoreInv /\ [Next]_vars => StoreInv'
  <1> SUFFICES ASSUME DataInv, ReserveInv, UniqueInv, StoreInv, [Next]_vars,
                      ~raced', ReserveFirst'
               PROVE  (BatchIsHeld /\ BatchIsCurrent /\ FoundIsCurrent)'
    BY NextBatchIsFull DEF StoreInv
  <1>0. /\ TypeOK /\ HasWork /\ FoundIsRecord /\ TransAgrees /\ IndexIsSound /\ DOMAIN trans = Worker
        /\ ResetFinds
    BY DEF DataInv, UniqueInv
  <1>1. CASE UNCHANGED vars
    BY <1>1 DEF vars, data, StoreInv, BatchIsHeld, BatchIsCurrent, FoundIsCurrent, Busy, Stored,
                ReserveFirst
  <1>2. ASSUME NEW w \in Worker, Start(w) \/ Step(w), UNCHANGED service
        PROVE  /\ BatchIsHeld /\ BatchIsCurrent /\ FoundIsCurrent /\ HeldIsNew /\ HeldByOne
               /\ ReserveFirst /\ ~raced
    <2>1. ~raced
      BY <1>2 DEF Start, Step, Read, CheckName, Claim, AddRecord, Commit, Release
    <2> QED
      BY <1>2, <2>1 DEF StoreInv, UniqueInv, ReserveInv, ReserveFirst
  <1>3. ASSUME NEW w \in Worker, Start(w), UNCHANGED service
        PROVE  (BatchIsHeld /\ BatchIsCurrent /\ FoundIsCurrent)'
    <2>1. PICK a \in Action, k \in 1..MaxPayload :
            /\ \E names \in [1..k -> Name] : payloads' = [payloads EXCEPT ![w] = names]
            /\ pc' = [pc EXCEPT ![w] = FirstStep(a)]
      BY <1>3 DEF Start, GoTo
    <2>2. /\ trans' = [trans EXCEPT ![w] = NoRecords] /\ UNCHANGED <<found, inset, index, records>>
          /\ request' = [request EXCEPT ![w] = Len(answer) + 1]
      BY <1>3 DEF Start, data
    <2>3. DOMAIN trans'[w] = {} /\ pc'[w] # "add"
      BY <1>0, <2>1, <2>2, FirstStepIsPhase DEF NoRecords, TypeOK
    <2>4. \A v \in Worker : v # w => /\ pc'[v] = pc[v] /\ payloads'[v] = payloads[v]
                                     /\ request'[v] = request[v] /\ found'[v] = found[v]
                                     /\ trans'[v] = trans[v] /\ inset'[v] = inset[v]
      BY <1>0, <2>1, <2>2 DEF TypeOK
    <2> QED
      BY <1>2, <1>3, <2>2, <2>3, <2>4, StillCurrent
  <1>4. ASSUME NEW w \in Worker, Read(w), UNCHANGED service
        PROVE  (BatchIsHeld /\ BatchIsCurrent /\ FoundIsCurrent)'
    <2>1. /\ pc[w] = "read" /\ UNCHANGED <<request, payloads, trans, inset, index, records>>
          /\ found' = [found EXCEPT ![w] = Stored(Head(payloads[w]))]
          /\ \E s : pc' = [pc EXCEPT ![w] = s]
      BY <1>4 DEF Read, data, Refuse, GoTo
    <2>2. \A v \in Worker : v # w => pc'[v] = pc[v] /\ found'[v] = found[v]
      BY <1>0, <2>1 DEF TypeOK
    <2>3. found'[w] = Stored(Head(payloads'[w])) /\ Busy(w)
      BY <1>0, <2>1 DEF TypeOK, Busy
    <2>4. BatchIsHeld /\ BatchIsCurrent /\ FoundIsCurrent
      BY <1>2, <1>4 DEF Step
    <2>5. \A i \in DOMAIN trans[w] :
            /\ trans[w][i].name \in inset[w]
            /\ trans[w][i].changes =
                 (IF i \in DOMAIN records THEN records[i].changes ELSE {}) \cup {request[w]}
      BY <2>3, <2>4 DEF BatchIsHeld, BatchIsCurrent
    <2> QED
      BY <1>4, <2>1, <2>2, <2>3, <2>4, <2>5, StillCurrent
  <1>5. ASSUME NEW w \in Worker, CheckName(w) \/ Claim(w), UNCHANGED service
        PROVE  (BatchIsHeld /\ BatchIsCurrent /\ FoundIsCurrent)'
    <2>1. /\ pc[w] \in {"check", "claim"}
          /\ UNCHANGED <<request, payloads, found, trans, index, records>>
          /\ inset' = inset \/ inset' = [inset EXCEPT ![w] = @ \cup {Head(payloads[w])}]
      BY <1>5 DEF CheckName, Claim, data
    <2>2. BatchIsHeld /\ BatchIsCurrent /\ FoundIsCurrent /\ ReserveFirst
      BY <1>2, <1>5 DEF Step
    <2>3. \E s \in {"claim", "release", "read"} : pc' = [pc EXCEPT ![w] = s]
      BY <1>5, <2>2 DEF CheckName, Claim, Refuse, GoTo
    <2>4. \A v \in Worker : v # w => pc'[v] = pc[v] /\ inset'[v] = inset[v]
      BY <1>0, <2>1, <2>3 DEF TypeOK
    <2>5. pc'[w] # "add" /\ inset[w] \subseteq inset'[w] /\ Busy(w)
      BY <1>0, <2>1, <2>3 DEF TypeOK, Busy
    <2>6. \A i \in DOMAIN trans[w] :
            /\ trans[w][i].name \in inset[w]
            /\ trans[w][i].changes =
                 (IF i \in DOMAIN records THEN records[i].changes ELSE {}) \cup {request[w]}
      BY <2>2, <2>5 DEF BatchIsHeld, BatchIsCurrent
    <2> QED
      BY <1>5, <2>1, <2>2, <2>4, <2>5, <2>6, StillCurrent
  <1>6. ASSUME NEW w \in Worker, Release(w), UNCHANGED service
        PROVE  (BatchIsHeld /\ BatchIsCurrent /\ FoundIsCurrent)'
    <2>1. /\ pc[w] = "release" /\ UNCHANGED <<request, payloads, found, trans, index, records>>
          /\ \/ pc' = pc /\ \E n : inset' = [inset EXCEPT ![w] = @ \ {n}]
             \/ pc' = [pc EXCEPT ![w] = "idle"] /\ inset' = inset
      BY <1>6 DEF Release, data, GoTo
    <2>2. pc'[w] \in {"release", "idle"}
      BY <1>0, <2>1 DEF TypeOK
    <2>3. \A v \in Worker : v # w => pc'[v] = pc[v] /\ inset'[v] = inset[v]
      BY <1>0, <2>1 DEF TypeOK
    <2>4. BatchIsHeld /\ BatchIsCurrent /\ FoundIsCurrent /\ ~Busy(w)'
      BY <1>2, <1>6, <2>2 DEF Step, Busy
    <2> QED
      BY <1>6, <2>1, <2>2, <2>3, <2>4, StillCurrent
  \* The record was read while its name was held: it is that of the database.
  <1>7. ASSUME NEW w \in Worker, AddRecord(w), UNCHANGED service
        PROVE  (BatchIsHeld /\ BatchIsCurrent /\ FoundIsCurrent)'
    <2> DEFINE n == Head(payloads[w])
               i == IdFor(w)
    <2>1. /\ pc[w] = "add" /\ Busy(w) /\ n \in Name
          /\ UNCHANGED <<request, found, inset, index, records>>
      BY <1>0, <1>7, HeadAndTail DEF AddRecord, data, HasWork, TypeOK, Busy
    <2>2. BatchIsHeld /\ BatchIsCurrent /\ FoundIsCurrent /\ HeldIsNew /\ ReserveFirst
      BY <1>2, <1>7 DEF Step
    <2>3. n \in inset[w] /\ found[w] = Stored(n)
      BY <1>0, <2>1, <2>2 DEF HeldIsNew, ResetFinds, FoundIsCurrent
    <2>4. \A j \in DOMAIN trans[w] :
            /\ trans[w][j].name \in inset[w]
            /\ trans[w][j].changes =
                 (IF j \in DOMAIN records THEN records[j].changes ELSE {}) \cup {request[w]}
      BY <2>1, <2>2 DEF BatchIsHeld, BatchIsCurrent
    <2>5. CASE Clash(w)
      <3>1. pc' = [pc EXCEPT ![w] = "release"] /\ UNCHANGED <<payloads, trans>>
        BY <1>7, <2>5 DEF AddRecord, Refuse, GoTo
      <3>2. pc'[w] = "release" /\ \A v \in Worker : v # w => pc'[v] = pc[v]
        BY <1>0, <3>1 DEF TypeOK
      <3>3. ~Busy(w)'
        BY <3>2 DEF Busy
      <3> QED
        BY <1>7, <2>1, <2>2, <3>1, <3>2, <3>3, StillCurrent
    <2>6. CASE ~Clash(w)
      <3>1. /\ trans' = [trans EXCEPT ![w] = Over(Changed(w), trans[w])]
            /\ payloads' = [payloads EXCEPT ![w] = Tail(payloads[w])]
            /\ pc' = [pc EXCEPT ![w] = IF Len(payloads[w]) = 1 THEN "commit" ELSE FirstStep(action[w])]
        BY <1>0, <1>7, <2>6 DEF AddRecord, NextPayload, GoTo, TypeOK
      <3>2. /\ \A v \in Worker : v # w => /\ pc'[v] = pc[v] /\ payloads'[v] = payloads[v]
                                          /\ trans'[v] = trans[v]
            /\ pc'[w] # "add"
        BY <1>0, <3>1, FirstStepIsPhase DEF TypeOK
      <3>3. /\ DOMAIN trans'[w] = DOMAIN trans[w] \cup {i} /\ trans'[w][i].name = n
            /\ trans'[w][i].changes = found[w].changes \cup {request[w]}
            /\ \A j \in DOMAIN trans[w] \ {i} : trans'[w][j] = trans[w][j]
        BY <1>0, <3>1 DEF Over, Changed
      <3>4. found[w].changes = IF i \in DOMAIN records THEN records[i].changes ELSE {}
        <4>1. CASE found[w].id # 0
          <5>1. i = Stored(n).id
            BY <2>3, <4>1 DEF IdFor
          <5> QED
            BY <2>1, <2>3, <4>1, <5>1, StoredIsRecord
        <4>2. CASE found[w].id = 0
          BY <2>1, <2>3, <2>6, <4>2, StoredIsRecord DEF Clash
        <4> QED
          BY <4>1, <4>2
      <3> HIDE DEF n, i
      <3>5. \A j \in DOMAIN trans'[w] :
              /\ trans'[w][j].name \in inset'[w]
              /\ trans'[w][j].changes =
                   (IF j \in DOMAIN records THEN records[j].changes ELSE {}) \cup {request'[w]}
        BY <2>1, <2>3, <2>4, <3>3, <3>4
      <3> QED
        BY <1>7, <2>1, <2>2, <3>2, <3>5, StillCurrent
    <2> QED
      BY <2>5, <2>6
  \* A commit changes records of names that it holds alone.
  <1>8. ASSUME NEW w \in Worker, Commit(w), UNCHANGED service
        PROVE  (BatchIsHeld /\ BatchIsCurrent /\ FoundIsCurrent)'
    <2>1. /\ pc[w] = "commit" /\ Write(trans[w]) /\ pc' = [pc EXCEPT ![w] = "release"]
          /\ UNCHANGED <<request, payloads, found, trans, inset>> /\ Busy(w)
      BY <1>8 DEF Commit, GoTo, Busy
    <2>2. /\ BatchIsHeld /\ BatchIsCurrent /\ FoundIsCurrent /\ HeldIsNew /\ HeldByOne
          /\ ReserveFirst /\ ~raced
      BY <1>2, <1>8 DEF Step
    <2>3. /\ DOMAIN records' = DOMAIN records \cup DOMAIN trans[w]
          /\ \A i \in DOMAIN records \ DOMAIN trans[w] : records'[i] = records[i]
      BY <2>1, CommitWrites
    <2>4. \A n \in Name :
            \/ index'[n] = index[n] /\ \A i \in Unwritten(w) : trans[w][i].name # n
            \/ index'[n] \in Unwritten(w) /\ trans[w][index'[n]].name = n
      BY <2>1, CommitWrites
    <2>5. \A i \in DOMAIN trans[w] : trans[w][i].name \in inset[w]
      BY <2>1, <2>2 DEF BatchIsHeld
    <2>6. \A v \in Worker : pc'[v] = IF v = w THEN "release" ELSE pc[v]
      BY <1>0, <2>1 DEF TypeOK
    <2>7. \A v \in Worker : Busy(v)' => Busy(v) /\ v # w
      BY <2>6 DEF Busy
    <2>8. BatchIsHeld'
      BY <2>1, <2>2, <2>7 DEF BatchIsHeld
    <2>9. BatchIsCurrent'
      <3> SUFFICES ASSUME NEW v \in Worker, v # w, Busy(v), NEW i \in DOMAIN trans[v]
                   PROVE  trans[v][i].changes =
                            (IF i \in DOMAIN records' THEN records'[i].changes ELSE {}) \cup {request[v]}
        BY <2>1, <2>7 DEF BatchIsCurrent
      <3>1. trans[v][i].name \notin inset[w]
        BY <1>0, <2>2, <2>5 DEF BatchIsHeld, HeldByOne, TypeOK
      <3>2. i \notin DOMAIN trans[w]
        <4>1. CASE i \in DOMAIN records
          BY <1>0, <2>5, <3>1, <4>1 DEF TransAgrees
        <4>2. CASE i \notin DOMAIN records
          BY <1>0, <4>2 DEF TransAgrees
        <4> QED
          BY <4>1, <4>2
      <3>3. (i \in DOMAIN records' <=> i \in DOMAIN records) /\ (i \in DOMAIN records => records'[i] = records[i])
        BY <2>3, <3>2
      <3> QED
        BY <2>2, <3>3 DEF BatchIsCurrent
    <2>10. FoundIsCurrent'
      <3> SUFFICES ASSUME NEW v \in Worker, v # w, pc[v] = "add"
                   PROVE  found[v] = Stored(Head(payloads[v]))'
        BY <2>1, <2>6 DEF FoundIsCurrent
      <3> DEFINE n == Head(payloads[v])
      <3>1. n \in Name /\ n \in inset[v] /\ found[v] = Stored(n)
        BY <1>0, <2>2, HeadAndTail DEF HasWork, TypeOK, HeldIsNew, ResetFinds, FoundIsCurrent
      <3>2. n \notin inset[w]
        BY <1>0, <2>2, <3>1 DEF HeldByOne, TypeOK
      <3>3. index'[n] = index[n]
        BY <2>4, <2>5, <3>1, <3>2 DEF Unwritten
      <3>4. index[n] # 0 => index[n] \in DOMAIN records \ DOMAIN trans[w]
        BY <1>0, <2>5, <3>1, <3>2 DEF IndexIsSound, TransAgrees
      <3>5. index[n] # 0 => records'[index[n]] = records[index[n]]
        BY <2>3, <3>4
      <3> QED
        BY <2>1, <3>1, <3>3, <3>5 DEF Stored
    <2> QED
      BY <2>8, <2>9, <2>10
  <1> QED
    BY <1>1, <1>3, <1>4, <1>5, <1>6, <1>7, <1>8 DEF Next, Step
\* The invariants together hold throughout.
LEMMA SpecStoreInv == Spec => [](DataInv /\ ChangesInv /\ UniqueInv /\ StoreInv)
  <1>1. Spec => [](DataInv /\ ReserveInv)
    BY SpecDataInv, SpecReserveInv, PTL
  <1>2. Init => ChangesInv /\ UniqueInv /\ StoreInv
    BY InitChangesInv, InitUniqueInv, InitStoreInv
  <1>3. DataInv /\ ReserveInv /\ ChangesInv /\ UniqueInv /\ StoreInv /\ [Next]_vars =>
          ChangesInv' /\ UniqueInv' /\ StoreInv'
    BY NextChangesInv, NextUniqueInv, NextStoreInv
  <1> QED
    BY <1>1, <1>2, <1>3, PTL DEF Spec

\* A commit of a handler that has reserved first is a step of RecordStore.
LEMMA CommitIsWrite ==
  ASSUME DataInv, ChangesInv, UniqueInv, StoreInv, ~raced, ReserveFirst,
         NEW w \in Worker, Commit(w)
  PROVE  StoreOf!Next
  <1> DEFINE r == request[w]
             S == {trans[w][i].name : i \in DOMAIN trans[w]}
  <1>0. /\ TypeOK /\ HasWork /\ TransAgrees /\ IndexIsSound /\ IndexIsComplete /\ UnwrittenIsHeld
        /\ BatchIsCurrent /\ BatchIsFull
    BY DEF DataInv, UniqueInv, StoreInv
  <1>1. pc[w] = "commit" /\ Write(trans[w]) /\ Busy(w)
    BY DEF Commit, Busy
  <1>2. r \in 1..Len(answer) /\ r \in Request /\ r \notin Done
    <2>1. r \in 0..Len(answer) /\ r # 0 /\ Len(answer) \in Nat /\ Len(answer) <= MaxRequest
      BY <1>0, <1>1, LenProperties DEF TypeOK, HasWork
    <2>2. answer[r] = "none"
      BY <1>1 DEF ChangesInv, RequestIsOpen
    <2> QED
      BY <2>1, <2>2, ManageDataAssumption DEF Request, Done
  <1>3. S \in (SUBSET Name) \ {{}}
    <2>1. \A i \in DOMAIN trans[w] : trans[w][i].name \in Name
      BY <1>0 DEF TypeOK, Record
    <2>2. DOMAIN trans[w] # {}
      BY <1>0, <1>1 DEF BatchIsFull
    <2> QED
      BY <2>1, <2>2
  <1>4. \A n \in Name : r \notin Stored(n).changes
    <2> SUFFICES ASSUME NEW n \in Name PROVE r \notin Stored(n).changes
      OBVIOUS
    <2> QED
      BY <1>2, StoredIsRecord DEF ChangesInv, RecordsAreDone
  <1>5. \A n \in Name :
          Stored(n)'.changes = IF n \in S THEN Stored(n).changes \cup {r} ELSE Stored(n).changes
    <2> SUFFICES ASSUME NEW n \in Name
                 PROVE  Stored(n)'.changes =
                          IF n \in S THEN Stored(n).changes \cup {r} ELSE Stored(n).changes
      OBVIOUS
    <2>1. /\ DOMAIN records' = DOMAIN records \cup DOMAIN trans[w]
          /\ \A i \in DOMAIN trans[w] : records'[i] = trans[w][i]
          /\ \A i \in DOMAIN records \ DOMAIN trans[w] : records'[i] = records[i]
          /\ \/ index'[n] = index[n] /\ \A i \in Unwritten(w) : trans[w][i].name # n
             \/ index'[n] \in Unwritten(w) /\ trans[w][index'[n]].name = n
      BY <1>1, CommitWrites
    <2>2. \A i \in DOMAIN trans[w] : i # 0
      BY <1>0 DEF TypeOK, FirstId
    <2>3. \A i \in DOMAIN trans[w] \cap DOMAIN records :
            trans[w][i].name = n => index[n] = i /\ i # 0
      BY <1>0, <2>2 DEF TransAgrees, IndexIsComplete
    <2>4. \A i \in DOMAIN trans[w] :
            trans[w][i].changes = (IF i \in DOMAIN records THEN records[i].changes ELSE {}) \cup {r}
      BY <1>0, <1>1 DEF BatchIsCurrent
    <2>5. CASE index'[n] = index[n] /\ \A i \in Unwritten(w) : trans[w][i].name # n
      <3>1. \A i \in DOMAIN trans[w] : trans[w][i].name = n => index[n] = i /\ i # 0
        BY <2>3, <2>5 DEF Unwritten
      <3>2. CASE index[n] = 0
        <4>1. n \notin S
          BY <3>1, <3>2
        <4>2. Stored(n)' = Nothing /\ Stored(n) = Nothing
          BY <2>5, <3>2 DEF Stored, Nothing
        <4> QED
          BY <4>1, <4>2
      <3>3. CASE index[n] # 0 /\ index[n] \in DOMAIN trans[w]
        <4>1. index[n] \in DOMAIN records /\ records[index[n]].name = n
          BY <1>0, <3>3 DEF IndexIsSound
        <4>2. n \in S
          BY <1>0, <3>3, <4>1 DEF TransAgrees
        <4>3. Stored(n)'.changes = trans[w][index[n]].changes
          BY <2>1, <2>5, <3>3 DEF Stored
        <4>4. Stored(n).changes = records[index[n]].changes
          BY <3>3 DEF Stored
        <4> QED
          BY <2>4, <3>3, <4>1, <4>2, <4>3, <4>4
      <3>4. CASE index[n] # 0 /\ index[n] \notin DOMAIN trans[w]
        <4>1. n \notin S
          BY <3>1, <3>4
        <4>2. records'[index[n]] = records[index[n]]
          BY <1>0, <2>1, <3>4 DEF IndexIsSound
        <4>3. Stored(n)'.changes = Stored(n).changes
          BY <2>5, <3>4, <4>2 DEF Stored
        <4> QED
          BY <4>1, <4>3
      <3> QED
        BY <3>2, <3>3, <3>4
    <2>6. CASE index'[n] \in Unwritten(w) /\ trans[w][index'[n]].name = n
      <3>1. index'[n] \in DOMAIN trans[w] \ DOMAIN records /\ index'[n] # 0
        BY <2>2, <2>6 DEF Unwritten
      <3>2. n \in S
        BY <2>6, <3>1
      <3>3. index[n] = 0
        BY <1>0, <1>1, <2>6 DEF UnwrittenIsHeld
      <3>4. Stored(n).changes = {}
        BY <3>3 DEF Stored, Nothing
      <3>5. Stored(n)'.changes = trans[w][index'[n]].changes
        BY <2>1, <3>1 DEF Stored
      <3>6. trans[w][index'[n]].changes = {r}
        BY <2>4, <3>1
      <3> QED
        BY <3>2, <3>4, <3>5, <3>6
    <2> QED
      BY <2>1, <2>5, <2>6
  <1> HIDE DEF r, S
  <1>6. StoreOf!Write(r, S)
    BY <1>4, <1>5 DEF StoreOf!Write
  <1> QED
    BY <1>2, <1>3, <1>6 DEF StoreOf!Next

\* Commit and the handlers that reserve a name before they read its record: they do what
\* RecordStore promises as long as no two requests have been between CheckAssoc and
\* SetAssoc for one name.  Every step but a commit is a stutter.
THEOREM SpecImplementsRecordStore == Spec => ImplementsRecordStore
  <1> DEFINE changes == [n \in Name |-> Stored(n).changes]
  <1>1. Init => StoreOf!Init
    <2> SUFFICES ASSUME Init, NEW n \in Name PROVE Stored(n).changes = {}
      BY DEF StoreOf!Init
    <2>1. DataInv
      BY InitDataInv
    <2> QED
      BY <2>1, StoredIsRecord, InitRecords
  <1>2. ASSUME DataInv, ChangesInv, UniqueInv, StoreInv, [Next]_vars
        PROVE  [raced \/ ~ReserveFirst \/ StoreOf!Next]_changes
    <2>1. CASE UNCHANGED vars
      BY <2>1 DEF vars, Stored
    <2>2. ASSUME NEW w \in Worker,
                 Start(w) \/ Read(w) \/ CheckName(w) \/ Claim(w) \/ AddRecord(w) \/ Release(w)
          PROVE  UNCHANGED changes
      <3>1. UNCHANGED <<index, records>>
        BY <2>2 DEF Start, Read, CheckName, Claim, AddRecord, Release, data
      <3> QED
        BY <3>1 DEF Stored
    <2>3. ASSUME NEW w \in Worker, Commit(w) PROVE raced \/ ~ReserveFirst \/ StoreOf!Next
      BY <1>2, <2>3, CommitIsWrite
    <2> QED
      BY <1>2, <2>1, <2>2, <2>3 DEF Next, Step
  <1>3. Spec => [](DataInv /\ ChangesInv /\ UniqueInv /\ StoreInv)
    BY SpecStoreInv
  <1> QED
    BY <1>1, <1>2, <1>3, PTL DEF Spec, ImplementsRecordStore
=============================================================================
