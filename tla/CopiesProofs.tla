----------------------------- MODULE CopiesProofs -----------------------------
(***************************************************************************)
(* Proofs about what a node keeps beside its database: module RecordCache, *)
(* for any number of readers, categories and changes, and module           *)
(* SearchIndex, for any number of records, languages, threads, changes,    *)
(* commands, crashes and runs of the tool, and any length of its queue.    *)
(* The cache does not take the entry of a category for one of another      *)
(* version of the record as long as no two changes have one time stamp;    *)
(* the index has the last version of every record, but for what was lost.  *)
(***************************************************************************)
EXTENDS RecordCache, SearchIndex, SequenceTheorems, TLAPS

-----------------------------------------------------------------------------
(* Module RecordCache.                                                     *)

\* Time stamps do not run ahead, and tell the versions apart.
StampsCount ==
  \A k \in 1..Now : versions[k].at <= k /\ (~SameMs => versions[k].at = k)

\* What a reader puts in the cache is a version of the record, the categories
\* it stamps are those of that version.
CopiesAreVersions ==
  \A r \in Reader : pc[r] \in {"put", "stamp"} =>
    /\ \E k \in 1..Now : copy[r] = versions[k]
    /\ pc[r] = "stamp" => todo[r] \subseteq copy[r].cats

\* No entry has a time stamp that a later version will get.
StampsAreOld == ~SameMs => \A c \in Category : stamp[c] <= Now

TInv == CacheTypeOK /\ StampsCount /\ CopiesAreVersions

StampInv == ~SameMs => StampsAreOld /\ StampIsTrue

-----------------------------------------------------------------------------
\* A list of versions with one more.
LEMMA AppendVersion ==
  ASSUME NEW s \in Seq(Record), NEW e \in Record
  PROVE  /\ Append(s, e) \in Seq(Record)
         /\ Len(Append(s, e)) = Len(s) + 1
         /\ Append(s, e)[Len(s) + 1] = e
         /\ \A k \in 1..Len(s) : Append(s, e)[k] = s[k]
  BY AppendProperties

LEMMA InitTInv == CacheInit => TInv
  <1> SUFFICES ASSUME CacheInit PROVE TInv
    OBVIOUS
  <1>1. PICK cats \in SUBSET Category : versions = << [at |-> 1, cats |-> cats] >>
    BY DEF CacheInit
  <1> DEFINE first == [at |-> 1, cats |-> cats]
  <1>2. first \in Record /\ 1 \in 1..(MaxUpdate + 1)
    BY RecordCacheAssumption DEF Record, Stamp
  <1>3. versions \in Seq(Record) /\ Len(versions) = 1 /\ versions[1] = first
    <2> HIDE DEF first
    <2> QED
      BY <1>1, <1>2 DEF first
  <1>4. CacheTypeOK
    <2>1. versions \in Seq(Record) /\ Now \in 1..(MaxUpdate + 1)
      BY <1>2, <1>3 DEF Now
    <2>2. since \in [Reader -> 1..(MaxUpdate + 1)] /\ stamp \in [Category -> 0..(MaxUpdate + 1)]
      BY <1>2, RecordCacheAssumption DEF CacheInit
    <2> QED
      BY <2>1, <2>2 DEF CacheInit, CacheTypeOK
  <1>5. StampsCount
    BY <1>3 DEF StampsCount, Now
  <1>6. CopiesAreVersions
    BY DEF CacheInit, CopiesAreVersions
  <1> QED
    BY <1>4, <1>5, <1>6 DEF TInv

\* A change appends a version with the next time stamp, or the same.
LEMMA ChangeFacts ==
  ASSUME TInv, Change
  PROVE  \E e \in Record :
           /\ versions' = Append(versions, e)
           /\ e.at <= Now + 1 /\ (~SameMs => e.at = Now + 1)
           /\ Now < MaxUpdate + 1
  <1>1. PICK cats \in SUBSET Category, d \in IF SameMs THEN {0, 1} ELSE {1} :
          versions' = Append(versions, [at |-> Stored.at + d, cats |-> cats])
    BY DEF Change
  <1>2. Now \in 1..(MaxUpdate + 1) /\ Now <= MaxUpdate /\ Stored \in Record
    BY DEF Change, TInv, CacheTypeOK, Now, Stored
  <1>3. Stored.at \in Stamp /\ Stored.at <= Now /\ (~SameMs => Stored.at = Now)
    BY <1>2 DEF TInv, StampsCount, Stored, Record
  <1>4. d \in {0, 1} /\ (~SameMs => d = 1)
    BY <1>1
  <1>5. [at |-> Stored.at + d, cats |-> cats] \in Record
    BY <1>1, <1>2, <1>3, <1>4, RecordCacheAssumption DEF Record, Stamp
  <1> QED
    BY <1>1, <1>2, <1>3, <1>4, <1>5, RecordCacheAssumption DEF Stamp

LEMMA NextTInv == TInv /\ [CacheNext]_CacheVars => TInv'
  <1> SUFFICES ASSUME TInv, [CacheNext]_CacheVars PROVE TInv'
    OBVIOUS
  <1> USE RecordCacheAssumption DEF TInv
  <1>1. CASE Change
    <2>1. PICK e \in Record :
            /\ versions' = Append(versions, e)
            /\ e.at <= Now + 1 /\ (~SameMs => e.at = Now + 1)
            /\ Now < MaxUpdate + 1
      BY <1>1, ChangeFacts
    <2>2. /\ versions' \in Seq(Record) /\ Now' = Now + 1
          /\ versions'[Now + 1] = e
          /\ \A k \in 1..Now : versions'[k] = versions[k]
      BY <2>1, AppendVersion DEF CacheTypeOK, Now
    <2>3. CacheTypeOK'
      BY <1>1, <2>1, <2>2 DEF CacheTypeOK, Change, Crowd
    <2> DEFINE n == Now
    <2>4. n \in Nat /\ 1..n \subseteq 1..Now' /\ \A k \in 1..Now' : k \in 1..n \/ k = n + 1
      BY <2>2 DEF CacheTypeOK
    <2>5. StampsCount'
      BY <2>1, <2>2, <2>4 DEF StampsCount
    <2>6. CopiesAreVersions'
      <3>1. pc' = pc /\ copy' = copy /\ todo' = todo
        BY <1>1 DEF Change
      <3> QED
        BY <2>2, <2>4, <3>1 DEF CopiesAreVersions
    <2> QED
      BY <2>3, <2>5, <2>6
  <1>2. CASE Forget
    BY <1>2 DEF Forget, CacheTypeOK, StampsCount, CopiesAreVersions, Now
  <1>3. ASSUME NEW r \in Reader, Look(r)
        PROVE  TInv'
    <2>1. CacheTypeOK'
      BY <1>3 DEF CacheTypeOK, Look, GoTo, Crowd, Now
    <2>2. \A q \in Reader : pc'[q] \in {"put", "stamp"} => q # r /\ pc'[q] = pc[q]
      BY <1>3 DEF Look, GoTo, CacheTypeOK
    <2>3. versions' = versions /\ todo' = todo /\ \A q \in Reader \ {r} : copy'[q] = copy[q]
      BY <1>3 DEF Look, CacheTypeOK
    <2> QED
      BY <2>1, <2>2, <2>3 DEF StampsCount, CopiesAreVersions, Now
  <1>4. ASSUME NEW r \in Reader, GetOne(r)
        PROVE  TInv'
    <2>1. Stored \in Record /\ Stored = versions[Now] /\ Now \in 1..Now
      BY DEF CacheTypeOK, Stored, Now
    <2>2. CacheTypeOK'
      BY <1>4, <2>1 DEF CacheTypeOK, GetOne, GoTo, Now
    <2>3. /\ \A q \in Reader \ {r} : pc'[q] = pc[q] /\ copy'[q] = copy[q]
          /\ pc'[r] = "put" /\ copy'[r] = versions[Now]
      BY <1>4, <2>1 DEF GetOne, GoTo, CacheTypeOK
    <2>4. versions' = versions /\ Now' = Now /\ todo' = todo
      BY <1>4 DEF GetOne, Now
    <2>5. StampsCount'
      BY <2>4 DEF StampsCount
    <2>6. CopiesAreVersions'
      BY <2>1, <2>3, <2>4 DEF CopiesAreVersions
    <2> QED
      BY <2>2, <2>5, <2>6
  <1>5. ASSUME NEW r \in Reader, Put(r)
        PROVE  TInv'
    <2>1. copy[r] \in Record
      BY <1>5 DEF Put, CopiesAreVersions, CacheTypeOK, Now
    <2>2. CacheTypeOK'
      BY <1>5, <2>1 DEF CacheTypeOK, Put, GoTo, Now, Record
    <2> QED
      BY <1>5, <2>2 DEF Put, CacheTypeOK, StampsCount, CopiesAreVersions, Now, GoTo
  <1>6. ASSUME NEW r \in Reader, PutStamp(r)
        PROVE  TInv'
    <2>1. copy[r] \in Record
      BY <1>6 DEF PutStamp, CopiesAreVersions, CacheTypeOK, Now
    <2>2. CacheTypeOK'
      <3>1. copy[r].at \in 0..(MaxUpdate + 1)
        BY <2>1 DEF Record, Stamp
      <3>2. stamp' \in [Category -> 0..(MaxUpdate + 1)]
        BY <1>6, <3>1 DEF CacheTypeOK, PutStamp
      <3>3. todo' \in [Reader -> SUBSET Category]
        BY <1>6 DEF CacheTypeOK, PutStamp
      <3>4. pc' \in [Reader -> {"idle", "read", "put", "stamp", "validate"}]
        BY <1>6 DEF CacheTypeOK, PutStamp, GoTo
      <3> QED
        BY <1>6, <3>2, <3>3, <3>4 DEF CacheTypeOK, PutStamp, Now
    <2> QED
      BY <1>6, <2>2 DEF PutStamp, CacheTypeOK, StampsCount, CopiesAreVersions, Now, GoTo
  <1>7. ASSUME NEW r \in Reader, Validate(r)
        PROVE  TInv'
    <2>1. CacheTypeOK'
      BY <1>7 DEF CacheTypeOK, Validate, GoTo, Now
    <2> QED
      BY <1>7, <2>1 DEF Validate, CacheTypeOK, StampsCount, CopiesAreVersions, Now, GoTo
  <1>8. CASE UNCHANGED CacheVars
    BY <1>8 DEF CacheVars, CacheTypeOK, StampsCount, CopiesAreVersions, Now
  <1> QED
    BY <1>1, <1>2, <1>3, <1>4, <1>5, <1>6, <1>7, <1>8 DEF CacheNext

LEMMA CacheSpecTInv == CacheSpec => []TInv
  BY InitTInv, NextTInv, PTL DEF CacheSpec

\* Type correctness: time stamps of records and entries stay in their range.
THEOREM CacheSpecTypeOK == CacheSpec => []CacheTypeOK
  BY CacheSpecTInv, PTL DEF TInv

-----------------------------------------------------------------------------
LEMMA InitStampInv == CacheInit => StampInv
  <1> SUFFICES ASSUME CacheInit, ~SameMs PROVE StampsAreOld /\ StampIsTrue
    BY DEF StampInv
  <1>1. CacheTypeOK /\ StampsCount
    BY InitTInv DEF TInv
  <1> QED
    BY <1>1 DEF CacheInit, StampsAreOld, StampIsTrue, StampsCount, CacheTypeOK

LEMMA NextStampInv == TInv /\ StampInv /\ [CacheNext]_CacheVars => StampInv'
  <1> SUFFICES ASSUME TInv, StampInv, [CacheNext]_CacheVars, ~SameMs
               PROVE  StampsAreOld' /\ StampIsTrue'
    BY DEF StampInv
  <1>0. StampsAreOld /\ StampIsTrue /\ StampsCount /\ CacheTypeOK /\ CopiesAreVersions
    BY DEF StampInv, TInv
  \* The new version has a time stamp that no entry has.
  <1>1. CASE Change
    <2>1. PICK e \in Record :
            /\ versions' = Append(versions, e)
            /\ e.at <= Now + 1 /\ (~SameMs => e.at = Now + 1)
            /\ Now < MaxUpdate + 1
      BY <1>1, ChangeFacts
    <2>2. /\ versions' \in Seq(Record) /\ Now' = Now + 1
          /\ versions'[Now + 1] = e
          /\ \A k \in 1..Now : versions'[k] = versions[k]
      BY <1>0, <2>1, AppendVersion DEF CacheTypeOK, Now
    <2>3. stamp' = stamp /\ Now \in Nat /\ stamp \in [Category -> Nat]
      BY <1>0, <1>1 DEF Change, CacheTypeOK
    <2> DEFINE n == Now
    <2>4. n \in Nat /\ \A k \in 1..Now' : k \in 1..n \/ k = n + 1
      BY <2>2, <2>3
    <2>5. \A c \in Category : stamp[c] \in Nat /\ stamp[c] <= n /\ stamp[c] # e.at
      BY <1>0, <2>1, <2>3 DEF StampsAreOld
    <2>6. StampsAreOld'
      BY <2>2, <2>3, <2>5 DEF StampsAreOld
    <2>7. StampIsTrue'
      BY <1>0, <2>2, <2>3, <2>4, <2>5 DEF StampIsTrue
    <2> QED
      BY <2>6, <2>7
  \* The entry has the time stamp of the one version that has the category.
  <1>2. ASSUME NEW r \in Reader, PutStamp(r)
        PROVE  StampsAreOld' /\ StampIsTrue'
    <2>1. PICK k \in 1..Now : copy[r] = versions[k]
      BY <1>0, <1>2 DEF PutStamp, CopiesAreVersions
    <2>2. versions[k].at = k /\ versions' = versions /\ Now \in Nat
      BY <1>0, <1>2 DEF PutStamp, StampsCount, CacheTypeOK
    <2>3. CASE \E c \in todo[r] : stamp' = [stamp EXCEPT ![c] = copy[r].at]
      <3>1. PICK c \in todo[r] : stamp' = [stamp EXCEPT ![c] = copy[r].at]
        BY <2>3
      <3>2. c \in copy[r].cats
        BY <1>0, <1>2, <3>1 DEF PutStamp, CopiesAreVersions
      <3>3. stamp \in [Category -> Nat]
        BY <1>0 DEF CacheTypeOK
      <3>4. \A d \in Category : stamp'[d] = IF d = c THEN k ELSE stamp[d]
        BY <2>1, <2>2, <3>1, <3>3
      <3>5. StampsAreOld'
        BY <1>0, <2>2, <3>4 DEF StampsAreOld, Now
      <3>6. StampIsTrue'
        BY <1>0, <2>1, <2>2, <3>2, <3>4 DEF StampIsTrue, StampsCount, Now
      <3> QED
        BY <3>5, <3>6
    <2>4. CASE stamp' = stamp
      BY <1>0, <2>2, <2>4 DEF StampsAreOld, StampIsTrue, Now
    <2> QED
      BY <1>2, <2>3, <2>4 DEF PutStamp
  <1>3. CASE UNCHANGED <<versions, stamp>>
    BY <1>0, <1>3 DEF StampsAreOld, StampIsTrue, Now
  <1> QED
    BY <1>1, <1>2, <1>3 DEF CacheNext, Forget, Look, GetOne, Put, Validate, CacheVars

\* When no two changes have one time stamp, an entry of a category, which nothing
\* ever deletes, is not taken for one of a version that does not have it.
THEOREM SpecStampIsTrue == ~SameMs => (CacheSpec => []StampIsTrue)
  <1> SUFFICES ASSUME ~SameMs PROVE CacheSpec => []StampIsTrue
    OBVIOUS
  <1>1. StampInv => StampIsTrue
    BY DEF StampInv
  <1> QED
    BY <1>1, CacheSpecTInv, InitStampInv, NextStampInv, PTL DEF CacheSpec

-----------------------------------------------------------------------------
(***************************************************************************)
(* Handlers that have run one at a time.                                   *)
(***************************************************************************)

\* There is one handler at most.
OneHandler ==
  /\ \A q, r \in Reader : (pc[q] # "idle" /\ pc[r] # "idle") => q = r
  /\ \A r \in Reader : pc[r] # "idle" => ~writing

\* What it works with, and what is in the cache, is the record as it is, unless
\* it is the handler of a change that has still to delete the entry.
EntryIsCurrent ==
  /\ writing \/ entry \in {NoEntry, Stored}
  /\ \A r \in Reader : pc[r] \in {"put", "stamp", "validate"} => copy[r] = Stored
  /\ \A r \in Reader : pc[r] \in {"stamp", "validate"} => entry = Stored

\* The categories of a record in the cache are there, but for those that its
\* reader is about to put there.
StampsAreThere ==
  (entry = Stored /\ ~writing) =>
    \A c \in Stored.cats : \/ stamp[c] = Stored.at
                           \/ \E r \in Reader : pc[r] = "stamp" /\ c \in todo[r]

AloneInv == ~crowded => OneHandler /\ EntryIsCurrent /\ StampsAreThere

\* A handler began when the record was one of the versions there are.
SinceIsPast == \A r \in Reader : since[r] <= Now

LEMMA StoredIsRecord ==
  ASSUME TInv
  PROVE  Now \in Nat /\ Now \in 1..Now /\ Stored = versions[Now] /\ Stored \in Record
         /\ Stored # NoEntry
  <1>1. Stored \in Record
    BY DEF TInv, CacheTypeOK, Stored, Now
  <1>2. Stored.at # 0
    BY <1>1, RecordCacheAssumption DEF Record, Stamp
  <1> QED
    BY <1>1, <1>2 DEF TInv, CacheTypeOK, Stored, Now, NoEntry

LEMMA InitAloneInv == CacheInit => AloneInv /\ SinceIsPast
  <1> SUFFICES ASSUME CacheInit PROVE AloneInv /\ SinceIsPast
    OBVIOUS
  <1>1. TInv
    BY InitTInv
  <1> QED
    BY <1>1, StoredIsRecord
    DEF CacheInit, AloneInv, OneHandler, EntryIsCurrent, StampsAreThere, SinceIsPast

LEMMA NextAloneInv == TInv /\ AloneInv /\ [CacheNext]_CacheVars => AloneInv'
  <1> SUFFICES ASSUME TInv, AloneInv, [CacheNext]_CacheVars, ~crowded'
               PROVE  OneHandler' /\ EntryIsCurrent' /\ StampsAreThere'
    BY DEF AloneInv
  <1>0. /\ ~crowded /\ OneHandler /\ EntryIsCurrent /\ StampsAreThere /\ CacheTypeOK
        /\ Stored # NoEntry
    <2>1. CacheTypeOK /\ crowded \in BOOLEAN
      BY DEF TInv, CacheTypeOK
    <2>2. CASE Crowd
      BY <2>1, <2>2, StoredIsRecord DEF Crowd, AloneInv
    <2>3. CASE UNCHANGED crowded
      BY <2>1, <2>3, StoredIsRecord DEF AloneInv
    <2> QED
      BY <2>2, <2>3 DEF CacheNext, Change, Forget, Look, GetOne, Put, PutStamp, Validate, CacheVars
  \* No reader is at work when a handler begins.
  <1>1. CASE Change
    <2>1. (\A r \in Reader : pc'[r] = "idle") /\ writing'
      BY <1>1 DEF Change, Crowd
    <2> QED
      BY <2>1 DEF OneHandler, EntryIsCurrent, StampsAreThere
  <1>2. CASE Forget
    <2>1. \A r \in Reader : pc'[r] = "idle"
      BY <1>0, <1>2 DEF Forget, OneHandler
    <2>2. entry' = NoEntry /\ Stored' = Stored
      BY <1>2 DEF Forget, Stored, Now
    <2> QED
      BY <1>0, <2>1, <2>2 DEF OneHandler, EntryIsCurrent, StampsAreThere
  <1>3. ASSUME NEW r \in Reader, Look(r) \/ GetOne(r) \/ Put(r) \/ PutStamp(r) \/ Validate(r)
        PROVE  OneHandler' /\ EntryIsCurrent' /\ StampsAreThere'
    <2>1. Stored' = Stored /\ writing' = writing
      BY <1>3 DEF Look, GetOne, Put, PutStamp, Validate, Stored, Now
    <2>2. ~writing /\ \A q \in Reader \ {r} : pc[q] = "idle"
      BY <1>0, <1>3 DEF Look, Crowd, GetOne, Put, PutStamp, Validate, OneHandler
    <2>3. \A q \in Reader \ {r} : pc'[q] = "idle"
      BY <1>0, <1>3, <2>2 DEF Look, GetOne, Put, PutStamp, Validate, GoTo, CacheTypeOK
    <2>4. OneHandler'
      BY <2>1, <2>2, <2>3 DEF OneHandler
    <2>5. CASE Look(r)
      <3>1. pc'[r] \in {"validate", "read"} /\ (pc'[r] = "validate" => copy'[r] = entry /\ entry # NoEntry)
        BY <1>0, <2>5 DEF Look, GoTo, CacheTypeOK
      <3>2. \A q \in Reader : pc[q] = "idle"
        BY <2>5, <2>2 DEF Look
      <3>3. entry' = entry /\ stamp' = stamp
        BY <2>5 DEF Look
      <3>4. EntryIsCurrent'
        BY <1>0, <2>1, <2>2, <2>3, <3>1, <3>3 DEF EntryIsCurrent
      <3>5. StampsAreThere'
        BY <1>0, <2>1, <2>2, <3>2, <3>3 DEF StampsAreThere
      <3> QED
        BY <2>4, <3>4, <3>5
    <2>6. CASE GetOne(r)
      <3>1. pc[r] = "read" /\ pc'[r] = "put" /\ copy'[r] = Stored
        BY <1>0, <2>6 DEF GetOne, GoTo, CacheTypeOK
      <3>2. entry' = entry /\ stamp' = stamp /\ todo' = todo
        BY <2>6 DEF GetOne
      <3>3. EntryIsCurrent'
        BY <1>0, <2>1, <2>2, <2>3, <3>1, <3>2 DEF EntryIsCurrent
      <3>4. StampsAreThere'
        BY <1>0, <2>1, <2>2, <3>1, <3>2 DEF StampsAreThere
      <3> QED
        BY <2>4, <3>3, <3>4
    <2>7. CASE Put(r)
      <3>1. pc[r] = "put" /\ pc'[r] = "stamp" /\ copy' = copy /\ copy[r] = Stored
        BY <1>0, <2>7 DEF Put, GoTo, CacheTypeOK, EntryIsCurrent
      <3>2. entry' = Stored /\ todo'[r] = Stored.cats
        BY <1>0, <2>7, <3>1 DEF Put, CacheTypeOK
      <3>3. EntryIsCurrent'
        BY <2>1, <2>3, <3>1, <3>2 DEF EntryIsCurrent
      <3>4. StampsAreThere'
        BY <2>1, <3>1, <3>2 DEF StampsAreThere
      <3> QED
        BY <2>4, <3>3, <3>4
    <2>8. CASE PutStamp(r)
      <3>1. pc[r] = "stamp" /\ copy' = copy /\ copy[r] = Stored /\ entry' = entry /\ entry = Stored
        BY <1>0, <2>8 DEF PutStamp, EntryIsCurrent
      <3>2. EntryIsCurrent'
        BY <2>1, <2>3, <3>1 DEF EntryIsCurrent
      <3>3. \A c \in Stored.cats : stamp[c] = Stored.at \/ c \in todo[r]
        BY <1>0, <2>2, <3>1 DEF StampsAreThere
      <3>4. Stored.cats \subseteq Category
        BY StoredIsRecord DEF Record
      <3>5. CASE \E c \in todo[r] : /\ stamp' = [stamp EXCEPT ![c] = copy[r].at]
                                    /\ todo' = [todo EXCEPT ![r] = @ \ {c}]
                                    /\ UNCHANGED pc
        <4>1. PICK c \in todo[r] : /\ stamp' = [stamp EXCEPT ![c] = Stored.at]
                                   /\ todo' = [todo EXCEPT ![r] = @ \ {c}]
                                   /\ UNCHANGED pc
          BY <3>1, <3>5
        <4>2. \A d \in Stored.cats : stamp'[d] = Stored.at \/ d \in todo'[r]
          BY <1>0, <3>3, <3>4, <4>1 DEF CacheTypeOK
        <4> QED
          BY <2>1, <2>4, <3>1, <3>2, <4>1, <4>2 DEF StampsAreThere
      <3>6. CASE todo[r] = {} /\ UNCHANGED <<stamp, todo>>
        BY <2>1, <2>4, <3>2, <3>3, <3>6 DEF StampsAreThere
      <3> QED
        BY <2>8, <3>5, <3>6 DEF PutStamp
    <2>9. CASE Validate(r)
      <3>1. pc'[r] = "idle" /\ entry' = entry /\ stamp' = stamp /\ todo' = todo
        BY <1>0, <2>9 DEF Validate, GoTo, CacheTypeOK
      <3>2. pc[r] = "validate"
        BY <2>9 DEF Validate
      <3>3. EntryIsCurrent'
        BY <1>0, <2>1, <2>2, <2>3, <3>1 DEF EntryIsCurrent
      <3>4. StampsAreThere'
        BY <1>0, <2>1, <2>2, <3>1, <3>2 DEF StampsAreThere
      <3> QED
        BY <2>4, <3>3, <3>4
    <2> QED
      BY <1>3, <2>5, <2>6, <2>7, <2>8, <2>9
  <1>4. CASE UNCHANGED CacheVars
    BY <1>0, <1>4 DEF CacheVars, OneHandler, EntryIsCurrent, StampsAreThere, Stored, Now
  <1> QED
    BY <1>1, <1>2, <1>3, <1>4 DEF CacheNext

LEMMA NextSinceIsPast == TInv /\ TInv' /\ SinceIsPast /\ [CacheNext]_CacheVars => SinceIsPast'
  <1> SUFFICES ASSUME TInv, TInv', SinceIsPast, [CacheNext]_CacheVars PROVE SinceIsPast'
    OBVIOUS
  <1>1. Now \in Nat /\ 1 <= Now /\ since \in [Reader -> Nat]
    BY DEF TInv, CacheTypeOK
  <1>2. CASE Change
    <2>1. Now' = Now + 1
      BY <1>2, ChangeFacts, AppendVersion DEF TInv, CacheTypeOK, Now
    <2> QED
      BY <1>1, <1>2, <2>1 DEF Change, SinceIsPast
  <1>3. CASE \E r \in Reader : Look(r) \/ Validate(r)
    <2>1. PICK r \in Reader : Look(r) \/ Validate(r)
      BY <1>3
    <2>2. Now' = Now /\ \A q \in Reader : since'[q] \in {since[q], 1, Now}
      BY <1>1, <2>1 DEF Look, Validate, Now
    <2> QED
      BY <1>1, <2>2 DEF SinceIsPast
  <1>4. CASE UNCHANGED <<versions, since>>
    BY <1>4 DEF SinceIsPast, Now
  <1> QED
    BY <1>2, <1>3, <1>4 DEF CacheNext, Forget, GetOne, Put, PutStamp, CacheVars

LEMMA SpecAloneInv == CacheSpec => [](AloneInv /\ SinceIsPast)
  <1>1. TInv /\ TInv' /\ AloneInv /\ SinceIsPast /\ [CacheNext]_CacheVars => AloneInv' /\ SinceIsPast'
    BY NextAloneInv, NextSinceIsPast
  <1> QED
    BY <1>1, InitAloneInv, CacheSpecTInv, PTL DEF CacheSpec

\* When handlers have run one at a time, the cache holds nothing out of date.
THEOREM SpecCacheAloneIsFresh == CacheSpec => []CacheAloneIsFresh
  <1>1. TInv /\ AloneInv => CacheAloneIsFresh
    BY DEF AloneInv, EntryIsCurrent, CacheAloneIsFresh, CacheIsFresh
  <1> QED
    BY <1>1, CacheSpecTInv, SpecAloneInv, PTL

\* When they have, and no two changes have one time stamp, what a handler learns
\* of a category is what the database says.
THEOREM SpecAnswerAloneIsCurrent == ~SameMs => (CacheSpec => []AnswerAloneIsCurrent)
  <1> SUFFICES ASSUME ~SameMs PROVE CacheSpec => []AnswerAloneIsCurrent
    OBVIOUS
  <1>1. TInv /\ StampInv /\ AloneInv /\ SinceIsPast => AnswerAloneIsCurrent
    <2> SUFFICES ASSUME TInv, StampInv, AloneInv, SinceIsPast, ~crowded,
                        NEW r \in Reader, NEW c \in Category, pc[r] = "validate"
                 PROVE  \E k \in since[r]..Now : Valid(r, c) = (c \in versions[k].cats)
      BY DEF AnswerAloneIsCurrent, AnswerIsCurrent
    <2>1. copy[r] = Stored /\ entry = Stored /\ ~writing
      BY DEF AloneInv, OneHandler, EntryIsCurrent
    <2>2. \A q \in Reader : pc[q] # "stamp"
      BY DEF AloneInv, OneHandler
    <2>3. c \in Stored.cats => stamp[c] = Stored.at
      BY <2>1, <2>2 DEF AloneInv, StampsAreThere
    <2>4. stamp[c] = Stored.at => c \in Stored.cats
      BY StoredIsRecord DEF StampInv, StampIsTrue
    <2>5. Now \in since[r]..Now
      BY DEF SinceIsPast, TInv, CacheTypeOK
    <2> QED
      BY <2>1, <2>3, <2>4, <2>5, StoredIsRecord DEF Valid
  <1>2. CacheSpec => []StampInv
    BY CacheSpecTInv, InitStampInv, NextStampInv, PTL DEF CacheSpec
  <1> QED
    BY <1>1, <1>2, CacheSpecTInv, SpecAloneInv, PTL

-----------------------------------------------------------------------------
(* Module SearchIndex.                                                     *)

\* A server that is down holds nothing, and the tool runs on no other.
DownIsIdle ==
  /\ ~up => /\ \A w \in Worker : task[w].pc = "idle"
            /\ ~force_commit
            /\ \A l \in Lang, i \in Item : asked[l][i] = 0
  /\ tool # "off" => ~up

\* What a worker commits is the last version of its record, which no other commits.
TasksAreLast ==
  \A w \in Worker :
    /\ task[w].pc = "idle" <=> task[w].item = NoItem
    /\ task[w].item # NoItem =>
         /\ task[w].new = record[task[w].item]
         /\ \A v \in Worker : task[v].item = task[w].item => v = w

\* Documents are made of versions that were stored.
DocsAreVersions ==
  \A i \in Item :
    /\ \A l \in Lang : /\ writer[l][i] <= record[i].version
                       /\ disk[l][i] <= record[i].version
                       /\ shards[l][i] <= record[i].version
    /\ search.found[i] <= record[i].version

\* The documents there were at a command are there, in that version or a later one.
AskedIsHeld == \A l \in Lang, i \in Item : asked[l][i] <= writer[l][i]

\* A record is read, in the queue, with a thread of the tool, or made a document of.
ToolHasAll ==
  /\ tool # "off" =>
       \A i \in Item : \/ i \in unread
                       \/ \E k \in 1..Len(queue) : queue[k] = i
                       \/ \E x \in Indexer : hand[x] = i
                       \/ shards[record[i].lang][i] = record[i].version
  /\ tool \in {"drain", "join"} => unread = {}
  /\ tool = "join" => queue = << >>
  /\ tool = "off" => \A x \in Indexer : hand[x] = NoItem

IInv ==
  /\ TypeOK /\ DownIsIdle /\ TasksAreLast /\ DocsAreVersions
  /\ AskedIsHeld /\ CommandIsObeyed /\ ToolHasAll /\ IndexIsCurrent

-----------------------------------------------------------------------------
LEMMA EmptyTypes ==
  /\ Nothing \in Version /\ Nothing.version = 0 /\ Nothing.lang \in Lang
  /\ Idle \in Task /\ Idle.pc = "idle" /\ Idle.item = NoItem
  /\ NoSearch \in Search /\ \A i \in Item : NoSearch.found[i] = 0
  /\ NoDocs \in Docs /\ \A l \in Lang, i \in Item : NoDocs[l][i] = 0
  <1>1. Nothing \in Version /\ Nothing.version = 0 /\ Nothing.lang \in Lang
    BY SearchIndexAssumption DEF Nothing, Version
  <1>2. Idle \in Task /\ Idle.pc = "idle" /\ Idle.item = NoItem
    BY <1>1 DEF Idle, Task
  <1>3. NoSearch \in Search /\ \A i \in Item : NoSearch.found[i] = 0
    BY <1>1 DEF NoSearch, Search
  <1>4. NoDocs \in Docs /\ \A l \in Lang, i \in Item : NoDocs[l][i] = 0
    BY DEF NoDocs, Docs
  <1> QED
    BY <1>1, <1>2, <1>3, <1>4

LEMMA TaskType ==
  ASSUME NEW t \in Task
  PROVE  /\ t.pc \in {"idle", "index", "flag", "clear", "flush"}
         /\ t.item \in Item \cup {NoItem} /\ t.new \in Version
         /\ \A p \in {"flag", "clear", "flush"} :
              /\ [t EXCEPT !.pc = p] \in Task /\ [t EXCEPT !.pc = p].pc = p
              /\ [t EXCEPT !.pc = p].item = t.item /\ [t EXCEPT !.pc = p].new = t.new
  BY DEF Task

\* The next step of a worker, and nothing of the others.
LEMMA AtType ==
  ASSUME TypeOK, NEW w \in Worker, NEW p \in {"flag", "clear", "flush"}, At(w, p)
  PROVE  /\ task' \in [Worker -> Task] /\ \A v \in Worker \ {w} : task'[v] = task[v]
         /\ task'[w].pc = p /\ task'[w].item = task[w].item /\ task'[w].new = task[w].new
  <1>1. task' = [task EXCEPT ![w] = [task[w] EXCEPT !.pc = p]] /\ task \in [Worker -> Task]
    BY DEF At, TypeOK
  <1>2. task[w] \in Task
    BY <1>1
  <1> DEFINE t == [task[w] EXCEPT !.pc = p]
  <1>3. t \in Task /\ t.pc = p /\ t.item = task[w].item /\ t.new = task[w].new
    BY <1>2 DEF Task
  <1>4. task' = [task EXCEPT ![w] = t]
    BY <1>1
  <1> HIDE DEF t
  <1> QED
    BY <1>1, <1>3, <1>4

LEMMA Numbers ==
  ASSUME TypeOK
  PROVE  /\ \A i \in Item : /\ record[i].version \in Nat /\ record[i].lang \in Lang
                            /\ search.found[i] \in Nat
         /\ \A l \in Lang, i \in Item : /\ writer[l][i] \in Nat /\ disk[l][i] \in Nat
                                        /\ shards[l][i] \in Nat /\ asked[l][i] \in Nat
  BY DEF TypeOK, Version, Search, Docs

LEMMA InitIInv == Init => IInv
  <1> SUFFICES ASSUME Init PROVE IInv
    OBVIOUS
  <1>1. << >> \in Seq(Item) /\ Len(<< >>) = 0 /\ MaxQueue \in Nat
    BY SearchIndexAssumption
  <1>2. TypeOK
    <2>1. record \in [Item -> Version]
      BY EmptyTypes DEF Init
    <2>2. task \in [Worker -> Task]
      BY EmptyTypes DEF Init
    <2>3. search \in Search
      BY EmptyTypes DEF Init
    <2>4. hand \in [Indexer -> Item \cup {NoItem}]
      BY DEF Init
    <2>5. queue \in Seq(Item) /\ Len(queue) <= MaxQueue
      BY <1>1 DEF Init
    <2>6. writer \in Docs /\ disk \in Docs /\ shards \in Docs /\ asked \in Docs
      BY EmptyTypes DEF Init
    <2> QED
      BY <2>1, <2>2, <2>3, <2>4, <2>5, <2>6 DEF Init, TypeOK
  <1>3. DownIsIdle /\ TasksAreLast
    BY EmptyTypes DEF Init, DownIsIdle, TasksAreLast
  <1>4. DocsAreVersions /\ AskedIsHeld /\ CommandIsObeyed
    BY EmptyTypes DEF Init, DocsAreVersions, AskedIsHeld, CommandIsObeyed
  <1>5. ToolHasAll
    BY DEF Init, ToolHasAll
  <1>6. IndexIsCurrent
    BY EmptyTypes DEF Init, IndexIsCurrent, Behind
  <1> QED
    BY <1>2, <1>3, <1>4, <1>5, <1>6 DEF IInv

LEMMA StoreKeeps ==
  ASSUME IInv, NEW w \in Worker, NEW i \in Item, NEW l \in Lang, Store(w, i, l) PROVE IInv'
  <1> DEFINE new == [version |-> record[i].version + 1, lang |-> l]
  <1> USE DEF IInv
  <1>1. /\ up /\ task[w].pc = "idle" /\ \A v \in Worker : task[v].item # i
        /\ record' = [record EXCEPT ![i] = new]
        /\ task' = [task EXCEPT ![w] = [pc |-> "index", item |-> i, new |-> new]]
        /\ UNCHANGED <<writer, force_commit, no_xapian, up, rebuild, disk, search, missed, asked>>
    BY DEF Store
  <1>2. i # NoItem /\ tool = "off" /\ UNCHANGED <<tool, unread, queue, hand, shards>>
    BY <1>1, SearchIndexAssumption DEF DownIsIdle, rebuild
  <1>3. new \in Version /\ new.version >= record[i].version
    BY Numbers DEF Version
  <1>4. record'[i] = new /\ \A j \in Item \ {i} : record'[j] = record[j]
    BY <1>1 DEF TypeOK
  <1>5. /\ task'[w] = [pc |-> "index", item |-> i, new |-> new]
        /\ \A v \in Worker \ {w} : task'[v] = task[v]
    BY <1>1 DEF TypeOK
  <1>6. \A j \in Item : record'[j].version >= record[j].version /\ record'[j].version \in Nat
    BY <1>3, <1>4, Numbers DEF Version
  <1> HIDE DEF new
  <1>7. TypeOK'
    <2>1. [pc |-> "index", item |-> i, new |-> new] \in Task
      BY <1>3 DEF Task
    <2> QED
      BY <1>1, <1>2, <1>3, <2>1 DEF TypeOK
  <1>8. DownIsIdle'
    BY <1>1, <1>2 DEF DownIsIdle
  <1>9. TasksAreLast'
    BY <1>1, <1>2, <1>4, <1>5 DEF TypeOK, TasksAreLast
  <1>10. DocsAreVersions'
    BY <1>1, <1>2, <1>6, Numbers DEF DocsAreVersions
  <1>11. AskedIsHeld' /\ CommandIsObeyed'
    BY <1>1, <1>5 DEF AskedIsHeld, CommandIsObeyed
  <1>12. ToolHasAll'
    BY <1>2 DEF ToolHasAll
  <1>13. IndexIsCurrent'
    BY <1>1, <1>4, <1>5 DEF IndexIsCurrent, OnItsWay, Behind
  <1> QED
    BY <1>7, <1>8, <1>9, <1>10, <1>11, <1>12, <1>13

\* The document of the last version of a record takes the place of an older one.
LEMMA WithDocType ==
  ASSUME NEW docs \in Docs, NEW i \in Item,
         NEW new \in Version
  PROVE  /\ WithDoc(docs, i, new) \in Docs
         /\ WithDoc(docs, i, new)[new.lang][i] = new.version
         /\ \A l \in Lang, j \in Item :
              l # new.lang \/ j # i => WithDoc(docs, i, new)[l][j] = docs[l][j]
  BY DEF WithDoc, Docs, Version

LEMMA IndexKeeps == ASSUME IInv, NEW w \in Worker, Index(w) PROVE IInv'
  <1> DEFINE i == task[w].item
             new == task[w].new
  <1> USE DEF IInv
  <1>1. i \in Item /\ new \in Version /\ new = record[i]
        /\ \A v \in Worker : task[v].item = i => v = w
    <2>1. task[w] \in Task /\ task[w].pc = "index"
      BY DEF Index, TypeOK
    <2>2. i \in Item \cup {NoItem} /\ new \in Version
      BY <2>1, TaskType
    <2> QED
      BY <2>1, <2>2 DEF TasksAreLast
  <1>2. task[w].pc = "index" /\ At(w, "flag")
        /\ UNCHANGED <<record, force_commit, no_xapian, up, rebuild, disk, search, asked>>
    BY DEF Index
  <1>3. UNCHANGED <<tool, unread, queue, hand, shards>>
    BY <1>2 DEF rebuild
  <1>4. /\ \A v \in Worker : task'[v].item = task[v].item /\ task'[v].new = task[v].new
        /\ \A v \in Worker \ {w} : task'[v].pc = task[v].pc
        /\ task'[w].pc = "flag"
    BY <1>2, AtType
  <1>5. \/ missed' = missed \cup {i} /\ writer' = writer
        \/ writer' = WithDoc(writer, i, new) /\ missed' = missed \ {i}
    BY DEF Index
  <1> HIDE DEF i, new
  <1>6. writer \in Docs /\ record[i].version = new.version
        /\ new.lang \in Lang /\ new.version \in Nat
    BY <1>1 DEF TypeOK, Version
  <1>7. /\ writer' \in Docs
        /\ \A l \in Lang, j \in Item : \/ writer'[l][j] = writer[l][j]
                                       \/ j = i /\ l = new.lang /\ writer'[l][j] = new.version
        /\ i \in missed' \/ writer'[new.lang][i] = new.version
    BY <1>1, <1>5, <1>6, WithDocType
  <1>8. TypeOK'
    <2>1. missed' \subseteq Item
      BY <1>1, <1>5 DEF TypeOK
    <2>2. task' \in [Worker -> Task]
      BY <1>2, AtType
    <2> QED
      BY <1>2, <1>3, <1>7, <2>1, <2>2 DEF TypeOK
  <1>9. DownIsIdle'
    BY <1>2, <1>3 DEF DownIsIdle
  <1>10. TasksAreLast'
    BY <1>1, <1>2, <1>4, SearchIndexAssumption DEF TasksAreLast, i
  <1>11. DocsAreVersions'
    BY <1>1, <1>2, <1>3, <1>6, <1>7, Numbers DEF DocsAreVersions
  <1>12. AskedIsHeld'
    <2> SUFFICES ASSUME NEW l \in Lang, NEW j \in Item PROVE asked[l][j] <= writer'[l][j]
      BY <1>2 DEF AskedIsHeld
    <2>1. asked[l][j] <= writer[l][j] /\ writer[l][j] <= record[j].version
      BY DEF AskedIsHeld, DocsAreVersions
    <2> QED
      BY <1>6, <1>7, <2>1, Numbers
  <1>13. CommandIsObeyed'
    BY <1>2, <1>4 DEF CommandIsObeyed
  <1>14. ToolHasAll'
    BY <1>2, <1>3 DEF ToolHasAll
  <1>15. IndexIsCurrent'
    <2> SUFFICES ASSUME NEW j \in Item \ missed', ~OnItsWay(j)'
                 PROVE  (j \notin Behind(IF up THEN writer ELSE disk))'
      BY DEF IndexIsCurrent
    <2>1. up /\ up'
      BY <1>2 DEF DownIsIdle
    <2>2. CASE j = i
      BY <1>1, <1>2, <1>6, <1>7, <2>1, <2>2 DEF Behind
    <2>3. CASE j # i
      <3>1. j \notin missed /\ ~OnItsWay(j)
        BY <1>2, <1>4, <1>5, <2>3 DEF OnItsWay, i
      <3>2. writer[record[j].lang][j] = record[j].version
        BY <2>1, <3>1 DEF IndexIsCurrent, Behind
      <3>3. record[j].lang \in Lang
        BY Numbers
      <3> QED
        BY <1>2, <1>7, <2>1, <2>3, <3>2, <3>3 DEF Behind
    <2> QED
      BY <2>2, <2>3
  <1> QED
    BY <1>8, <1>9, <1>10, <1>11, <1>12, <1>13, <1>14, <1>15

\* What IndexThrows loses is missed, and no longer asked for.
LEMMA IndexThrowsKeeps == ASSUME IInv, NEW w \in Worker, IndexThrows(w) PROVE IInv'
  <1> DEFINE i == task[w].item
             l == task[w].new.lang
  <1> USE DEF IInv
  <1>1. i \in Item /\ l \in Lang /\ task[w].pc = "index"
    <2>1. task[w] \in Task /\ task[w].pc = "index"
      BY DEF IndexThrows, TypeOK
    <2>2. i \in Item \cup {NoItem} /\ task[w].new \in Version
      BY <2>1, TaskType
    <2> QED
      BY <2>1, <2>2 DEF TasksAreLast, Version
  <1>2. /\ task' = [task EXCEPT ![w] = Idle]
        /\ UNCHANGED <<record, force_commit, no_xapian, up, tool, unread, queue, hand, shards, disk,
                       search>>
    BY DEF IndexThrows, rebuild
  <1>3. \/ missed' = missed \cup {i} /\ writer' = writer /\ asked' = asked
        \/ /\ missed' = missed \cup {i} \cup {j \in Item : writer[l][j] # disk[l][j]}
           /\ writer' = [writer EXCEPT ![l] = disk[l]]
           /\ asked' = [asked EXCEPT ![l] = disk[l]]
    BY DEF IndexThrows
  <1>4. /\ task' \in [Worker -> Task] /\ \A v \in Worker \ {w} : task'[v] = task[v]
        /\ task'[w].pc = "idle" /\ task'[w].item = NoItem
    BY <1>2, EmptyTypes DEF TypeOK
  <1> HIDE DEF i, l
  <1>5. /\ writer' \in Docs /\ asked' \in Docs /\ missed' \subseteq Item
        /\ missed \subseteq missed' /\ i \in missed'
        /\ \A m \in Lang, j \in Item :
             \/ writer'[m][j] = writer[m][j] /\ asked'[m][j] = asked[m][j]
             \/ writer'[m][j] = disk[m][j] /\ asked'[m][j] = disk[m][j]
        /\ \A m \in Lang, j \in Item \ missed' : writer'[m][j] = writer[m][j]
    <2>1. writer \in Docs /\ asked \in Docs /\ disk \in Docs /\ missed \subseteq Item
      BY DEF TypeOK
    <2>2. CASE missed' = missed \cup {i} /\ writer' = writer /\ asked' = asked
      BY <1>1, <2>1, <2>2
    <2>3. CASE /\ missed' = missed \cup {i} \cup {j \in Item : writer[l][j] # disk[l][j]}
               /\ writer' = [writer EXCEPT ![l] = disk[l]]
               /\ asked' = [asked EXCEPT ![l] = disk[l]]
      <3>1. disk[l] \in [Item -> Nat]
        BY <1>1, <2>1 DEF Docs
      <3>2. writer' \in Docs /\ asked' \in Docs
        BY <2>1, <2>3, <3>1 DEF Docs
      <3>3. \A m \in Lang : /\ writer'[m] = IF m = l THEN disk[l] ELSE writer[m]
                            /\ asked'[m] = IF m = l THEN disk[l] ELSE asked[m]
        BY <2>1, <2>3 DEF Docs
      <3> QED
        BY <1>1, <2>1, <2>3, <3>2, <3>3
    <2> QED
      BY <1>3, <2>2, <2>3
  <1>6. TypeOK'
    BY <1>2, <1>4, <1>5 DEF TypeOK
  <1>7. DownIsIdle' /\ up
    BY <1>1, <1>2, <1>4 DEF DownIsIdle
  <1>8. TasksAreLast'
    BY <1>2, <1>4, SearchIndexAssumption DEF TasksAreLast
  <1>9. DocsAreVersions'
    BY <1>2, <1>5 DEF DocsAreVersions
  <1>10. AskedIsHeld'
    BY <1>5, Numbers DEF AskedIsHeld
  <1>11. CommandIsObeyed'
    <2> SUFFICES ASSUME ~force_commit, \A v \in Worker : task'[v].pc # "flush",
                        NEW m \in Lang, NEW j \in Item
                 PROVE  asked'[m][j] <= disk[m][j]
      BY <1>2 DEF CommandIsObeyed
    <2>1. \A v \in Worker : task[v].pc # "flush"
      BY <1>1, <1>4
    <2>2. asked[m][j] <= disk[m][j] /\ disk[m][j] \in Nat
      BY <2>1, Numbers DEF CommandIsObeyed
    <2> QED
      BY <1>5, <2>2
  <1>12. ToolHasAll'
    BY <1>2 DEF ToolHasAll
  <1>13. IndexIsCurrent'
    <2> SUFFICES ASSUME NEW j \in Item \ missed', ~OnItsWay(j)'
                 PROVE  (j \notin Behind(IF up THEN writer ELSE disk))'
      BY DEF IndexIsCurrent
    <2>1. j \notin missed /\ j # i /\ ~OnItsWay(j)
      BY <1>4, <1>5 DEF OnItsWay, i
    <2>2. writer[record[j].lang][j] = record[j].version /\ record[j].lang \in Lang
      BY <1>7, <2>1, Numbers DEF IndexIsCurrent, Behind
    <2> QED
      BY <1>2, <1>5, <1>7, <2>2 DEF Behind
  <1> QED
    BY <1>6, <1>7, <1>8, <1>9, <1>10, <1>11, <1>12, <1>13

\* Committing the databases, or some, loses nothing.
LEMMA FinishKeeps == ASSUME IInv, NEW w \in Worker, Finish(w) PROVE IInv'
  <1> USE DEF IInv
  <1>1. /\ task[w].pc \in {"flag", "clear", "flush"} /\ disk' \in {disk, writer}
        /\ force_commit' \in BOOLEAN
        /\ UNCHANGED <<record, writer, no_xapian, up, tool, unread, queue, hand, shards, search, missed, asked>>
    BY DEF Finish, Flag, TypeOK, rebuild
  <1>2. task[w].item \in Item /\ up /\ tool = "off"
    <2>1. task[w] \in Task
      BY DEF TypeOK
    <2>2. task[w].item \in Item \cup {NoItem}
      BY <2>1, TaskType
    <2> QED
      BY <1>1, <2>2 DEF TasksAreLast, DownIsIdle
  <1>3. task' = [task EXCEPT ![w] = Idle] \/ At(w, "clear") \/ At(w, "flush")
    BY DEF Finish, Flag
  <1>4. Idle \in Task /\ Idle.pc = "idle" /\ Idle.item = NoItem
    BY EmptyTypes
  <1>5. TypeOK'
    <2>1. task' \in [Worker -> Task]
      BY <1>3, <1>4, AtType DEF TypeOK
    <2> QED
      BY <1>1, <2>1 DEF TypeOK
  <1>6. DownIsIdle'
    BY <1>1, <1>2 DEF DownIsIdle
  <1>7. /\ \A v \in Worker \ {w} : task'[v] = task[v]
        /\ \/ task'[w].pc = "idle" /\ task'[w].item = NoItem
           \/ /\ task'[w].pc \in {"clear", "flush"}
              /\ task'[w].item = task[w].item /\ task'[w].new = task[w].new
    BY <1>3, <1>4, AtType DEF TypeOK
  <1>8. TasksAreLast'
    BY <1>1, <1>2, <1>7, SearchIndexAssumption DEF TasksAreLast
  <1>9. DocsAreVersions' /\ AskedIsHeld'
    BY <1>1 DEF DocsAreVersions, AskedIsHeld
  <1>10. CommandIsObeyed'
    <2> SUFFICES ASSUME ~force_commit', \A v \in Worker : task'[v].pc # "flush"
                 PROVE  \A l \in Lang, i \in Item : asked[l][i] <= disk'[l][i]
      BY <1>1 DEF CommandIsObeyed
    <2>1. CASE disk' = writer
      BY <2>1 DEF AskedIsHeld
    <2>2. CASE disk' # writer
      <3>1. task[w].pc = "flag" /\ ~force_commit /\ disk' = disk
        <4>1. ~(task[w].pc = "flush") /\ disk' = disk
          BY <2>2 DEF Finish, Flag
        <4>2. ~At(w, "flush")
          BY AtType
        <4>3. ~(task[w].pc = "clear")
          BY <4>1, <4>2 DEF Finish, Flag
        <4>4. ~force_commit
          BY <4>1, <4>3 DEF Finish, Flag
        <4> QED
          BY <1>1, <4>1, <4>3, <4>4
      <3>2. \A v \in Worker : task[v].pc # "flush"
        BY <1>7, <3>1
      <3> QED
        BY <3>1, <3>2 DEF CommandIsObeyed
    <2> QED
      BY <2>1, <2>2
  <1>11. ToolHasAll'
    BY <1>1, <1>2 DEF ToolHasAll
  <1>12. IndexIsCurrent'
    <2>1. \A v \in Worker : task[v].pc = "index" => task'[v] = task[v]
      BY <1>1, <1>7
    <2> QED
      BY <1>1, <1>2, <2>1 DEF IndexIsCurrent, OnItsWay, Behind
  <1> QED
    BY <1>5, <1>6, <1>8, <1>9, <1>10, <1>11, <1>12

LEMMA RunningKeeps ==
  ASSUME IInv, \/ \E l \in Lang : AutoFlush(l) \/ Open(l)
               \/ Populate \/ Command
  PROVE  IInv'
  <1> USE DEF IInv
  <1>1. UNCHANGED <<record, task, writer, up, tool, unread, queue, hand, shards, missed>>
    BY DEF AutoFlush, Open, Populate, Command, server, rebuild
  <1>2. /\ disk' \in Docs
        /\ \A l \in Lang : disk'[l] = disk[l] \/ disk'[l] = writer[l]
    <2>1. disk' \in {disk, writer} \/ \E l \in Lang : disk' = [disk EXCEPT ![l] = writer[l]]
      BY DEF AutoFlush, Open, Populate, Command
    <2> QED
      BY <2>1 DEF TypeOK, Docs
  <1>3. disk' = disk \/ up
    BY DEF AutoFlush, Open, Populate, Command
  <1>4. \/ search' = search \/ search' = NoSearch
        \/ \E l \in Lang : search' = [pc |-> "found", lang |-> l, found |-> disk[l]]
    BY DEF AutoFlush, Open, Populate, Command
  <1>5. /\ force_commit' \in BOOLEAN /\ no_xapian' \in BOOLEAN
        /\ asked' = asked \/ asked' = writer
        /\ ~up => force_commit' = force_commit /\ asked' = asked
    BY DEF AutoFlush, Open, Populate, Command, server, TypeOK
  <1>6. TypeOK'
    <2>1. search' \in Search
      <3>1. \A l \in Lang : [pc |-> "found", lang |-> l, found |-> disk[l]] \in Search
        BY DEF TypeOK, Docs, Search
      <3> QED
        BY <1>4, <3>1, EmptyTypes DEF TypeOK
    <2> QED
      BY <1>1, <1>2, <1>5, <2>1 DEF TypeOK
  <1>7. DownIsIdle' /\ TasksAreLast' /\ ToolHasAll'
    BY <1>1, <1>5 DEF DownIsIdle, TasksAreLast, ToolHasAll
  <1>8. DocsAreVersions'
    <2>1. \A i \in Item : search'.found[i] <= record[i].version
      BY <1>4, EmptyTypes, Numbers DEF DocsAreVersions
    <2> QED
      BY <1>1, <1>2, <2>1 DEF DocsAreVersions
  <1>9. AskedIsHeld'
    BY <1>1, <1>5, Numbers DEF AskedIsHeld
  <1>10. CommandIsObeyed'
    <2> SUFFICES ASSUME ~force_commit', \A v \in Worker : task[v].pc # "flush",
                        NEW l \in Lang, NEW i \in Item
                 PROVE  asked'[l][i] <= disk'[l][i]
      BY <1>1 DEF CommandIsObeyed
    <2>1. CASE disk' = writer
      BY <1>5, <2>1, Numbers DEF AskedIsHeld
    <2>2. CASE disk' # writer
      <3>1. ~force_commit /\ asked' = asked
        BY <2>2 DEF AutoFlush, Open, Populate, Command, server
      <3> QED
        BY <1>2, <3>1, Numbers DEF CommandIsObeyed, AskedIsHeld
    <2> QED
      BY <2>1, <2>2
  <1>11. IndexIsCurrent'
    BY <1>1, <1>3 DEF IndexIsCurrent, OnItsWay, Behind
  <1> QED
    BY <1>6, <1>7, <1>8, <1>9, <1>10, <1>11

LEMMA EndKeeps == ASSUME IInv, Crash \/ Stop PROVE IInv'
  <1> USE DEF IInv
  <1>1. up /\ tool = "off" /\ Down /\ UNCHANGED <<record, tool, unread, queue, hand, shards>>
    BY DEF Crash, Stop, DownIsIdle, rebuild
  <1>2. /\ writer' = disk' /\ disk' \in {disk, writer}
        /\ \/ missed' = Behind(disk) /\ disk' = disk
           \/ missed' = missed /\ disk' = writer /\ \A w \in Worker : task[w].pc = "idle"
    BY DEF Crash, Stop
  <1>3. /\ ~up' /\ ~force_commit' /\ ~no_xapian' /\ force_commit' \in BOOLEAN /\ no_xapian' \in BOOLEAN /\ up' \in BOOLEAN
        /\ search' = NoSearch /\ asked' = NoDocs
        /\ task' = [w \in Worker |-> Idle]
    BY <1>1 DEF Down
  <1>4. TypeOK'
    <2>1. task' \in [Worker -> Task]
      BY <1>3, EmptyTypes
    <2>2. missed' \subseteq Item
      BY <1>2 DEF Behind, TypeOK
    <2> QED
      BY <1>1, <1>2, <1>3, <2>1, <2>2, EmptyTypes DEF TypeOK
  <1>5. DownIsIdle' /\ TasksAreLast'
    BY <1>1, <1>3, EmptyTypes DEF DownIsIdle, TasksAreLast
  <1>6. DocsAreVersions'
    BY <1>1, <1>2, <1>3, EmptyTypes, Numbers DEF DocsAreVersions
  <1>7. AskedIsHeld' /\ CommandIsObeyed'
    <2>1. \A l \in Lang, i \in Item : /\ asked'[l][i] = 0
                                      /\ writer'[l][i] \in Nat /\ disk'[l][i] \in Nat
      BY <1>2, <1>3, EmptyTypes, Numbers
    <2> QED
      BY <2>1 DEF AskedIsHeld, CommandIsObeyed
  <1>8. ToolHasAll'
    BY <1>1 DEF ToolHasAll
  <1>9. IndexIsCurrent'
    <2>1. \A i \in Item \ missed' : i \notin Behind(disk)'
      <3>1. CASE missed' = Behind(disk) /\ disk' = disk
        BY <1>1, <3>1 DEF Behind
      <3>2. CASE missed' = missed /\ disk' = writer /\ \A w \in Worker : task[w].pc = "idle"
        BY <1>1, <3>2 DEF Behind, IndexIsCurrent, OnItsWay
      <3> QED
        BY <1>2, <3>1, <3>2
    <2> QED
      BY <1>3, <2>1 DEF IndexIsCurrent
  <1> QED
    BY <1>4, <1>5, <1>6, <1>7, <1>8, <1>9

LEMMA StartKeeps == ASSUME IInv, Start PROVE IInv'
  <1> USE DEF IInv
  <1>1. /\ ~up /\ tool = "off" /\ up' = TRUE /\ writer' = disk
        /\ UNCHANGED <<record, task, force_commit, no_xapian, tool, unread, queue, hand, shards,
                       disk, search, missed, asked>>
    BY DEF Start, rebuild
  <1>2. TypeOK'
    BY <1>1 DEF TypeOK
  <1>3. DownIsIdle' /\ TasksAreLast' /\ DocsAreVersions' /\ ToolHasAll'
    BY <1>1 DEF DownIsIdle, TasksAreLast, DocsAreVersions, ToolHasAll
  <1>4. AskedIsHeld' /\ CommandIsObeyed'
    BY <1>1, Numbers DEF DownIsIdle, AskedIsHeld, CommandIsObeyed
  <1>5. IndexIsCurrent'
    BY <1>1 DEF IndexIsCurrent, OnItsWay, Behind
  <1> QED
    BY <1>2, <1>3, <1>4, <1>5

-----------------------------------------------------------------------------
\* A step of the tool that does not touch the index.
LEMMA ToolKeeps ==
  ASSUME IInv, UNCHANGED <<server, disk, search, missed, asked>>,
         tool' \in {"read", "drain", "join"}, ~up, unread' \subseteq Item,
         queue' \in Seq(Item), Len(queue') <= MaxQueue,
         hand' \in [Indexer -> Item \cup {NoItem}],
         shards' \in Docs,
         \A l \in Lang, i \in Item : shards'[l][i] <= record[i].version,
         ToolHasAll'
  PROVE  IInv'
  <1> USE DEF IInv
  <1>1. UNCHANGED <<record, task, writer, force_commit, no_xapian, up>>
    BY DEF server
  <1>2. TypeOK'
    BY <1>1 DEF TypeOK
  <1>3. DownIsIdle' /\ TasksAreLast' /\ AskedIsHeld' /\ CommandIsObeyed'
    BY <1>1 DEF DownIsIdle, TasksAreLast, AskedIsHeld, CommandIsObeyed
  <1>4. DocsAreVersions'
    BY <1>1 DEF DocsAreVersions
  <1>5. IndexIsCurrent'
    BY <1>1 DEF IndexIsCurrent, OnItsWay, Behind
  <1> QED
    BY <1>2, <1>3, <1>4, <1>5

LEMMA BeginKeeps == ASSUME IInv, Begin PROVE IInv'
  <1> USE DEF IInv
  <1>1. /\ ~up /\ tool' = "read" /\ unread' = {i \in Item : record[i].version > 0}
        /\ queue' = << >> /\ shards' = NoDocs /\ hand' = hand
        /\ UNCHANGED <<server, disk, search, missed, asked>>
    BY DEF Begin
  <1>2. queue' \in Seq(Item) /\ Len(queue') <= MaxQueue
    BY <1>1, EmptySeq, SearchIndexAssumption
  <1>3. /\ shards' \in Docs
        /\ \A l \in Lang, i \in Item : shards'[l][i] = 0
    BY <1>1, EmptyTypes
  <1>4. \A i \in Item : record[i].version \in Nat /\ record[i].lang \in Lang
    BY Numbers
  <1>5. ToolHasAll'
    <2>1. \A i \in Item \ unread' : record[i].version = 0
      BY <1>1, <1>4
    <2> QED
      BY <1>1, <1>3, <1>4, <2>1 DEF ToolHasAll, server
  <1>6. /\ unread' \subseteq Item /\ hand' \in [Indexer -> Item \cup {NoItem}]
        /\ \A l \in Lang, i \in Item : shards'[l][i] <= record[i].version
    BY <1>1, <1>3, <1>4 DEF TypeOK
  <1> QED
    BY <1>1, <1>2, <1>3, <1>5, <1>6, ToolKeeps

LEMMA ReadKeeps == ASSUME IInv, Read PROVE IInv'
  <1> USE DEF IInv
  <1> DEFINE i == CHOOSE i \in unread : TRUE
  <1>1. /\ tool = "read" /\ Len(queue) < MaxQueue /\ i \in unread
        /\ queue' = Append(queue, i) /\ unread' = unread \ {i}
        /\ UNCHANGED <<tool, hand, shards, server, disk, search, missed, asked>>
    BY DEF Read
  <1> HIDE DEF i
  <1>2. i \in Item /\ queue \in Seq(Item) /\ MaxQueue \in Nat
    BY <1>1, SearchIndexAssumption DEF TypeOK
  <1>3. /\ queue' \in Seq(Item) /\ Len(queue') = Len(queue) + 1
        /\ queue'[Len(queue) + 1] = i /\ \A k \in 1..Len(queue) : queue'[k] = queue[k]
    BY <1>1, <1>2, AppendProperties
  <1>4. Len(queue) \in Nat /\ Len(queue') <= MaxQueue
    BY <1>1, <1>2, <1>3, LenProperties
  <1>5. ToolHasAll'
    <2> SUFFICES ASSUME NEW j \in Item,
                        j \notin unread', ~\E x \in Indexer : hand'[x] = j,
                        shards'[record'[j].lang][j] # record'[j].version
                 PROVE  \E k \in 1..Len(queue') : queue'[k] = j
      BY <1>1 DEF ToolHasAll
    <2>1. CASE j = i
      BY <1>3, <1>4, <2>1
    <2>2. CASE j # i
      <3>1. \E k \in 1..Len(queue) : queue[k] = j
        BY <1>1, <2>2 DEF ToolHasAll, server
      <3> QED
        BY <1>3, <1>4, <3>1
    <2> QED
      BY <2>1, <2>2
  <1>6. ~up /\ unread' \subseteq Item
    BY <1>1 DEF DownIsIdle, TypeOK
  <1> QED
    BY <1>1, <1>3, <1>4, <1>5, <1>6, ToolKeeps DEF TypeOK, DocsAreVersions

LEMMA DrainKeeps == ASSUME IInv, Drain PROVE IInv'
  <1> USE DEF IInv
  <1>1. /\ tool # "off" /\ tool' \in {"drain", "join"} /\ unread = {}
        /\ tool' = "join" => queue = << >>
        /\ UNCHANGED <<unread, queue, hand, shards, server, disk, search, missed, asked>>
    BY DEF Drain, ToolHasAll
  <1>2. ToolHasAll'
    BY <1>1 DEF ToolHasAll, server
  <1>3. ~up
    BY <1>1 DEF DownIsIdle
  <1> QED
    BY <1>1, <1>2, <1>3, ToolKeeps DEF TypeOK, DocsAreVersions

LEMMA PopKeeps == ASSUME IInv, NEW x \in Indexer, Pop(x) PROVE IInv'
  <1> USE DEF IInv
  <1>1. /\ tool \in {"read", "drain"} /\ hand[x] = NoItem /\ queue # << >>
        /\ hand' = [hand EXCEPT ![x] = Head(queue)] /\ queue' = Tail(queue)
        /\ UNCHANGED <<tool, unread, shards, server, disk, search, missed, asked>>
    BY DEF Pop
  <1>2. queue \in Seq(Item) /\ MaxQueue \in Nat /\ Len(queue) <= MaxQueue
    BY SearchIndexAssumption DEF TypeOK
  <1>3. Head(queue) = queue[1] /\ Head(queue) \in Item /\ Len(queue) \in Nat
    BY <1>1, <1>2, HeadTailProperties, LenProperties
  <1>4. /\ queue' \in Seq(Item) /\ Len(queue') = Len(queue) - 1
        /\ \A k \in 1..Len(queue') : queue'[k] = queue[k + 1]
    BY <1>1, <1>2, HeadTailProperties
  <1>5. /\ hand' \in [Indexer -> Item \cup {NoItem}] /\ hand'[x] = Head(queue)
        /\ \A y \in Indexer \ {x} : hand'[y] = hand[y]
    BY <1>1, <1>3 DEF TypeOK
  <1>6. ToolHasAll'
    <2> SUFFICES ASSUME NEW j \in Item,
                        j \notin unread', ~\E y \in Indexer : hand'[y] = j,
                        shards'[record'[j].lang][j] # record'[j].version
                 PROVE  \E k \in 1..Len(queue') : queue'[k] = j
      BY <1>1 DEF ToolHasAll
    <2>1. ~\E y \in Indexer : hand[y] = j
      BY <1>1, <1>5, SearchIndexAssumption
    <2>2. PICK k \in 1..Len(queue) : queue[k] = j
      BY <1>1, <2>1 DEF ToolHasAll, server
    <2>3. k # 1
      BY <1>3, <1>5, <2>2
    <2>4. k - 1 \in 1..Len(queue') /\ queue'[k - 1] = j
      BY <1>3, <1>4, <2>2, <2>3
    <2> QED
      BY <2>4
  <1>7. ~up /\ Len(queue') <= MaxQueue
    BY <1>1, <1>2, <1>3, <1>4 DEF DownIsIdle
  <1> QED
    BY <1>1, <1>4, <1>5, <1>6, <1>7, ToolKeeps DEF TypeOK, DocsAreVersions

LEMMA WriteDocKeeps == ASSUME IInv, NEW x \in Indexer, WriteDoc(x) PROVE IInv'
  <1> USE DEF IInv
  <1> DEFINE i == hand[x]
  <1>1. /\ i # NoItem
        /\ shards' = WithDoc(shards, i, record[i])
        /\ hand' = [hand EXCEPT ![x] = NoItem]
        /\ UNCHANGED <<tool, unread, queue, server, disk, search, missed, asked>>
    BY DEF WriteDoc
  <1>2. i \in Item
    BY <1>1 DEF TypeOK
  <1>3. record[i] \in Version /\ shards \in Docs
    BY <1>2 DEF TypeOK
  <1> HIDE DEF i
  <1>4. /\ shards' \in Docs
        /\ shards'[record[i].lang][i] = record[i].version
        /\ \A l \in Lang, j \in Item : l # record[i].lang \/ j # i => shards'[l][j] = shards[l][j]
    BY <1>1, <1>2, <1>3, WithDocType
  <1>5. \A l \in Lang, j \in Item : shards'[l][j] <= record[j].version
    BY <1>4, Numbers DEF DocsAreVersions
  <1>6. /\ hand' \in [Indexer -> Item \cup {NoItem}]
        /\ \A y \in Indexer \ {x} : hand'[y] = hand[y]
    BY <1>1 DEF TypeOK
  <1>7. tool # "off"
    BY <1>1 DEF ToolHasAll, i
  <1>8. ToolHasAll'
    <2> SUFFICES ASSUME NEW j \in Item,
                        j \notin unread', ~\E k \in 1..Len(queue') : queue'[k] = j,
                        ~\E y \in Indexer : hand'[y] = j
                 PROVE  shards'[record[j].lang][j] = record[j].version
      BY <1>1, <1>7 DEF ToolHasAll, server
    <2>1. CASE j = i
      BY <1>4, <2>1
    <2>2. CASE j # i
      <3>1. ~\E y \in Indexer : hand[y] = j
        BY <1>6, <2>2 DEF i
      <3>2. shards[record[j].lang][j] = record[j].version
        BY <1>1, <1>7, <3>1 DEF ToolHasAll
      <3> QED
        BY <1>4, <2>2, <3>2, Numbers
    <2> QED
      BY <2>1, <2>2
  <1> QED
    BY <1>1, <1>4, <1>5, <1>6, <1>8, <1>7, ToolKeeps DEF DownIsIdle, TypeOK

LEMMA MergeKeeps == ASSUME IInv, Merge PROVE IInv'
  <1> USE DEF IInv
  <1>1. /\ tool = "join" /\ (\A x \in Indexer : hand[x] = NoItem)
        /\ disk' = shards /\ missed' = {} /\ tool' = "off"
        /\ UNCHANGED <<unread, queue, hand, shards, record, task, writer, force_commit, no_xapian, up,
                       search, asked>>
    BY DEF Merge, server
  <1>2. ~up /\ unread = {} /\ queue = << >>
    BY <1>1 DEF DownIsIdle, ToolHasAll
  <1>3. \A i \in Item : shards[record[i].lang][i] = record[i].version
    BY <1>1, <1>2, SearchIndexAssumption DEF ToolHasAll
  <1>4. TypeOK' /\ DownIsIdle' /\ TasksAreLast' /\ DocsAreVersions' /\ AskedIsHeld' /\ ToolHasAll'
    BY <1>1 DEF TypeOK, DownIsIdle, TasksAreLast, DocsAreVersions, AskedIsHeld, ToolHasAll
  <1>5. CommandIsObeyed'
    BY <1>1, <1>2, Numbers DEF DownIsIdle, CommandIsObeyed
  <1>6. IndexIsCurrent'
    BY <1>1, <1>2, <1>3 DEF IndexIsCurrent, Behind
  <1> QED
    BY <1>4, <1>5, <1>6

\* A tool that dies leaves the index alone.
LEMMA ToolDiesKeeps == ASSUME IInv, ToolDies PROVE IInv'
  <1> USE DEF IInv
  <1>1. /\ tool' = "off" /\ hand' = [x \in Indexer |-> NoItem]
        /\ UNCHANGED <<unread, queue, shards, record, task, writer, force_commit, no_xapian, up,
                       disk, search, missed, asked>>
    BY DEF ToolDies, server
  <1>2. TypeOK' /\ ToolHasAll'
    BY <1>1 DEF TypeOK, ToolHasAll
  <1>3. DownIsIdle' /\ TasksAreLast' /\ DocsAreVersions' /\ AskedIsHeld' /\ CommandIsObeyed'
    BY <1>1 DEF DownIsIdle, TasksAreLast, DocsAreVersions, AskedIsHeld, CommandIsObeyed
  <1>4. IndexIsCurrent'
    BY <1>1 DEF IndexIsCurrent, OnItsWay, Behind
  <1> QED
    BY <1>2, <1>3, <1>4

LEMMA NextIInv == IInv /\ [Next]_vars => IInv'
  <1> SUFFICES ASSUME IInv, [Next]_vars PROVE IInv'
    OBVIOUS
  <1>1. CASE UNCHANGED vars
    BY <1>1 DEF vars, server, rebuild, IInv, TypeOK, DownIsIdle, TasksAreLast, DocsAreVersions,
                AskedIsHeld, CommandIsObeyed, ToolHasAll, IndexIsCurrent, OnItsWay, Behind
  <1>2. CASE \E w \in Worker : Index(w) \/ IndexThrows(w) \/ Finish(w) \/ \E i \in Item, l \in Lang : Store(w, i, l)
    BY <1>2, IndexKeeps, IndexThrowsKeeps, FinishKeeps, StoreKeeps
  <1>3. CASE (\E l \in Lang : AutoFlush(l) \/ Open(l)) \/ Populate \/ Command
    BY <1>3, RunningKeeps
  <1>4. CASE Crash \/ Stop \/ Start
    BY <1>4, EndKeeps, StartKeeps
  <1>5. CASE Begin \/ Tool
    BY <1>5, BeginKeeps, ReadKeeps, DrainKeeps, MergeKeeps, PopKeeps, WriteDocKeeps, ToolDiesKeeps DEF Tool
  <1> QED
    BY <1>1, <1>2, <1>3, <1>4, <1>5 DEF Next

\* IInv holds throughout.
THEOREM SpecIInv == Spec => []IInv
  BY InitIInv, NextIInv, PTL DEF Spec

-----------------------------------------------------------------------------
\* Type correctness of records, documents, commits and the tool.
THEOREM SpecTypeOK == Spec => []TypeOK
  <1>1. IInv => TypeOK
    BY DEF IInv
  <1> QED
    BY <1>1, SpecIInv, PTL

\* AddToCache, and XapIndex: the index has the last version of every record, but
\* for those that a commit has in hand, Xapian has thrown at, a crash has lost or
\* "noxapian" kept out, and an index made anew has them all, whatever the threads
\* of the tool do.
THEOREM SpecIndexIsCurrent == Spec => []IndexIsCurrent
  <1>1. IInv => IndexIsCurrent
    BY DEF IInv
  <1> QED
    BY <1>1, SpecIInv, PTL

\* SearchLocal and SearchWiki: what a search finds is stored when it reads it,
\* since records are written before their documents.
THEOREM SpecFoundIsStored == Spec => []FoundIsStored
  <1>1. IInv => FoundIsStored
    BY DEF IInv, DocsAreVersions, FoundIsStored
  <1> QED
    BY <1>1, SpecIInv, PTL

\* AddToCache clears force_commit before it commits: a command given in between
\* is obeyed by this commit or by the next.
THEOREM SpecCommandIsObeyed == Spec => []CommandIsObeyed
  <1>1. IInv => CommandIsObeyed
    BY DEF IInv
  <1> QED
    BY <1>1, SpecIInv, PTL
=============================================================================
