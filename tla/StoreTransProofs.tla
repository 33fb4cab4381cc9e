-------------------------- MODULE StoreTransProofs --------------------------
(***************************************************************************)
(* Proofs about module StoreTrans: the log is append-only, slaves hold a   *)
(* prefix of it, "in sync" includes all that was acknowledged, and the     *)
(* data follows the log when callers reserve what they write.              *)
(***************************************************************************)
EXTENDS StoreTrans, SequenceTheorems, TLAPS

\* The ids of the commits in progress are below the counter, and those of the
\* commits that did not write yet are new to the log and pairwise distinct.
IdsAreFresh ==
  /\ Logged \subseteq 1..logcounter
  /\ \A w \in Workers :
       task[w].pc \in {"numbered", "logged", "stored"} => task[w].id \in 1..logcounter
  /\ \A w \in Workers : task[w].pc = "numbered" => task[w].id \notin Logged
  /\ \A v, w \in Workers :
       (v # w /\ task[v].pc = "numbered" /\ task[w].pc = "numbered")
         => task[v].id # task[w].id

\* What is acknowledged, or past the log write, is in the log.
AckedIsLogged ==
  /\ acked \subseteq Logged
  /\ \A w \in Workers : task[w].pc \in {"logged", "stored"} => task[w].id \in Logged

\* A reply in preparation holds ids that are in the log, and what was
\* acknowledged when a poll began still is.
PollsAreSound ==
  \A p \in Pollers :
    /\ poll[p].pc = "reply" =>
         \A j \in 1..poll[p].run : Len(copy[p]) + j \in Logged
    /\ poll[p].seen \subseteq acked

IInv ==
  /\ TypeOK
  /\ IdsAreFresh
  /\ AckedIsLogged
  /\ PollsAreSound
  /\ CopyIsPrefix
  /\ CaughtUpHasAcked

-----------------------------------------------------------------------------
LEMMA NoItemsIsTxn == NoItems \in Txn
  <1>1. NoItems \in [{} -> Values \cup {Absent}]
    BY DEF NoItems
  <1> QED
    BY <1>1 DEF Txn

LEMMA ItemsAreTxn == Items \subseteq Txn
  BY ConstantsAssumption

\* Appending the records that follow a sequence keeps it a sequence, longer by
\* their number, with the records at their places.
LEMMA AppendRun ==
  ASSUME NEW S, NEW s \in Seq(S), NEW n \in Nat, NEW f,
         \A j \in 1..n : f[Len(s) + j] \in S
  PROVE  LET t == s \o [j \in 1..n |-> f[Len(s) + j]]
         IN /\ t \in Seq(S)
            /\ Len(t) = Len(s) + n
            /\ \A i \in 1..Len(s) : t[i] = s[i]
            /\ \A i \in (Len(s) + 1)..(Len(s) + n) : t[i] = f[i]
  <1> DEFINE r == [j \in 1..n |-> f[Len(s) + j]]
  <1>1. r \in [1..n -> S]
    OBVIOUS
  <1>2. r \in Seq(S)
    BY <1>1, SeqDef
  <1>3. Len(r) = n
    BY <1>1, <1>2, LenProperties
  <1>4. /\ s \o r \in Seq(S)
        /\ Len(s \o r) = Len(s) + n
        /\ \A i \in 1..(Len(s) + n) :
             (s \o r)[i] = IF i <= Len(s) THEN s[i] ELSE r[i - Len(s)]
    BY <1>2, <1>3, ConcatProperties
  <1>5. Len(s) \in Nat
    BY LenProperties
  <1>6. \A i \in (Len(s) + 1)..(Len(s) + n) : r[i - Len(s)] = f[i]
    BY <1>5
  <1> HIDE DEF r
  <1>7. /\ \A i \in 1..Len(s) : (s \o r)[i] = s[i]
        /\ \A i \in (Len(s) + 1)..(Len(s) + n) : (s \o r)[i] = f[i]
    BY <1>4, <1>5, <1>6
  <1> QED
    BY <1>4, <1>7 DEF r

\* The values of task[w] and of poll[p].
TaskType == [pc : {"idle", "begun", "numbered", "logged", "stored"}, items : Txn, id : Nat]
PollType == [pc : {"idle", "scan", "reply"}, seen : SUBSET Nat, run : Nat, caughtup : BOOLEAN]

LEMMA TaskFields ==
  ASSUME TypeOK, NEW w \in Workers
  PROVE  task[w].id \in Nat /\ task[w].items \in Txn
  <1>1. task[w] \in TaskType
    BY DEF TypeOK, TaskType
  <1> QED
    BY <1>1 DEF TaskType

-----------------------------------------------------------------------------
LEMMA InitIInv == Init => IInv
  <1> SUFFICES ASSUME Init PROVE IInv
    OBVIOUS
  <1> USE NoItemsIsTxn DEF Init, Idle, NoPoll, Logged
  <1>1. TypeOK
    <2>1. \A p \in Pollers : copy[p] \in Seq(Txn)
      BY EmptySeq
    <2>2. copy \in [Pollers -> Seq(Txn)]
      BY <2>1
    <2> QED
      BY <2>2 DEF TypeOK
  <1>2. IdsAreFresh /\ AckedIsLogged /\ PollsAreSound
    BY DEF IdsAreFresh, AckedIsLogged, PollsAreSound
  <1>3. CopyIsPrefix /\ CaughtUpHasAcked
    <2>1. \A p \in Pollers : Len(copy[p]) = 0
      BY EmptySeq
    <2> QED
      BY <2>1 DEF CopyIsPrefix, CaughtUpHasAcked
  <1> QED
    BY <1>1, <1>2, <1>3 DEF IInv

\* The parts of the invariant about the pollers look at the log, the
\* acknowledged ids, the polls and the copies only: they survive every step
\* that lets the log and the acknowledged ids grow and leaves the rest alone.
LEMMA PollersUnaffected ==
  ASSUME IInv, UNCHANGED <<copy, poll>>, acked \subseteq acked',
         \A i \in Logged : i \in Logged' /\ logdb'[i] = logdb[i]
  PROVE  PollsAreSound' /\ CopyIsPrefix' /\ CaughtUpHasAcked'
  BY DEF IInv, PollsAreSound, CopyIsPrefix, CaughtUpHasAcked

LEMMA NextIInv == IInv /\ [Next]_vars => IInv'
  <1> SUFFICES ASSUME IInv, [Next]_vars PROVE IInv'
    OBVIOUS
  <1> USE DEF IInv
  <1>1. ASSUME NEW w \in Workers, NEW m \in Items, Begin(w, m)
        PROVE  IInv'
    <2>1. TypeOK'
      BY <1>1, ItemsAreTxn DEF Begin, TypeOK, Logged
    <2>2. IdsAreFresh' /\ AckedIsLogged'
      BY <1>1 DEF Begin, TypeOK, IdsAreFresh, AckedIsLogged, Logged
    <2> QED
      BY <1>1, <2>1, <2>2, PollersUnaffected DEF Begin, Logged
  <1>2. ASSUME NEW w \in Workers, GetNext(w)
        PROVE  IInv'
    <2>1. TypeOK'
      <3>1. task[w] \in TaskType /\ logcounter + 1 \in Nat
        BY DEF TypeOK, TaskType
      <3>2. [task[w] EXCEPT !.pc = "numbered", !.id = logcounter + 1] \in TaskType
        BY <3>1 DEF TaskType
      <3>3. task' \in [Workers -> TaskType]
        BY <1>2, <3>2 DEF GetNext, TypeOK, TaskType
      <3> QED
        BY <1>2, <3>1, <3>3 DEF GetNext, TypeOK, TaskType, Logged
    <2>2. IdsAreFresh' /\ AckedIsLogged'
      BY <1>2 DEF GetNext, TypeOK, IdsAreFresh, AckedIsLogged, Logged
    <2> QED
      BY <1>2, <2>1, <2>2, PollersUnaffected DEF GetNext, Logged
  <1>3. ASSUME NEW w \in Workers, WriteLog(w)
        PROVE  IInv'
    <2>1. task[w].id \in 1..logcounter /\ task[w].id \notin Logged
      BY <1>3 DEF WriteLog, IdsAreFresh
    <2>2. /\ Logged' = Logged \cup {task[w].id}
          /\ logdb'[task[w].id] = task[w].items
          /\ \A i \in Logged : logdb'[i] = logdb[i]
      BY <1>3, <2>1 DEF WriteLog, Logged
    <2>3. TypeOK'
      <3>1. Logged' \subseteq Nat \ {0} /\ \A i \in Logged' : logdb'[i] \in Txn
        <4>1. Logged \subseteq Nat \ {0} /\ \A i \in Logged : logdb[i] \in Txn
          BY DEF TypeOK
        <4>2. task[w].id \in Nat \ {0} /\ task[w].items \in Txn
          BY <2>1, TaskFields
        <4> QED
          BY <2>2, <4>1, <4>2
      <3>2. task' \in [Workers -> TaskType]
        <4>2. task \in [Workers -> TaskType]
          BY DEF TypeOK, TaskType
        <4>1. [task[w] EXCEPT !.pc = "logged"] \in TaskType
          BY <4>2 DEF TaskType
        <4>3. task' = [task EXCEPT ![w] = [task[w] EXCEPT !.pc = "logged"]]
          BY <1>3, <4>2 DEF WriteLog
        <4> QED
          BY <4>1, <4>2, <4>3
      <3> QED
        BY <1>3, <3>1, <3>2 DEF WriteLog, TypeOK, TaskType
    <2>4. IdsAreFresh' /\ AckedIsLogged'
      BY <1>3, <2>1, <2>2 DEF WriteLog, TypeOK, IdsAreFresh, AckedIsLogged
    <2> QED
      BY <1>3, <2>2, <2>3, <2>4, PollersUnaffected DEF WriteLog
  <1>4. ASSUME NEW w \in Workers, WriteData(w)
        PROVE  IInv'
    <2>1. TypeOK'
      <3>1. task[w].items \in Txn
        BY DEF TypeOK
      <3>2. \A k \in DOMAIN task[w].items : task[w].items[k] \in Values \cup {Absent}
        BY <3>1 DEF Txn
      <3>3. maindb' \in [Keys -> Values \cup {Absent}]
        BY <1>4, <3>2 DEF WriteData, TypeOK
      <3> QED
        BY <1>4, <3>3 DEF WriteData, TypeOK, Logged
    <2>2. IdsAreFresh' /\ AckedIsLogged'
      BY <1>4 DEF WriteData, TypeOK, IdsAreFresh, AckedIsLogged, Logged
    <2> QED
      BY <1>4, <2>1, <2>2, PollersUnaffected DEF WriteData, Logged
  <1>5. ASSUME NEW w \in Workers, Return(w)
        PROVE  IInv'
    <2>1. TypeOK'
      <3>1. task' \in [Workers -> TaskType]
        BY <1>5, NoItemsIsTxn DEF Return, TypeOK, TaskType, Idle
      <3>2. acked' \in SUBSET Nat
        BY <1>5, TaskFields DEF Return, TypeOK
      <3> QED
        BY <1>5, <3>1, <3>2 DEF Return, TypeOK, TaskType, Logged
    <2>2. IdsAreFresh' /\ AckedIsLogged'
      BY <1>5 DEF Return, TypeOK, IdsAreFresh, AckedIsLogged, Idle, Logged
    <2> QED
      BY <1>5, <2>1, <2>2, PollersUnaffected DEF Return, Logged
  <1>6. ASSUME NEW w \in Workers, WriteFails(w)
        PROVE  IInv'
    <2>1. TypeOK'
      BY <1>6, NoItemsIsTxn DEF WriteFails, TypeOK, Idle, Logged
    <2>2. IdsAreFresh' /\ AckedIsLogged'
      BY <1>6 DEF WriteFails, TypeOK, IdsAreFresh, AckedIsLogged, Idle, Logged
    <2> QED
      BY <1>6, <2>1, <2>2, PollersUnaffected DEF WriteFails, Logged
  <1>7. ASSUME NEW p \in Pollers, PollBegin(p)
        PROVE  IInv'
    <2>1. TypeOK'
      BY <1>7 DEF PollBegin, TypeOK, NoPoll, Logged
    <2>2. IdsAreFresh' /\ AckedIsLogged' /\ CopyIsPrefix'
      BY <1>7 DEF PollBegin, IdsAreFresh, AckedIsLogged, CopyIsPrefix, Logged
    <2>3. PollsAreSound'
      BY <1>7 DEF PollBegin, TypeOK, PollsAreSound, NoPoll, Logged
    <2>4. CaughtUpHasAcked'
      <3>1. acked \subseteq 1..logcounter
        BY DEF AckedIsLogged, IdsAreFresh
      <3> QED
        BY <1>7, <3>1 DEF PollBegin, TypeOK, CaughtUpHasAcked, NoPoll
    <2> QED
      BY <2>1, <2>2, <2>3, <2>4
  <1>8. ASSUME NEW p \in Pollers, PollScan(p)
        PROVE  IInv'
    <2>1. PICK n \in 0..(Limit + 1) :
            /\ \A j \in 1..n : Len(copy[p]) + j \in Logged
            /\ poll' = [poll EXCEPT ![p] = [@ EXCEPT !.pc = "reply", !.run = n]]
      BY <1>8 DEF PollScan
    <2>2. n \in Nat
      BY ConstantsAssumption
    <2>3. TypeOK'
      <3>1. [poll[p] EXCEPT !.pc = "reply", !.run = n] \in PollType
        BY <2>2 DEF TypeOK, PollType
      <3>2. poll' \in [Pollers -> PollType]
        BY <2>1, <3>1 DEF TypeOK, PollType
      <3> QED
        BY <1>8, <3>2 DEF PollScan, TypeOK, PollType, Logged
    <2>4. IdsAreFresh' /\ AckedIsLogged' /\ CopyIsPrefix'
      BY <1>8 DEF PollScan, IdsAreFresh, AckedIsLogged, CopyIsPrefix, Logged
    <2>5. PollsAreSound' /\ CaughtUpHasAcked'
      BY <1>8, <2>1 DEF PollScan, TypeOK, PollsAreSound, CaughtUpHasAcked, Logged
    <2> QED
      BY <2>3, <2>4, <2>5
  <1>9. ASSUME NEW p \in Pollers, PollReply(p)
        PROVE  IInv'
    <2> DEFINE n == poll[p].run
    <2>1. /\ copy[p] \in Seq(Txn) /\ n \in Nat
          /\ \A j \in 1..n : Len(copy[p]) + j \in Logged
      BY <1>9 DEF PollReply, TypeOK, PollsAreSound
    <2>2. \A j \in 1..n : logdb[Len(copy[p]) + j] \in Txn
      BY <2>1 DEF TypeOK
    <2>3. copy'[p] = copy[p] \o [j \in 1..n |-> logdb[Len(copy[p]) + j]]
      BY <1>9 DEF PollReply, TypeOK
    <2>4. /\ copy'[p] \in Seq(Txn)
          /\ Len(copy'[p]) = Len(copy[p]) + n
          /\ \A i \in 1..Len(copy[p]) : copy'[p][i] = copy[p][i]
          /\ \A i \in (Len(copy[p]) + 1)..(Len(copy[p]) + n) : copy'[p][i] = logdb[i]
      <3> HIDE DEF n
      <3> QED
        BY <2>1, <2>2, <2>3, AppendRun
    <2>5. Len(copy[p]) \in Nat
      BY <2>1, LenProperties
    <2>6. copy' = [copy EXCEPT ![p] = copy'[p]]
      BY <1>9, <2>3 DEF PollReply, TypeOK
    <2>7. TypeOK'
      <3>1. copy' \in [Pollers -> Seq(Txn)]
        BY <2>4, <2>6 DEF TypeOK
      <3>2. \A b \in BOOLEAN :
              [poll[p] EXCEPT !.pc = "idle", !.run = 0, !.caughtup = b] \in PollType
        BY DEF TypeOK, PollType
      <3>3. poll' \in [Pollers -> PollType]
        BY <1>9, <3>2 DEF PollReply, TypeOK, PollType
      <3> QED
        BY <1>9, <3>1, <3>3 DEF PollReply, TypeOK, PollType, Logged
    <2>8. IdsAreFresh' /\ AckedIsLogged'
      BY <1>9 DEF PollReply, IdsAreFresh, AckedIsLogged, Logged
    <2>9. CopyIsPrefix'
      <3>1. \A q \in Pollers \ {p} : copy'[q] = copy[q]
        BY <2>6 DEF TypeOK
      <3>2. UNCHANGED logdb /\ Logged' = Logged
        BY <1>9 DEF PollReply, Logged
      <3>3. \A i \in 1..(Len(copy[p]) + n) : i \in Logged /\ logdb[i] = copy'[p][i]
        <4>1. \A i \in (Len(copy[p]) + 1)..(Len(copy[p]) + n) : i \in Logged
          <5> SUFFICES ASSUME NEW i \in (Len(copy[p]) + 1)..(Len(copy[p]) + n)
                       PROVE  i \in Logged
            OBVIOUS
          <5>1. i - Len(copy[p]) \in 1..n /\ Len(copy[p]) + (i - Len(copy[p])) = i
            BY <2>1, <2>5
          <5> QED
            BY <2>1, <5>1
        <4> QED
          BY <2>1, <2>4, <2>5, <4>1 DEF CopyIsPrefix
      <3> QED
        BY <2>4, <3>1, <3>2, <3>3 DEF CopyIsPrefix
    <2>10. PollsAreSound'
      BY <1>9, <2>6 DEF PollReply, TypeOK, PollsAreSound, Logged
    <2>11. CaughtUpHasAcked'
      <3>1. acked \subseteq 1..logcounter
        BY DEF AckedIsLogged, IdsAreFresh
      <3>2. poll'[p].caughtup = (Len(copy'[p]) = logcounter) /\ poll'[p].seen \subseteq acked
        BY <1>9, <2>4 DEF PollReply, TypeOK, PollsAreSound
      <3>3. \A q \in Pollers \ {p} : copy'[q] = copy[q] /\ poll'[q] = poll[q]
        BY <1>9, <2>6 DEF PollReply, TypeOK
      <3> QED
        BY <3>1, <3>2, <3>3 DEF CaughtUpHasAcked
    <2> QED
      BY <2>7, <2>8, <2>9, <2>10, <2>11
  <1>10. ASSUME CrashRestart
         PROVE  IInv'
    <2>1. logcounter' \in Nat /\ Logged \subseteq 1..logcounter'
      BY <1>10 DEF CrashRestart, TypeOK
    <2>2. TypeOK'
      BY <1>10, <2>1, NoItemsIsTxn DEF CrashRestart, TypeOK, Idle, NoPoll, Logged
    <2>3. IdsAreFresh' /\ AckedIsLogged'
      BY <1>10, <2>1 DEF CrashRestart, IdsAreFresh, AckedIsLogged, Idle, Logged
    <2>4. PollsAreSound' /\ CopyIsPrefix' /\ CaughtUpHasAcked'
      BY <1>10 DEF CrashRestart, PollsAreSound, CopyIsPrefix, CaughtUpHasAcked,
                   NoPoll, Logged
    <2> QED
      BY <2>2, <2>3, <2>4
  <1>11. CASE UNCHANGED vars
    BY <1>11 DEF vars, TypeOK, IdsAreFresh, AckedIsLogged, PollsAreSound,
                 CopyIsPrefix, CaughtUpHasAcked, Logged
  <1> QED
    BY <1>1, <1>2, <1>3, <1>4, <1>5, <1>6, <1>7, <1>8, <1>9, <1>10, <1>11
    DEF Next, CommitStep, PollStep

-----------------------------------------------------------------------------
\* The invariant that carries the safety results of this module.
THEOREM SpecIInv == Spec => []IInv
  BY InitIInv, NextIInv, PTL DEF Spec

\* Type correctness of the commit pipeline.
THEOREM SpecTypeOK == Spec => []TypeOK
  BY SpecIInv, PTL DEF IInv

\* For any number of threads, slaves, crashes and failed writes, what a slave
\* took over with R_TRANSLOG is a gap-free prefix of the log.
THEOREM SpecCopyIsPrefix == Spec => []CopyIsPrefix
  BY SpecIInv, PTL DEF IInv

\* lastid = currid is a sound test for "in sync" (the exit of SyncFirst).
THEOREM SpecCaughtUpHasAcked == Spec => []CaughtUpHasAcked
  BY SpecIInv, PTL DEF IInv

\* No step rewrites a log record, the restart of the counter included.
THEOREM SpecLogAppendOnly == Spec => LogAppendOnly
  <1> DEFINE Kept == \A i \in Logged : i \in Logged' /\ logdb'[i] = logdb[i]
  <1>1. IInv /\ [Next]_vars => Kept
    <2> SUFFICES ASSUME IInv, [Next]_vars PROVE Kept
      OBVIOUS
    <2>1. ASSUME NEW w \in Workers, WriteLog(w) PROVE Kept
      BY <2>1 DEF IInv, IdsAreFresh, WriteLog, Logged
    <2>2. ASSUME UNCHANGED logdb PROVE Kept
      BY <2>2 DEF Logged
    <2> QED
      BY <2>1, <2>2 DEF Next, CommitStep, PollStep, Begin, GetNext, WriteData,
                        Return, WriteFails, PollBegin, PollScan, PollReply,
                        CrashRestart, vars
  <1>2. IInv /\ [Next]_vars => [Kept]_vars
    BY <1>1
  <1> QED
    BY <1>2, SpecIInv, PTL DEF Spec, LogAppendOnly

-----------------------------------------------------------------------------
(***************************************************************************)
(* The data follows the log.  With callers that reserve what they write,   *)
(* two commits in progress have no key in common, so the order of the      *)
(* numbers of the commits of one key is the order of their data writes.    *)
(***************************************************************************)
Undisturbed == Exclusive /\ crashes = 0 /\ fails = 0

\* Commits in progress write different keys.
KeysDisjoint ==
  \A v, w \in Workers : v # w => DOMAIN task[v].items \cap DOMAIN task[w].items = {}

\* A commit that has a number and did not write its data is the last writer of
\* its keys in the log.
LastWriter ==
  \A w \in Workers :
    task[w].pc \in {"numbered", "logged"} =>
      \A i \in Logged : (DOMAIN logdb[i] \cap DOMAIN task[w].items # {})
                         => i <= task[w].id

\* The record of a commit that wrote the log is what it is about to write.
RecordIsItems ==
  \A w \in Workers : task[w].pc = "logged" => logdb[task[w].id] = task[w].items

AppliedLog == [i \in Applied |-> logdb[i]]

LoggedIdsDiffer ==
  \A v, w \in Workers :
    (v # w /\ task[v].pc = "logged" /\ task[w].pc = "logged") => task[v].id # task[w].id

DataInv ==
  Undisturbed =>
    /\ KeysDisjoint
    /\ LastWriter
    /\ RecordIsItems
    /\ LoggedIdsDiffer
    /\ \A k \in Keys : maindb[k] = Replayed(AppliedLog, k)

\* Replayed depends only on the records that write the key.
LEMMA ReplayedSame ==
  ASSUME NEW log1, NEW log2, NEW k,
         {i \in DOMAIN log1 : k \in DOMAIN log1[i]} = {i \in DOMAIN log2 : k \in DOMAIN log2[i]},
         \A i \in DOMAIN log1 : k \in DOMAIN log1[i] => log1[i] = log2[i]
  PROVE  Replayed(log1, k) = Replayed(log2, k)
  <1> DEFINE W1 == {i \in DOMAIN log1 : k \in DOMAIN log1[i]}
             W2 == {i \in DOMAIN log2 : k \in DOMAIN log2[i]}
             L1 == {i \in W1 : \A j \in W1 : j <= i}
             L2 == {i \in W2 : \A j \in W2 : j <= i}
  <1>1. L1 = L2
    OBVIOUS
  <1>2. CASE L1 = {}
    BY <1>1, <1>2 DEF Replayed
  <1>3. CASE L1 # {}
    <2>1. (CHOOSE i \in L1 : TRUE) \in L1
      BY <1>3
    <2>2. (CHOOSE i \in L1 : TRUE) = (CHOOSE i \in L2 : TRUE)
      BY <1>1
    <2>3. log1[CHOOSE i \in L1 : TRUE] = log2[CHOOSE i \in L2 : TRUE]
      BY <2>1, <2>2
    <2> QED
      BY <1>1, <1>3, <2>3 DEF Replayed
  <1> QED
    BY <1>2, <1>3

\* The last writer decides.
LEMMA ReplayedLast ==
  ASSUME NEW log, NEW k, NEW n \in DOMAIN log, DOMAIN log \subseteq Nat,
         k \in DOMAIN log[n],
         \A i \in DOMAIN log : k \in DOMAIN log[i] => i <= n
  PROVE  Replayed(log, k) = log[n][k]
  <1> DEFINE W == {i \in DOMAIN log : k \in DOMAIN log[i]}
             L == {i \in W : \A j \in W : j <= i}
  <1>1. L = {n}
    OBVIOUS
  <1>2. (CHOOSE i \in L : TRUE) = n
    BY <1>1
  <1> QED
    BY <1>1, <1>2 DEF Replayed

LEMMA ReplayedEmpty ==
  ASSUME NEW log, NEW k, \A i \in DOMAIN log : k \notin DOMAIN log[i]
  PROVE  Replayed(log, k) = Absent
  BY DEF Replayed

LEMMA InitDataInv == Init => DataInv
  <1> SUFFICES ASSUME Init PROVE DataInv
    OBVIOUS
  <1>1. KeysDisjoint /\ LastWriter /\ RecordIsItems /\ LoggedIdsDiffer
    BY DEF Init, KeysDisjoint, LastWriter, RecordIsItems, LoggedIdsDiffer,
           Idle, NoItems
  <1>2. \A k \in Keys : maindb[k] = Replayed(AppliedLog, k)
    <2>1. DOMAIN AppliedLog = {}
      BY DEF Init, AppliedLog, Applied, Logged
    <2>2. \A k \in Keys : Replayed(AppliedLog, k) = Absent
      BY <2>1, ReplayedEmpty
    <2> QED
      BY <2>2 DEF Init
  <1> QED
    BY <1>1, <1>2 DEF DataInv

\* A step that changes neither the data nor the applied part of the log keeps
\* them in step.
LEMMA DataUnaffected ==
  ASSUME \A k \in Keys : maindb[k] = Replayed(AppliedLog, k),
         UNCHANGED maindb, Applied' = Applied,
         \A i \in Applied : logdb'[i] = logdb[i]
  PROVE  (\A k \in Keys : maindb[k] = Replayed(AppliedLog, k))'
  <1>1. AppliedLog' = AppliedLog
    BY DEF AppliedLog
  <1>2. \A k : Replayed(AppliedLog, k)' = Replayed(AppliedLog, k)
    BY <1>1 DEF Replayed
  <1> QED
    BY <1>2

LEMMA NextDataInv == IInv /\ IInv' /\ DataInv /\ [Next]_vars => DataInv'
  <1> SUFFICES ASSUME IInv, IInv', DataInv, [Next]_vars, Undisturbed'
               PROVE  DataInv'
    BY DEF DataInv
  <1> DEFINE DataOK == \A k \in Keys : maindb[k] = Replayed(AppliedLog, k)
             Parts == KeysDisjoint /\ LastWriter /\ RecordIsItems /\ LoggedIdsDiffer
  <1> SUFFICES Parts' /\ DataOK'
    BY DEF DataInv
  <1>1. ASSUME NEW w \in Workers, NEW m \in Items, Begin(w, m)
        PROVE  Parts' /\ DataOK'
    <2>1. Undisturbed
      BY <1>1 DEF Begin, Undisturbed
    <2>2. Parts /\ DataOK
      BY <2>1 DEF DataInv
    <2>3. KeysDisjoint'
      BY <1>1, <2>1, <2>2 DEF Begin, Undisturbed, KeysDisjoint, IInv, TypeOK
    <2>4. LastWriter' /\ RecordIsItems' /\ LoggedIdsDiffer'
      BY <1>1, <2>2 DEF Begin, LastWriter, RecordIsItems, LoggedIdsDiffer, Logged,
                        IInv, TypeOK
    <2>5. Applied' = Applied
      BY <1>1 DEF Begin, Applied, Logged, IInv, TypeOK
    <2>6. DataOK'
      BY <1>1, <2>2, <2>5, DataUnaffected DEF Begin
    <2> QED
      BY <2>3, <2>4, <2>6
  <1>2. ASSUME NEW w \in Workers, GetNext(w)
        PROVE  Parts' /\ DataOK'
    <2>1. Undisturbed
      BY <1>2 DEF GetNext, Undisturbed
    <2>2. Parts /\ DataOK
      BY <2>1 DEF DataInv
    <2>3. KeysDisjoint'
      BY <1>2, <2>2 DEF GetNext, KeysDisjoint, IInv, TypeOK
    <2>4. LastWriter'
      <3>1. \A i \in Logged : i <= logcounter + 1
        <4>1. Logged \subseteq 1..logcounter /\ logcounter \in Nat
          BY DEF IInv, IdsAreFresh, TypeOK
        <4> QED
          BY <4>1
      <3> QED
        BY <1>2, <2>2, <3>1 DEF GetNext, LastWriter, Logged, IInv, TypeOK
    <2>5. RecordIsItems' /\ LoggedIdsDiffer'
      BY <1>2, <2>2 DEF GetNext, RecordIsItems, LoggedIdsDiffer, Logged, IInv, TypeOK
    <2>6. Applied' = Applied
      BY <1>2 DEF GetNext, Applied, Logged, IInv, TypeOK
    <2>7. DataOK'
      BY <1>2, <2>2, <2>6, DataUnaffected DEF GetNext
    <2> QED
      BY <2>3, <2>4, <2>5, <2>7
  <1>3. ASSUME NEW w \in Workers, WriteLog(w)
        PROVE  Parts' /\ DataOK'
    <2>1. Undisturbed
      BY <1>3 DEF WriteLog, Undisturbed
    <2>2. Parts /\ DataOK
      BY <2>1 DEF DataInv
    <2>3. /\ Logged' = Logged \cup {task[w].id} /\ task[w].id \notin Logged
          /\ logdb'[task[w].id] = task[w].items
          /\ \A i \in Logged : logdb'[i] = logdb[i]
      BY <1>3 DEF WriteLog, Logged, IInv, IdsAreFresh
    <2>4. /\ task'[w].pc = "logged" /\ task[w].pc = "numbered"
          /\ \A v \in Workers : task'[v].id = task[v].id /\ task'[v].items = task[v].items
          /\ \A v \in Workers \ {w} : task'[v].pc = task[v].pc
      BY <1>3 DEF WriteLog, IInv, TypeOK
    <2>5. KeysDisjoint'
      BY <2>2, <2>4 DEF KeysDisjoint
    <2>6. LastWriter'
      <3>1. ASSUME NEW v \in Workers, task'[v].pc \in {"numbered", "logged"},
                   NEW i \in Logged', DOMAIN logdb'[i] \cap DOMAIN task'[v].items # {}
            PROVE  i <= task'[v].id
        <4>1. task[v].pc \in {"numbered", "logged"}
          BY <2>4, <3>1
        <4>2. CASE i \in Logged
          BY <2>2, <2>3, <2>4, <3>1, <4>1, <4>2 DEF LastWriter
        <4>3. CASE i = task[w].id /\ v = w
          BY <2>4, <4>3, TaskFields DEF IInv
        <4>4. CASE i = task[w].id /\ v # w
          BY <2>2, <2>3, <2>4, <3>1, <4>4 DEF KeysDisjoint
        <4> QED
          BY <2>3, <4>2, <4>3, <4>4
      <3> QED
        BY <3>1 DEF LastWriter
    <2>7. RecordIsItems' /\ LoggedIdsDiffer'
      BY <2>2, <2>3, <2>4 DEF RecordIsItems, LoggedIdsDiffer, IInv, AckedIsLogged
    <2>8. Applied' = Applied
      BY <2>3, <2>4 DEF Applied
    <2>9. DataOK'
      <3>1. Applied \subseteq Logged
        BY DEF Applied
      <3> QED
        BY <1>3, <2>2, <2>3, <2>8, <3>1, DataUnaffected DEF WriteLog
    <2> QED
      BY <2>5, <2>6, <2>7, <2>9
  <1>4. ASSUME NEW w \in Workers, WriteData(w)
        PROVE  Parts' /\ DataOK'
    <2>1. Undisturbed
      BY <1>4 DEF WriteData, Undisturbed
    <2>2. Parts /\ DataOK
      BY <2>1 DEF DataInv
    <2>3. /\ task'[w].pc = "stored" /\ task[w].pc = "logged"
          /\ \A v \in Workers : task'[v].id = task[v].id /\ task'[v].items = task[v].items
          /\ \A v \in Workers \ {w} : task'[v].pc = task[v].pc
          /\ UNCHANGED logdb /\ Logged' = Logged
      BY <1>4 DEF WriteData, IInv, TypeOK, Logged
    <2>4. Parts'
      BY <2>2, <2>3 DEF KeysDisjoint, LastWriter, RecordIsItems, LoggedIdsDiffer
    <2> DEFINE n == task[w].id
    <2>5. n \in Logged /\ logdb[n] = task[w].items
      BY <2>2, <2>3 DEF RecordIsItems, IInv, AckedIsLogged
    <2>6. Applied' = Applied \cup {n}
      BY <2>2, <2>3, <2>5 DEF Applied, LoggedIdsDiffer
    <2>7. /\ DOMAIN AppliedLog = Applied /\ DOMAIN AppliedLog' = Applied \cup {n}
          /\ \A i \in Applied : AppliedLog[i] = logdb[i]
          /\ \A i \in Applied \cup {n} : AppliedLog'[i] = logdb[i]
      BY <2>3, <2>6 DEF AppliedLog
    <2>8. Applied \cup {n} \subseteq Logged /\ Logged \subseteq Nat
      BY <2>5 DEF Applied, IInv, TypeOK
    <2>9. ASSUME NEW k \in Keys PROVE maindb'[k] = Replayed(AppliedLog, k)'
      <3>1. CASE k \in DOMAIN task[w].items
        <4>1. maindb'[k] = task[w].items[k]
          BY <1>4, <3>1 DEF WriteData
        <4>2. \A i \in Logged : k \in DOMAIN logdb[i] => i <= n
          BY <2>2, <2>3, <3>1 DEF LastWriter
        <4>3. Replayed(AppliedLog', k) = AppliedLog'[n][k]
          <5>1. /\ n \in DOMAIN AppliedLog' /\ DOMAIN AppliedLog' \subseteq Nat
                /\ k \in DOMAIN AppliedLog'[n]
            BY <2>5, <2>7, <2>8, <3>1
          <5>2. \A i \in DOMAIN AppliedLog' : k \in DOMAIN AppliedLog'[i] => i <= n
            BY <2>7, <2>8, <4>2
          <5> HIDE DEF n
          <5> QED
            BY <5>1, <5>2, ReplayedLast
        <4>4. Replayed(AppliedLog, k)' = Replayed(AppliedLog', k)
          BY DEF Replayed
        <4> QED
          BY <2>5, <2>7, <4>1, <4>3, <4>4
      <3>2. CASE k \notin DOMAIN task[w].items
        <4>1. maindb'[k] = maindb[k]
          BY <1>4, <3>2 DEF WriteData
        <4>2. Replayed(AppliedLog, k) = Replayed(AppliedLog', k)
          <5>1. {i \in DOMAIN AppliedLog : k \in DOMAIN AppliedLog[i]}
                  = {i \in DOMAIN AppliedLog' : k \in DOMAIN AppliedLog'[i]}
            BY <2>5, <2>7, <3>2
          <5>2. \A i \in DOMAIN AppliedLog : AppliedLog[i] = AppliedLog'[i]
            BY <2>7
          <5> HIDE DEF n
          <5> QED
            BY <5>1, <5>2, ReplayedSame
        <4>3. Replayed(AppliedLog, k)' = Replayed(AppliedLog', k)
          BY DEF Replayed
        <4> QED
          BY <2>2, <4>1, <4>2, <4>3
      <3> QED
        BY <3>1, <3>2
    <2> QED
      BY <2>4, <2>9
  <1>5. ASSUME NEW w \in Workers, Return(w)
        PROVE  Parts' /\ DataOK'
    <2>1. Undisturbed
      BY <1>5 DEF Return, Undisturbed
    <2>2. Parts /\ DataOK
      BY <2>1 DEF DataInv
    <2>3. /\ task'[w] = Idle /\ task[w].pc = "stored" /\ DOMAIN Idle.items = {}
          /\ \A v \in Workers \ {w} : task'[v] = task[v]
          /\ UNCHANGED logdb /\ Logged' = Logged
      BY <1>5 DEF Return, IInv, TypeOK, Logged, Idle, NoItems
    <2>4. Parts'
      BY <2>2, <2>3 DEF KeysDisjoint, LastWriter, RecordIsItems, LoggedIdsDiffer, Idle
    <2>5. Applied' = Applied
      BY <2>3 DEF Applied, Idle
    <2>6. DataOK'
      BY <1>5, <2>2, <2>5, DataUnaffected DEF Return
    <2> QED
      BY <2>4, <2>6
  <1>6. ASSUME NEW w \in Workers, WriteFails(w)
        PROVE  Parts' /\ DataOK'
    BY <1>6 DEF WriteFails, Undisturbed, IInv, TypeOK
  <1>7. ASSUME UNCHANGED <<logdb, maindb, task, crashes, fails>>
        PROVE  Parts' /\ DataOK'
    <2>1. Undisturbed
      BY <1>7 DEF Undisturbed
    <2>2. Parts /\ DataOK
      BY <2>1 DEF DataInv
    <2>3. Parts'
      BY <1>7, <2>2 DEF KeysDisjoint, LastWriter, RecordIsItems, LoggedIdsDiffer, Logged
    <2>4. Applied' = Applied
      BY <1>7 DEF Applied, Logged
    <2>5. DataOK'
      BY <1>7, <2>2, <2>4, DataUnaffected
    <2> QED
      BY <2>3, <2>5
  <1>8. ASSUME CrashRestart
        PROVE  Parts' /\ DataOK'
    BY <1>8 DEF CrashRestart, Undisturbed, IInv, TypeOK
  <1> HIDE DEF Parts, DataOK
  <1>9. ASSUME NEW p \in Pollers, PollStep(p)
        PROVE  Parts' /\ DataOK'
    BY <1>7, <1>9 DEF PollStep, PollBegin, PollScan, PollReply
  <1>10. CASE UNCHANGED vars
    BY <1>7, <1>10 DEF vars
  <1> QED
    BY <1>1, <1>2, <1>3, <1>4, <1>5, <1>6, <1>8, <1>9, <1>10 DEF Next, CommitStep

\* For any number of threads and any transactions: without crash or failed
\* write, and if requests in progress never write the same key, the data store
\* is the replay of the log in id order, whatever order the threads ran in.
THEOREM SpecDataFollowsLog == Spec => []DataFollowsLog
  <1>1. IInv /\ DataInv => DataFollowsLog
    BY DEF DataInv, Undisturbed, DataFollowsLog, AppliedLog
  <1> QED
    BY <1>1, SpecIInv, InitDataInv, NextDataInv, PTL DEF Spec

-----------------------------------------------------------------------------
(***************************************************************************)
(* The gaps of the log.                                                    *)
(***************************************************************************)

\* An id that was handed out and is not in the log is on its way to it.
NumberedOrLogged ==
  (crashes = 0 /\ fails = 0) =>
    \A i \in 1..logcounter :
      i \in Logged \/ \E w \in Workers : task[w].pc = "numbered" /\ task[w].id = i

LEMMA NextNumberedOrLogged ==
  IInv /\ NumberedOrLogged /\ [Next]_vars => NumberedOrLogged'
  <1> SUFFICES ASSUME IInv, NumberedOrLogged, [Next]_vars, crashes' = 0, fails' = 0,
                      NEW i \in 1..logcounter'
               PROVE  \/ i \in Logged'
                      \/ \E w \in Workers : task'[w].pc = "numbered" /\ task'[w].id = i
    BY DEF NumberedOrLogged
  <1> USE DEF Logged
  <1>1. /\ logcounter \in Nat /\ crashes \in Nat /\ fails \in Nat
        /\ task \in [Workers -> [pc : {"idle", "begun", "numbered", "logged", "stored"},
                                 items : Txn, id : Nat]]
    BY DEF IInv, TypeOK
  <1>2. crashes = 0 /\ fails = 0
    <2>1. ~CrashRestart
      BY <1>1 DEF CrashRestart
    <2>2. \A w \in Workers : ~WriteFails(w)
      BY <1>1 DEF WriteFails
    <2>3. UNCHANGED <<crashes, fails>>
      BY <2>1, <2>2 DEF Next, CommitStep, PollStep, Begin, GetNext, WriteLog, WriteData,
                        Return, PollBegin, PollScan, PollReply, vars
    <2> QED
      BY <2>3
  <1>3. \A j \in 1..logcounter :
          j \in Logged \/ \E w \in Workers : task[w].pc = "numbered" /\ task[w].id = j
    BY <1>2 DEF NumberedOrLogged
  <1>4. ASSUME NEW w \in Workers, GetNext(w)
        PROVE  \/ i \in Logged'
               \/ \E v \in Workers : task'[v].pc = "numbered" /\ task'[v].id = i
    <2>1. /\ logdb' = logdb /\ logcounter' = logcounter + 1 /\ task[w].pc = "begun"
          /\ task'[w].pc = "numbered" /\ task'[w].id = logcounter + 1
          /\ \A v \in Workers \ {w} : task'[v] = task[v]
      BY <1>1, <1>4 DEF GetNext
    <2>2. CASE i = logcounter + 1
      BY <2>1, <2>2
    <2>3. CASE i \in 1..logcounter
      BY <1>3, <2>1, <2>3
    <2> QED
      BY <1>1, <2>1, <2>2, <2>3
  <1>5. ASSUME NEW w \in Workers, WriteLog(w)
        PROVE  \/ i \in Logged'
               \/ \E v \in Workers : task'[v].pc = "numbered" /\ task'[v].id = i
    <2>1. /\ Logged' = Logged \cup {task[w].id} /\ logcounter' = logcounter
          /\ \A v \in Workers \ {w} : task'[v] = task[v]
      BY <1>1, <1>5 DEF WriteLog
    <2> QED
      BY <1>3, <2>1
  <1>6. ASSUME NEW w \in Workers, NEW m \in Items, Begin(w, m)
        PROVE  \/ i \in Logged'
               \/ \E v \in Workers : task'[v].pc = "numbered" /\ task'[v].id = i
    <2>1. /\ logdb' = logdb /\ logcounter' = logcounter /\ task[w].pc = "idle"
          /\ \A v \in Workers \ {w} : task'[v] = task[v]
      BY <1>1, <1>6 DEF Begin
    <2> QED
      BY <1>3, <2>1
  <1>7. ASSUME NEW w \in Workers, WriteData(w) \/ Return(w)
        PROVE  \/ i \in Logged'
               \/ \E v \in Workers : task'[v].pc = "numbered" /\ task'[v].id = i
    <2>1. /\ logdb' = logdb /\ logcounter' = logcounter /\ task[w].pc # "numbered"
          /\ \A v \in Workers \ {w} : task'[v] = task[v]
      BY <1>1, <1>7 DEF WriteData, Return
    <2> QED
      BY <1>3, <2>1
  <1>8. CASE UNCHANGED <<logcounter, logdb, task>>
    BY <1>3, <1>8
  <1>9. ~CrashRestart /\ \A w \in Workers : ~WriteFails(w)
    BY <1>2 DEF CrashRestart, WriteFails
  <1> QED
    BY <1>4, <1>5, <1>6, <1>7, <1>8, <1>9
    DEF Next, CommitStep, PollStep, PollBegin, PollScan, PollReply, vars

\* Without crash or failed write the ids of the log are a sequence, but for those
\* of the commits that are about to write theirs.
THEOREM SpecGapsAreInFlight == Spec => []GapsAreInFlight
  <1>1. Init => NumberedOrLogged
    BY DEF Init, NumberedOrLogged
  <1>2. NumberedOrLogged => GapsAreInFlight
    BY DEF NumberedOrLogged, GapsAreInFlight, LogHasNoGap, Gap
  <1> QED
    BY <1>1, <1>2, SpecIInv, NextNumberedOrLogged, PTL DEF Spec
=============================================================================
