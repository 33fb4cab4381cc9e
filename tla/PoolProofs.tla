------------------------------ MODULE PoolProofs ------------------------------
(***************************************************************************)
(* Proofs about what the threads of a pool do: module Forwarding, for any  *)
(* number of slaves, threads, writes and deaths, and module Shutdown, for  *)
(* any number of threads and of transactions in an answer.  What a client  *)
(* is told is so, and nodes wait for each other in one way only; the       *)
(* servers of a master stop after the writes that were received, and no    *)
(* commit of the pool is cut in half.                                      *)
(***************************************************************************)
EXTENDS Forwarding, Shutdown, FiniteSetTheorems, SequenceTheorems, TLAPS

-----------------------------------------------------------------------------
(* Module Forwarding.                                                      *)

\* Where the parts of a write are: the master has not taken it before the handler
\* has sent it on, and the handler waits until the master has answered.
PartsAgree ==
  \A w \in Write :
    /\ at[w] = None => service[w] = "none" /\ handler[w] = "none"
    /\ at[w] = Master => handler[w] = "none"
    /\ handler[w] = "queued" => service[w] = "none"
    /\ handler[w] = "waiting" => service[w] \in {"queued", "pushing"}
    /\ service[w] = "pushing" => target[w] \in Slave

\* A write is committed before it is pushed, and not logged before the master takes
\* it.
CommittedOnce ==
  \A w \in Write :
    /\ service[w] \in {"none", "queued"} => w \notin logged
    /\ service[w] = "pushing" => w \in committed
    /\ told[w] \in {"refused", "unknown"} => service[w] = "done"

IInv == TypeOK /\ PartsAgree /\ CommittedOnce /\ AnswersAreTrue

-----------------------------------------------------------------------------
LEMMA InitIInv == Init => IInv
  <1> SUFFICES ASSUME Init PROVE IInv
    OBVIOUS
  <1>1. calls \in Seq(Call)
    BY EmptySeq DEF Init
  <1>2. TypeOK
    BY <1>1 DEF Init, TypeOK
  <1> QED
    BY <1>2 DEF Init, IInv, PartsAgree, CommittedOnce, AnswersAreTrue

\* The master answers: told the truth, and nobody waits for it any more.  A commit
\* that ends changes what is stored of its own write alone.
LEMMA AnswerKeeps ==
  ASSUME IInv, NEW w \in Write, NEW result \in {"ok", "refused", "unknown"}, Answer(w, result),
         service[w] \in {"queued", "pushing"},
         UNCHANGED <<at, target, calls, dead>>, lastslave' \in Slave \cup {None},
         logged' \in {logged, logged \cup {w}}, committed' \in {committed, committed \cup {w}},
         threw' \in {threw, threw \cup {w}}, committed' \subseteq logged', threw' \subseteq logged',
         result = "ok" => w \in committed',
         result # "ok" => w \notin logged' \ threw'
  PROVE  IInv'
  <1> USE DEF IInv
  <1>1. service' = [service EXCEPT ![w] = "done"]
    BY DEF Answer
  <1>2. PICK t \in {told[w], result, IF result = "refused" THEN "unknown" ELSE result} :
          told' = [told EXCEPT ![w] = t]
    BY DEF Answer, TypeOK
  <1>3. /\ handler' \in {handler, [handler EXCEPT ![w] = "ended"]}
        /\ at[w] # Master => handler'[w] # "waiting"
        /\ at[w] = Master => handler' = handler
    BY DEF Answer, TypeOK
  <1>4. TypeOK'
    <2>1. t \in {"nothing", "ok", "refused", "unknown", "failed"}
      BY <1>2 DEF TypeOK
    <2>2. told' \in [Write -> {"nothing", "ok", "refused", "unknown", "failed"}]
      BY <1>2, <2>1 DEF TypeOK
    <2>3. handler' \in [Write -> {"none", "queued", "waiting", "ended"}]
      BY <1>3 DEF TypeOK
    <2>4. service' \in [Write -> {"none", "queued", "pushing", "done"}]
      BY <1>1 DEF TypeOK
    <2> QED
      BY <2>2, <2>3, <2>4 DEF TypeOK
  <1>5. handler[w] # "queued" /\ at[w] # None
    BY DEF PartsAgree
  <1>6. \A v \in Write \ {w} :
          /\ service'[v] = service[v] /\ told'[v] = told[v] /\ handler'[v] = handler[v]
          /\ v \in committed' <=> v \in committed
          /\ v \in logged' <=> v \in logged
          /\ v \in threw' <=> v \in threw
    BY <1>1, <1>2, <1>3 DEF TypeOK
  <1>7. service'[w] = "done" /\ told'[w] = t /\ handler'[w] \in {handler[w], "ended"}
    BY <1>1, <1>2, <1>3 DEF TypeOK
  <1>8. PartsAgree'
    <2>1. at[w] = Master => handler'[w] = "none"
      BY <1>3 DEF PartsAgree
    <2>2. handler'[w] \notin {"queued", "waiting"}
      BY <1>3, <1>5, <1>7, <2>1
    <2> QED
      BY <1>5, <1>6, <1>7, <2>1, <2>2 DEF PartsAgree
  <1>9. CommittedOnce'
    BY <1>6, <1>7 DEF CommittedOnce
  <1>10. AnswersAreTrue'
    <2>1. told'[w] = "ok" => w \in committed'
      BY <1>2, <1>7 DEF AnswersAreTrue
    <2>2. told'[w] \in {"refused", "unknown"} => w \notin logged' \ threw'
      BY <1>2, <1>7 DEF CommittedOnce
    <2> QED
      BY <1>6, <2>1, <2>2 DEF AnswersAreTrue
  <1> QED
    BY <1>4, <1>8, <1>9, <1>10

LEMMA SendKeeps == ASSUME IInv, NEW w \in Write, NEW n \in Node, Send(w, n) PROVE IInv'
  <1> USE DEF IInv
  <1>1. at[w] = None /\ service[w] = "none" /\ handler[w] = "none" /\ n # None
    BY ForwardingAssumption DEF Send, PartsAgree
  <1>2. at' = [at EXCEPT ![w] = n]
    BY DEF Send
  <1>3. \/ n = Master /\ service' = [service EXCEPT ![w] = "queued"] /\ handler' = handler
        \/ n # Master /\ handler' = [handler EXCEPT ![w] = "queued"] /\ service' = service
    BY DEF Send
  <1>4. UNCHANGED <<target, logged, committed, threw, told, calls, lastslave, dead>>
    BY DEF Send, store
  <1>5. TypeOK'
    BY <1>2, <1>3, <1>4 DEF TypeOK
  <1>6. PartsAgree'
    BY <1>1, <1>2, <1>3, <1>4 DEF TypeOK, PartsAgree
  <1>7. CommittedOnce' /\ AnswersAreTrue'
    BY <1>1, <1>3, <1>4 DEF TypeOK, CommittedOnce, AnswersAreTrue
  <1> QED
    BY <1>5, <1>6, <1>7

LEMMA ForwardKeeps == ASSUME IInv, NEW w \in Write, Forward(w) PROVE IInv'
  <1> USE DEF IInv
  <1>1. /\ handler[w] = "queued" /\ service[w] = "none" /\ at[w] # None /\ at[w] # Master
        /\ handler' = [handler EXCEPT ![w] = "waiting"]
        /\ service' = [service EXCEPT ![w] = "queued"]
        /\ calls' = Append(calls, Ask(w))
        /\ UNCHANGED <<at, target, logged, committed, threw, told, lastslave, dead>>
    BY DEF Forward, PartsAgree, store
  <1>2. Ask(w) \in Call
    BY DEF Ask, Call
  <1>3. calls' \in Seq(Call)
    BY <1>1, <1>2, AppendProperties DEF TypeOK
  <1>4. TypeOK'
    BY <1>1, <1>3 DEF TypeOK
  <1>5. PartsAgree'
    BY <1>1 DEF TypeOK, PartsAgree
  <1>6. CommittedOnce' /\ AnswersAreTrue'
    BY <1>1 DEF TypeOK, CommittedOnce, AnswersAreTrue
  <1> QED
    BY <1>4, <1>5, <1>6

\* Its commit ends, with a write that is logged and committed.
LEMMA EndCommitKeeps ==
  ASSUME IInv, NEW w \in Write, EndCommit(w), service[w] \in {"queued", "pushing"},
         logged' = logged \cup {w}, committed' = committed \cup {w},
         UNCHANGED <<at, target, calls, dead>>, lastslave' \in Slave \cup {None}
  PROVE  IInv'
  <1>1. committed \subseteq logged /\ threw \subseteq logged
    BY DEF IInv, TypeOK
  <1>2. CASE Answer(w, "ok") /\ UNCHANGED threw
    BY <1>1, <1>2, AnswerKeeps
  <1>3. CASE Answer(w, "unknown") /\ threw' = threw \cup {w}
    BY <1>1, <1>3, AnswerKeeps
  <1> QED
    BY <1>2, <1>3 DEF EndCommit, Throws

LEMMA ServeKeeps == ASSUME IInv, NEW w \in Write, Serve(w) PROVE IInv'
  <1> USE DEF IInv
  <1>1. /\ service[w] = "queued" /\ w \notin logged /\ UNCHANGED <<at, lastslave, dead>>
        /\ committed \subseteq logged /\ threw \subseteq logged /\ lastslave \in Slave \cup {None}
    BY DEF Serve, CommittedOnce, TypeOK
  <1>2. CASE Answer(w, "refused") /\ UNCHANGED <<target, store, calls>>
    BY <1>1, <1>2, AnswerKeeps DEF store
  <1>3. CASE /\ logged' = logged \cup {w} /\ Throws(w) /\ Answer(w, "refused")
             /\ UNCHANGED <<target, committed, calls>>
    BY <1>1, <1>3, AnswerKeeps DEF Throws
  <1>4. CASE /\ logged' = logged \cup {w} /\ committed' = committed \cup {w}
             /\ EndCommit(w) /\ UNCHANGED <<target, calls>>
    BY <1>1, <1>4, EndCommitKeeps
  <1>5. CASE /\ lastslave # None
             /\ logged' = logged \cup {w} /\ committed' = committed \cup {w}
             /\ service' = [service EXCEPT ![w] = "pushing"]
             /\ target' = [target EXCEPT ![w] = lastslave]
             /\ calls' = Append(calls, Push(w))
             /\ UNCHANGED <<threw, told, handler>>
    <2>1. Push(w) \in Call /\ lastslave \in Slave
      BY <1>5 DEF Push, Call, TypeOK
    <2>2. calls' \in Seq(Call)
      BY <1>5, <2>1, AppendProperties DEF TypeOK
    <2>3. TypeOK'
      BY <1>1, <1>5, <2>1, <2>2 DEF TypeOK
    <2>4. PartsAgree'
      BY <1>1, <1>5, <2>1 DEF TypeOK, PartsAgree
    <2>5. CommittedOnce' /\ AnswersAreTrue'
      BY <1>1, <1>5 DEF TypeOK, CommittedOnce, AnswersAreTrue
    <2> QED
      BY <2>3, <2>4, <2>5
  <1> QED
    BY <1>2, <1>3, <1>4, <1>5 DEF Serve

LEMMA PushKeeps ==
  ASSUME IInv, NEW w \in Write, service[w] = "pushing", EndCommit(w),
         UNCHANGED <<at, target, logged, committed, calls, dead>>,
         lastslave' \in Slave \cup {None}
  PROVE  IInv'
  <1>1. committed' = committed \cup {w} /\ logged' = logged \cup {w}
    BY DEF IInv, CommittedOnce, TypeOK
  <1> QED
    BY <1>1, EndCommitKeeps

\* A handler of a slave ends without an answer.
LEMMA LostKeeps ==
  ASSUME IInv, NEW lost \in SUBSET Write,
         handler' = [w \in Write |-> IF w \in lost THEN "ended" ELSE handler[w]],
         told' = [w \in Write |-> IF w \in lost THEN "failed" ELSE told[w]],
         \A w \in lost : at[w] \notin {None, Master},
         dead' \subseteq Slave,
         UNCHANGED <<at, service, target, logged, committed, threw, calls, lastslave>>
  PROVE  IInv'
  <1>1. TypeOK'
    BY DEF IInv, TypeOK
  <1> QED
    BY <1>1 DEF IInv, TypeOK, PartsAgree, CommittedOnce, AnswersAreTrue

LEMMA TimesOutKeeps == IInv /\ TimesOut => IInv'
  <1> SUFFICES ASSUME IInv, TimesOut PROVE IInv'
    OBVIOUS
  <1> USE DEF IInv
  <1>1. PICK i \in DOMAIN calls :
          /\ Pending(calls[i])
          /\ LET w == calls[i].write IN
               \/ /\ calls[i].to = "master"
                  /\ handler' = [handler EXCEPT ![w] = "ended"]
                  /\ told' = [told EXCEPT ![w] = "failed"]
                  /\ UNCHANGED <<service, lastslave, threw>>
               \/ /\ calls[i].to = "slave"
                  /\ lastslave' = None
                  /\ EndCommit(w)
    BY DEF TimesOut
  <1> DEFINE w == calls[i].write
  <1>2. calls[i] \in Call
    BY DEF TypeOK
  <1>3. w \in Write /\ UNCHANGED <<at, target, logged, committed, calls, dead>>
    BY <1>2 DEF Call, TimesOut
  <1>4. CASE calls[i].to = "master"
    <2>1. handler[w] = "waiting"
      BY <1>1, <1>4 DEF Pending
    <2>2. handler' = [handler EXCEPT ![w] = "ended"] /\ told' = [told EXCEPT ![w] = "failed"]
          /\ UNCHANGED <<service, lastslave, threw>>
      BY <1>1, <1>4
    <2>3. at[w] \notin {None, Master}
      BY <1>3, <2>1 DEF PartsAgree
    <2> HIDE DEF w
    <2>4. /\ handler' = [v \in Write |-> IF v \in {w} THEN "ended" ELSE handler[v]]
          /\ told' = [v \in Write |-> IF v \in {w} THEN "failed" ELSE told[v]]
      BY <1>3, <2>2 DEF TypeOK
    <2>5. {w} \in SUBSET Write /\ dead' \subseteq Slave
      BY <1>3 DEF TypeOK
    <2> QED
      BY <1>3, <2>2, <2>3, <2>4, <2>5, LostKeeps
  <1>5. CASE calls[i].to = "slave"
    <2>1. service[w] = "pushing" /\ EndCommit(w) /\ lastslave' = None
      BY <1>1, <1>5 DEF Pending
    <2> HIDE DEF w
    <2> QED
      BY <1>3, <2>1, PushKeeps
  <1> QED
    BY <1>2, <1>4, <1>5 DEF Call

LEMMA DieKeeps == ASSUME IInv, NEW s \in Slave, Die(s) PROVE IInv'
  <1> DEFINE lost == {w \in Write : at[w] = s /\ handler[w] \in {"queued", "waiting"}}
  <1>1. s \notin {None, Master}
    BY ForwardingAssumption DEF Node
  <1>2. /\ handler' = [w \in Write |-> IF w \in lost THEN "ended" ELSE handler[w]]
        /\ told' = [w \in Write |-> IF w \in lost THEN "failed" ELSE told[w]]
        /\ UNCHANGED <<at, service, target, logged, committed, threw, calls, lastslave>>
        /\ dead' = dead \cup {s}
    BY DEF Die, store
  <1>3. lost \in SUBSET Write /\ \A w \in lost : at[w] \notin {None, Master}
    BY <1>1
  <1>4. dead' \subseteq Slave
    BY <1>2 DEF IInv, TypeOK
  <1> HIDE DEF lost
  <1> QED
    BY <1>2, <1>3, <1>4, LostKeeps

LEMMA NextIInv == IInv /\ [Next]_vars => IInv'
  <1> SUFFICES ASSUME IInv, [Next]_vars PROVE IInv'
    OBVIOUS
  <1>1. CASE UNCHANGED vars
    BY <1>1 DEF vars, store, IInv, TypeOK, PartsAgree, CommittedOnce, AnswersAreTrue
  <1>2. ASSUME NEW w \in Write, PushServed(w) \/ PushFails(w) PROVE IInv'
    BY <1>2, PushKeeps DEF PushServed, PushFails, IInv, TypeOK
  <1>3. ASSUME NEW s \in Slave, PollInSync(s) PROVE IInv'
    BY <1>3 DEF PollInSync, store, IInv, TypeOK, PartsAgree, CommittedOnce, AnswersAreTrue
  <1>4. ASSUME NEW w \in Write, Forward(w) \/ Serve(w) PROVE IInv'
    BY <1>4, ForwardKeeps, ServeKeeps
  <1>5. ASSUME NEW w \in Write, NEW n \in Node, Send(w, n) PROVE IInv'
    BY <1>5, SendKeeps
  <1> QED
    BY <1>1, <1>2, <1>3, <1>4, <1>5, TimesOutKeeps, DieKeeps DEF Next, Step

\* IInv holds throughout.
THEOREM SpecIInv == Spec => []IInv
  BY InitIInv, NextIInv, PTL DEF Spec

-----------------------------------------------------------------------------
\* Type correctness of writes, calls and answers.
THEOREM SpecTypeOK == Spec => []TypeOK
  <1>1. IInv => TypeOK
    BY DEF IInv
  <1> QED
    BY <1>1, SpecIInv, PTL

\* MasterEndpointService and StoreTrans::Commit: a client that is told of success
\* has its write committed; one that is refused has it not even logged, whatever
\* became of the push to the last slave, unless its commit threw after CommitLog.
THEOREM SpecAnswersAreTrue == Spec => []AnswersAreTrue
  <1>1. IInv => AnswersAreTrue
    BY DEF IInv
  <1> QED
    BY <1>1, SpecIInv, PTL

\* A pool without a free thread has at least one that waits.
LEMMA FullPoolWaits ==
  ASSUME NEW n \in Node, n \notin dead, ~Free(n)
  PROVE  Waiting(n) # {} /\ Cardinality(Waiting(n)) >= Threads[n]
  <1>1. IsFiniteSet(Write)
    BY FS_Interval, ForwardingAssumption DEF Write
  <1>2. Waiting(n) \subseteq Write
    BY DEF Waiting
  <1>3. Cardinality(Waiting(n)) \in Nat
    BY <1>1, <1>2, FS_Subset, FS_CardinalityType
  <1>4. Threads[n] \in Nat \ {0} /\ ~(Cardinality(Waiting(n)) < Threads[n])
    BY ForwardingAssumption DEF Free
  <1>5. Cardinality(Waiting(n)) >= Threads[n] /\ Cardinality(Waiting(n)) # 0
    BY <1>3, <1>4
  <1> QED
    BY <1>5, FS_EmptySet

\* SendToMaster and SendToRemote: no handler can go on only if the master waits
\* for a slave whose pool is full of handlers that wait for the master.
THEOREM SpecStuckIsAJam == Spec => []StuckIsAJam
  <1>1. IInv => StuckIsAJam
    <2> SUFFICES ASSUME IInv, Stuck, NEW i \in DOMAIN calls, Pending(calls[i])
                 PROVE  \E w \in Write :
                          /\ service[w] = "pushing" /\ target[w] \notin dead
                          /\ Cardinality(Waiting(target[w])) >= Threads[target[w]]
      BY DEF StuckIsAJam
    <2>1. ASSUME NEW w \in Write, service[w] = "pushing"
          PROVE  target[w] \notin dead /\ Cardinality(Waiting(target[w])) >= Threads[target[w]]
      <3>1. target[w] \in Node /\ target[w] \notin dead /\ ~Free(target[w])
        BY <2>1 DEF Stuck, CanGoOn, IInv, PartsAgree, Node
      <3> QED
        BY <3>1, FullPoolWaits
    <2>2. \E w \in Write : service[w] = "pushing"
      <3>1. calls[i] \in Call
        BY DEF IInv, TypeOK
      <3>2. calls[i].write \in Write /\ calls[i].to \in {"master", "slave"}
        BY <3>1 DEF Call
      <3>3. CASE service[calls[i].write] = "pushing"
        BY <3>2, <3>3
      <3>4. CASE service[calls[i].write] # "pushing"
        <4>1. service[calls[i].write] = "queued"
          BY <3>2, <3>4 DEF Pending, IInv, PartsAgree
        <4>2. ~Free(Master) /\ Master \in Node /\ Master \notin dead
          BY <3>2, <4>1, ForwardingAssumption DEF Stuck, CanGoOn, Node, IInv, TypeOK
        <4>3. Waiting(Master) # {}
          BY <4>2, FullPoolWaits
        <4> QED
          BY <4>3 DEF Waiting
      <3> QED
        BY <3>3, <3>4
    <2> QED
      BY <2>1, <2>2
  <1> QED
    BY <1>1, SpecIInv, PTL

-----------------------------------------------------------------------------
(* Module Shutdown.                                                        *)

\* A master has no sync thread; one that commits has something to commit.
SyncIsSound ==
  /\ ismaster => sync = "none"
  /\ sync \in {"have", "locked", "logged"} => left > 0

\* A master's handler that writes has reserved its name, but for resets.
WritesAreReserved ==
  \A w \in Worker :
    (ismaster /\ w \notin resets /\ pc[w] \in {"reserved", "logged", "await"}) => w \in tmpcache

\* After the sleep of 500 ms no handler gets to where it reserves its name, but
\* for those that were slow.
OnlyLateReserve ==
  main \in {"check", "stopped", "exited"} => \A w \in Worker : pc[w] = "ready" => w \in late

\* The pool has been joined before the process ends.
PoolIsJoined == main = "exited" => \A w \in Worker : pc[w] = "idle"

ShutdownInv ==
  /\ ShutdownTypeOK
  /\ SyncIsSound
  /\ WritesAreReserved
  /\ OnlyLateReserve
  /\ PoolIsJoined
  /\ WritesHaveEnded

-----------------------------------------------------------------------------
LEMMA ShutdownInitInv == ShutdownInit => ShutdownInv
  <1> SUFFICES ASSUME ShutdownInit PROVE ShutdownInv
    OBVIOUS
  <1> USE DEF ShutdownInit
  <1>1. ShutdownTypeOK
    <2>1. level \in BOOLEAN
      OBVIOUS
    <2>2. left \in 0..MaxChunk
      BY ShutdownAssumption
    <2> QED
      BY <2>1, <2>2 DEF ShutdownTypeOK
  <1>2. SyncIsSound /\ WritesAreReserved /\ OnlyLateReserve /\ PoolIsJoined
    BY DEF SyncIsSound, WritesAreReserved, OnlyLateReserve, PoolIsJoined
  <1>3. WritesHaveEnded
    BY DEF WritesHaveEnded, Stopped
  <1> QED
    BY <1>1, <1>2, <1>3 DEF ShutdownInv

\* A handler's step leaves the io thread and the sync thread alone.
LEMMA HandleInv ==
  ASSUME ShutdownInv, NEW w \in Worker, Accept(w) \/ Handle(w)
  PROVE  ShutdownInv'
  <1> USE DEF ShutdownInv, ShutdownTypeOK, GoTo, role, Stopped, Ended, SyncIsSound, WritesAreReserved,
              OnlyLateReserve, PoolIsJoined, WritesHaveEnded
  <1>1. CASE Accept(w)
    BY <1>1 DEF Accept
  <1>2. CASE CheckReady(w)
    BY <1>2 DEF CheckReady
  <1>3. CASE Reserve(w)
    BY <1>3 DEF Reserve
  <1>4. CASE Log(w)
    BY <1>4 DEF Log
  <1>5. CASE WriteData(w)
    BY <1>5 DEF WriteData
  <1>6. CASE Answered(w)
    BY <1>6 DEF Answered
  <1>7. CASE End(w)
    BY <1>7 DEF End
  <1> QED
    BY <1>1, <1>2, <1>3, <1>4, <1>5, <1>6, <1>7 DEF Handle

\* The sync thread runs on a slave only, of which WritesAreReserved and
\* WritesHaveEnded say nothing.
LEMMA SyncInv ==
  ASSUME ShutdownInv, Sync
  PROVE  ShutdownInv'
  <1> USE ShutdownAssumption DEF ShutdownInv, ShutdownTypeOK, role, SyncIsSound, WritesAreReserved,
              OnlyLateReserve, PoolIsJoined, WritesHaveEnded, Stopped, Ended
  <1>1. CASE Polled
    BY <1>1 DEF Polled
  <1>2. CASE SyncLock
    BY <1>2 DEF SyncLock
  <1>3. CASE SyncLog
    BY <1>3 DEF SyncLog
  <1>4. CASE SyncWrite
    BY <1>4 DEF SyncWrite
  <1> QED
    BY <1>1, <1>2, <1>3, <1>4 DEF Sync

\* When the servers stop, tmpcache is empty: by WritesAreReserved no handler is
\* where it writes, and by OnlyLateReserve none can get there.
LEMMA MainInv ==
  ASSUME ShutdownInv, Signal \/ Main
  PROVE  ShutdownInv'
  <1> USE DEF ShutdownInv, ShutdownTypeOK, role, SyncIsSound, WritesAreReserved, OnlyLateReserve,
              PoolIsJoined, WritesHaveEnded, Stopped, Ended
  <1>1. CASE Signal
    BY <1>1 DEF Signal
  <1>2. CASE WakeUp
    BY <1>2 DEF WakeUp
  <1>3. CASE Stop
    BY <1>3 DEF Stop
  <1>4. CASE Exit
    BY <1>4 DEF Exit
  <1> QED
    BY <1>1, <1>2, <1>3, <1>4 DEF Main

LEMMA ShutdownNextInv == ShutdownInv /\ [ShutdownNext]_ShutdownVars => ShutdownInv'
  <1> SUFFICES ASSUME ShutdownInv, [ShutdownNext]_ShutdownVars PROVE ShutdownInv'
    OBVIOUS
  <1>1. CASE UNCHANGED ShutdownVars
    BY <1>1 DEF ShutdownVars, ShutdownInv, ShutdownTypeOK, SyncIsSound, WritesAreReserved, OnlyLateReserve,
                PoolIsJoined, WritesHaveEnded, Stopped, Ended
  <1> QED
    BY <1>1, HandleInv, SyncInv, MainInv DEF ShutdownNext

THEOREM ShutdownSpecInv == ShutdownSpec => []ShutdownInv
  BY ShutdownInitInv, ShutdownNextInv, PTL DEF ShutdownSpec

\* Type correctness: the sync thread never commits more than it was given.
THEOREM ShutdownSpecTypeOK == ShutdownSpec => []ShutdownTypeOK
  BY ShutdownSpecInv, PTL DEF ShutdownInv

\* When the servers of a master stop, the writes it had received have ended, but
\* for slow handlers and resets ("confirm received writes ended").
THEOREM SpecWritesHaveEnded == ShutdownSpec => []WritesHaveEnded
  BY ShutdownSpecInv, PTL DEF ShutdownInv

\* The process does not end between CommitLog and CommitData of a handler.
THEOREM SpecCommitsWhole == ShutdownSpec => []CommitsWhole
  <1>1. ShutdownInv => CommitsWhole
    BY DEF ShutdownInv, PoolIsJoined, CommitsWhole
  <1> QED
    BY <1>1, ShutdownSpecInv, PTL
=============================================================================
