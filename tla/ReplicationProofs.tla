-------------------------- MODULE ReplicationProofs --------------------------
(***************************************************************************)
(* Proofs about module Replication, for any number of slaves, any pointing *)
(* of slaves at each other, crashes and failed calls: type correctness,    *)
(* slaves that registered follow the master, those that serve have caught  *)
(* up, and, as long as the master's machine keeps its log, slaves hold a   *)
(* prefix of it and replication implements ReplicatedLog.                  *)
(***************************************************************************)
EXTENDS Replication, SequenceTheorems, TLAPS

\* The values of pc.
Phase == {"down", "master", "comparefirst", "first", "register",
          "comparemaster", "follow", "poll", "apply", "dead"}

\* A node that runs has someone to follow, and one that is down answers nothing.
RunningIsPointed ==
  /\ \A n \in Node : ready[n] => pc[n] # "down"
  /\ \A s \in Slaves : pc[s] # "down" => master[s] \in Node

\* A thread commits transactions only from a reply that has some.
ApplyHasTxns ==
  \A s \in Slaves : pc[s] = "apply" => chunk[s].txns # << >> /\ chunk[s].then # "down"

\* The transactions of a reply are entries of the master's log, at their ids.
ChunksAreFromMaster ==
  \A s \in Slaves : \A j \in 1..Len(chunk[s].txns) :
    /\ chunk[s].txns[j].id \in 1..Len(log[Master])
    /\ chunk[s].txns[j].ts = log[Master][chunk[s].txns[j].id]

\* The invariant that holds whatever the machines lose.
TInv == TypeOK /\ RunningIsPointed /\ ApplyHasTxns /\ FollowsMaster

\* The prefix needs the origin of the replies that are being committed.
LogInv == SlaveLogIsPrefix /\ (Master \notin Lossy => ChunksAreFromMaster)

-----------------------------------------------------------------------------
LEMMA SlavesAreNodes == Slaves \subseteq Node /\ Master \notin Slaves
  BY DEF Slaves

\* A beginning of a sequence, and a sequence with one more element.
LEMMA SubSeqFacts ==
  ASSUME NEW S, NEW s \in Seq(S), NEW k \in 0..Len(s)
  PROVE  /\ SubSeq(s, 1, k) \in Seq(S)
         /\ Len(SubSeq(s, 1, k)) = k
         /\ \A i \in 1..k : SubSeq(s, 1, k)[i] = s[i]
  <1>1. Len(s) \in Nat
    BY LenProperties
  <1>2. SubSeq(s, 1, k) \in Seq(S)
    <2>1. CASE k = 0
      BY <2>1, <1>1, EmptySeq, SubSeqProperties
    <2>2. CASE k # 0
      BY <2>2, <1>1, SubSeqProperties
    <2> QED
      BY <2>1, <2>2
  <1>3. /\ Len(SubSeq(s, 1, k)) = k
        /\ \A i \in 1..k : SubSeq(s, 1, k)[i] = s[i]
    BY <1>1, SubSeqProperties
  <1> QED
    BY <1>2, <1>3

LEMMA AppendFacts ==
  ASSUME NEW S, NEW s \in Seq(S), NEW e \in S
  PROVE  /\ Append(s, e) \in Seq(S)
         /\ Len(Append(s, e)) = Len(s) + 1
         /\ \A i \in 1..Len(s) : Append(s, e)[i] = s[i]
         /\ Append(s, e)[Len(s) + 1] = e
  BY AppendProperties, LenProperties

LEMMA TailFacts ==
  ASSUME NEW S, NEW s \in Seq(S), s # << >>
  PROVE  /\ Head(s) \in S /\ Head(s) = s[1] /\ Len(s) \in Nat \ {0}
         /\ Tail(s) \in Seq(S) /\ Len(Tail(s)) = Len(s) - 1
         /\ \A i \in 1..Len(Tail(s)) : Tail(s)[i] = s[i + 1]
         /\ Len(s) > 1 => Tail(s) # << >>
  <1>1. Len(s) \in Nat /\ Len(s) # 0
    BY EmptySeq, LenProperties
  <1>2. /\ Tail(s) \in Seq(S) /\ Len(Tail(s)) = Len(s) - 1
        /\ \A i \in 1..Len(Tail(s)) : Tail(s)[i] = s[i + 1]
        /\ Head(s) \in S /\ Head(s) = s[1]
    BY <1>1, HeadTailProperties, ElementOfSeq
  <1>3. ASSUME NEW r \in Seq(S), r = << >> PROVE Len(r) = 0
    BY <1>3, EmptySeq
  <1> QED
    BY <1>1, <1>2, <1>3

\* The entries of a sequence after position a, at most l + 1 of them, with their
\* positions.
LEMMA EntriesAfter ==
  ASSUME NEW t \in Seq(Stamp), NEW a \in Nat, NEW l \in Nat, a <= Len(t)
  PROVE  LET left == Len(t) - a
             f == [j \in 1..(IF left > l THEN l + 1 ELSE left) |->
                     [id |-> a + j, ts |-> t[a + j]]]
         IN /\ f \in Seq(Transaction)
            /\ Len(f) = IF left > l THEN l + 1 ELSE left
            /\ \A j \in 1..Len(f) : /\ f[j].id = a + j
                                    /\ f[j].id \in 1..Len(t)
                                    /\ f[j].ts = t[f[j].id]
  <1> DEFINE left == Len(t) - a
             n == IF left > l THEN l + 1 ELSE left
             f == [j \in 1..n |-> [id |-> a + j, ts |-> t[a + j]]]
  <1>1. Len(t) \in Nat
    BY LenProperties
  <1>2. n \in Nat /\ n <= left
    BY <1>1
  <1>3. \A j \in 1..n : a + j \in 1..Len(t)
    BY <1>1, <1>2
  <1>4. \A j \in 1..n : t[a + j] \in Stamp
    BY <1>3, ElementOfSeq
  <1> HIDE DEF n
  <1>5. f \in [1..n -> Transaction]
    BY <1>2, <1>4 DEF Transaction
  <1>6. f \in Seq(Transaction)
    BY <1>2, <1>5, SeqDef
  <1>7. Len(f) = n
    BY <1>2, <1>5, <1>6, LenProperties
  <1>8. \A j \in 1..n : f[j].id = a + j /\ f[j].ts = t[a + j]
    OBVIOUS
  <1> HIDE DEF f
  <1>9. \A j \in 1..n : /\ f[j].id = a + j
                        /\ f[j].id \in 1..Len(t)
                        /\ f[j].ts = t[f[j].id]
    BY <1>3, <1>8
  <1> QED
    BY <1>6, <1>7, <1>9 DEF f, n

\* What R_TRANSLOG finds at a node are entries of its log, at their ids.
LEMMA FoundFacts ==
  ASSUME TypeOK, NEW s \in Slaves, NEW t \in Node, Len(log[s]) <= Len(log[t])
  PROVE  /\ Found(s, t) \in Seq(Transaction)
         /\ \A j \in 1..Len(Found(s, t)) :
              /\ Found(s, t)[j].id \in 1..Len(log[t])
              /\ Found(s, t)[j].ts = log[t][Found(s, t)[j].id]
  <1>1. log[s] \in Seq(Stamp) /\ log[t] \in Seq(Stamp)
    BY SlavesAreNodes DEF TypeOK
  <1>2. Len(log[s]) \in Nat /\ Limit \in Nat
    BY <1>1, LenProperties, ReplicationAssumption
  <1> QED
    BY <1>1, <1>2, EntriesAfter DEF Found

-----------------------------------------------------------------------------
LEMMA InitTInv == Init => TInv
  <1> SUFFICES ASSUME Init PROVE TInv
    OBVIOUS
  <1>1. TypeOK
    <2>1. << >> \in Seq(Stamp) /\ << >> \in Seq(Transaction)
      BY EmptySeq
    <2>2. NoChunk \in Chunk
      BY <2>1 DEF NoChunk, Chunk
    <2>3. log \in [Node -> Seq(Stamp)] /\ chunk \in [Slaves -> Chunk]
      BY <2>1, <2>2 DEF Init
    <2>4. stamp \in 0..MaxTxn /\ drops \in 0..MaxDrop /\ crashes \in 0..MaxCrash
      BY ReplicationAssumption DEF Init
    <2> QED
      BY <2>3, <2>4 DEF Init, TypeOK
  <1>2. RunningIsPointed /\ ApplyHasTxns /\ FollowsMaster
    BY SlavesAreNodes DEF Init, RunningIsPointed, ApplyHasTxns, FollowsMaster, InSync
  <1> QED
    BY <1>1, <1>2 DEF TInv

\* A call that fails changes the bounded counter only.
LEMMA CallFailsType ==
  ASSUME TypeOK, NEW n, CallFails(n)
  PROVE  drops' \in 0..MaxDrop
  BY ReplicationAssumption DEF TypeOK, CallFails

LEMMA NoteLevelType ==
  ASSUME TypeOK, NEW s \in Slaves
  PROVE  NoteLevel(s) \in Slaves \cup {NoNode}
  BY DEF TypeOK, NoteLevel

\* A process that ends, by a crash or by an exception of SyncFirst.
LEMMA LoseMemoryTInv ==
  ASSUME TInv, NEW n \in Node, LoseMemory(n),
         log' \in [Node -> Seq(Stamp)], goal' \in [Slaves -> Nat], UNCHANGED stamp,
         drops' \in 0..MaxDrop, crashes' \in 0..MaxCrash
  PROVE  TInv'
  <1> USE DEF LoseMemory
  <1>1. TypeOK'
    <2>1. pc' \in [Node -> Phase] /\ ready' \in [Node -> BOOLEAN]
      BY DEF TInv, TypeOK, Phase
    <2>2. master' \in [Slaves -> Node \cup {NoNode}] /\ hops' \in [Slaves -> 0..2]
      BY DEF TInv, TypeOK
    <2>3. NoChunk \in Chunk
      BY EmptySeq DEF NoChunk, Chunk
    <2>4. chunk' \in [Slaves -> Chunk] /\ buffer' \in [Slaves -> SUBSET Nat]
      BY <2>3 DEF TInv, TypeOK
    <2>5. lastslave' \in Slaves \cup {NoNode} /\ pushing' \in SUBSET Nat
      BY DEF TInv, TypeOK
    <2> QED
      BY <2>1, <2>2, <2>4, <2>5 DEF TInv, TypeOK, Phase
  <1>2. RunningIsPointed'
    BY SlavesAreNodes DEF TInv, TypeOK, RunningIsPointed
  <1>3. ApplyHasTxns'
    BY SlavesAreNodes DEF TInv, TypeOK, ApplyHasTxns
  <1>4. FollowsMaster'
    BY SlavesAreNodes DEF TInv, TypeOK, FollowsMaster, InSync
  <1> QED
    BY <1>1, <1>2, <1>3, <1>4 DEF TInv

\* The thread goes on with nothing but its own place changed.
LEMMA GoToTInv ==
  ASSUME TInv, NEW s \in Slaves, NEW where \in Phase \ {"down", "apply"}, GoTo(s, where),
         pc[s] # "down",
         where \in {"comparemaster", "follow", "poll", "dead"} => master[s] = Master,
         lastslave' \in Slaves \cup {NoNode}, drops' \in 0..MaxDrop
  PROVE  TInv'
  <1> USE DEF GoTo
  <1>1. TypeOK'
    <2>1. pc' \in [Node -> Phase]
      BY DEF TInv, TypeOK, Phase
    <2> QED
      BY <2>1 DEF TInv, TypeOK, Phase
  <1>2. RunningIsPointed'
    BY SlavesAreNodes DEF TInv, TypeOK, RunningIsPointed
  <1>3. ApplyHasTxns'
    BY SlavesAreNodes DEF TInv, TypeOK, ApplyHasTxns
  <1>4. FollowsMaster'
    BY SlavesAreNodes DEF TInv, TypeOK, FollowsMaster, InSync, Phase
  <1> QED
    BY <1>1, <1>2, <1>3, <1>4 DEF TInv

\* A reply arrives: there is something to commit, or the thread goes on.
LEMMA ReplyTInv ==
  ASSUME TInv, NEW s \in Slaves, NEW then \in {"first", "register", "follow"},
         ready[master[s]], Len(log[s]) <= Len(log[master[s]]),
         pc[s] # "down", then = "follow" => master[s] = Master,
         LET found == Found(s, master[s])
         IN /\ pc' = [pc EXCEPT ![s] = IF found = << >> THEN then ELSE "apply"]
            /\ chunk' = [chunk EXCEPT ![s] = IF found = << >> THEN NoChunk
                                             ELSE [txns |-> found, then |-> then]],
         lastslave' = NoteLevel(s),
         UNCHANGED <<log, ready, master, hops, buffer, pushing, goal, stamp, drops, crashes>>
  PROVE  TInv'
  <1>1. Found(s, master[s]) \in Seq(Transaction)
    BY FoundFacts DEF TInv, RunningIsPointed
  <1>2. TypeOK'
    <2>1. pc' \in [Node -> Phase]
      BY DEF TInv, TypeOK, Phase
    <2>2. NoChunk \in Chunk /\ [txns |-> Found(s, master[s]), then |-> then] \in Chunk
      BY <1>1, EmptySeq DEF NoChunk, Chunk
    <2>3. chunk' \in [Slaves -> Chunk]
      BY <2>2 DEF TInv, TypeOK
    <2>4. lastslave' \in Slaves \cup {NoNode}
      BY NoteLevelType DEF TInv
    <2> QED
      BY <2>1, <2>3, <2>4 DEF TInv, TypeOK, Phase
  <1>3. RunningIsPointed'
    BY SlavesAreNodes DEF TInv, TypeOK, RunningIsPointed
  <1>4. ApplyHasTxns'
    BY SlavesAreNodes DEF TInv, TypeOK, ApplyHasTxns
  <1>5. FollowsMaster'
    BY SlavesAreNodes DEF TInv, TypeOK, FollowsMaster, InSync
  <1> QED
    BY <1>2, <1>3, <1>4, <1>5 DEF TInv

\* What a step of Next leaves of the invariant for its conjuncts about states.
LEMMA NextTInv == TInv /\ [Next]_vars => TInv'
  <1> SUFFICES ASSUME TInv, [Next]_vars PROVE TInv'
    OBVIOUS
  <1>t. TypeOK
    BY DEF TInv
  <1>1. CASE UNCHANGED vars
    BY <1>1 DEF TInv, vars, TypeOK, RunningIsPointed, ApplyHasTxns, FollowsMaster, InSync
  <1>2. ASSUME NEW n \in Node, Commit(n) PROVE TInv'
    <2>1. log' \in [Node -> Seq(Stamp)]
      <3>1. stamp + 1 \in Stamp
        BY <1>2, <1>t, ReplicationAssumption DEF TypeOK, Commit, Stamp
      <3>2. Append(log[n], stamp + 1) \in Seq(Stamp)
        BY <3>1, <1>t, AppendFacts DEF TypeOK
      <3>3. log \in [Node -> Seq(Stamp)]
        BY <1>t DEF TypeOK
      <3>4. log' = [log EXCEPT ![n] = Append(log[n], stamp + 1)]
        BY <1>2 DEF Commit
      <3> QED
        BY <3>2, <3>3, <3>4
    <2>2. stamp' \in 0..MaxTxn
      BY <1>2, <1>t, ReplicationAssumption DEF TypeOK, Commit
    <2>3. pushing' \in SUBSET Nat
      <3>1. Len(log[n]) \in Nat
        BY <1>t, LenProperties DEF TypeOK
      <3>2. pushing \subseteq Nat /\ Len(log[n]) + 1 \in Nat
        BY <3>1, <1>t DEF TypeOK
      <3>3. pushing' = pushing \cup {Len(log[n]) + 1}
        BY <1>2 DEF Commit
      <3> QED
        BY <3>2, <3>3
    <2>4. TypeOK'
      BY <2>1, <2>2, <2>3, <1>2, <1>t DEF TypeOK, Commit
    <2> QED
      BY <2>4, <1>2 DEF Commit, TInv, RunningIsPointed, ApplyHasTxns, FollowsMaster, InSync
  <1>3. ASSUME NEW n \in Node, Start(n) PROVE TInv'
    <2>1. TypeOK'
      <3>1. pc' \in [Node -> Phase] /\ ready' \in [Node -> BOOLEAN]
        BY <1>3, <1>t DEF Start, TypeOK, Phase
      <3>2. master' \in [Slaves -> Node \cup {NoNode}]
        BY <1>3, <1>t, ReplicationAssumption DEF Start, TypeOK
      <3>3. goal' \in [Slaves -> Nat]
        <4>1. \A s \in Slaves : Len(log[Pointed[s]]) \in Nat
          BY <1>t, ReplicationAssumption, LenProperties DEF TypeOK
        <4> QED
          BY <4>1, <1>3, <1>t DEF Start, TypeOK
      <3> QED
        BY <3>1, <3>2, <3>3, <1>3, <1>t DEF Start, TypeOK, Phase
    <2>2. RunningIsPointed'
      BY <1>3, <1>t, SlavesAreNodes, ReplicationAssumption
      DEF TInv, TypeOK, RunningIsPointed, Start
    <2>3. ApplyHasTxns'
      BY <1>3, <1>t, SlavesAreNodes DEF TInv, TypeOK, ApplyHasTxns, Start
    <2>4. FollowsMaster'
      BY <1>3, <1>t, SlavesAreNodes DEF TInv, TypeOK, FollowsMaster, InSync, Start
    <2> QED
      BY <2>1, <2>2, <2>3, <2>4 DEF TInv
  <1>4. ASSUME NEW n \in Node, Crash(n) PROVE TInv'
    <2>1. log' \in [Node -> Seq(Stamp)]
      <3>1. PICK k \in 0..Len(log[n]) : log' = [log EXCEPT ![n] = SubSeq(@, 1, k)]
        BY <1>4 DEF Crash
      <3>2. SubSeq(log[n], 1, k) \in Seq(Stamp)
        BY <1>t, SubSeqFacts DEF TypeOK
      <3> QED
        BY <3>1, <3>2, <1>t DEF TypeOK
    <2>2. crashes' \in 0..MaxCrash
      BY <1>4, <1>t, ReplicationAssumption DEF TypeOK, Crash
    <2>3. LoseMemory(n) /\ UNCHANGED stamp /\ drops' \in 0..MaxDrop
      BY <1>4, <1>t DEF TypeOK, Crash
    <2>4. goal' \in [Slaves -> Nat]
      <3>1. PICK k \in 0..Len(log[n]) :
              goal' = [s \in Slaves |-> IF Pointed[s] = n /\ k < goal[s] THEN k ELSE goal[s]]
        BY <1>4 DEF Crash
      <3>2. k \in Nat
        BY <1>t, LenProperties DEF TypeOK
      <3> QED
        BY <3>1, <3>2, <1>t DEF TypeOK
    <2> QED
      BY <2>1, <2>2, <2>3, <2>4, LoseMemoryTInv
  <1>5. ASSUME NEW id \in 1..MaxTxn, Push(id) PROVE TInv'
    <2>1. id \in Nat
      BY ReplicationAssumption
    <2>2. buffer \in [Slaves -> SUBSET Nat]
      BY <1>t DEF TypeOK
    <2>5. buffer' \in [Slaves -> SUBSET Nat]
      <3>1. CASE UNCHANGED buffer
        BY <2>2, <3>1
      <3>2. CASE /\ lastslave \in Slaves
                 /\ buffer' = [buffer EXCEPT ![lastslave] = @ \cup {id}]
        <4>1. buffer[lastslave] \cup {id} \in SUBSET Nat
          BY <2>1, <2>2, <3>2
        <4> QED
          BY <2>2, <3>2, <4>1
      <3> QED
        BY <1>5, <3>1, <3>2 DEF Push
    <2>6. TypeOK'
      BY <1>5, <1>t, <2>5 DEF Push, TypeOK
    <2> QED
      BY <2>6, <1>5 DEF Push, TInv, RunningIsPointed, ApplyHasTxns, FollowsMaster, InSync
  <1>6. ASSUME NEW id \in 1..MaxTxn, PushFails(id) PROVE TInv'
    <2>1. id \in Nat
      BY ReplicationAssumption
    <2>2. drops' \in 0..MaxDrop
      BY <1>6, <1>t, CallFailsType DEF PushFails
    <2>3. buffer' \in [Slaves -> SUBSET Nat]
      <3>1. buffer \in [Slaves -> SUBSET Nat] /\ lastslave \in Slaves
        BY <1>6, <1>t DEF PushFails, TypeOK
      <3>2. buffer[lastslave] \cup {id} \in SUBSET Nat
        BY <2>1, <3>1
      <3>3. [buffer EXCEPT ![lastslave] = @ \cup {id}] \in [Slaves -> SUBSET Nat]
        BY <3>1, <3>2
      <3> QED
        BY <1>6, <3>1, <3>3 DEF PushFails
    <2>4. TypeOK'
      BY <1>6, <1>t, <2>2, <2>3 DEF PushFails, TypeOK
    <2> QED
      BY <2>4, <1>6 DEF PushFails, TInv, RunningIsPointed, ApplyHasTxns, FollowsMaster, InSync
  <1>7. ASSUME NEW s \in Slaves, CompareFirst(s) \/ Compare(s) PROVE TInv'
    <2>1. lastslave' \in Slaves \cup {NoNode} /\ drops' \in 0..MaxDrop /\ pc[s] # "down"
      BY <1>7, <1>t DEF TypeOK, CompareFirst, Compare
    <2>2. CASE GoTo(s, "first")
      BY <2>1, <2>2, GoToTInv DEF Phase
    <2>3. CASE pc[s] = "comparemaster" /\ GoTo(s, "follow")
      <3>1. master[s] = Master
        BY <2>3 DEF TInv, FollowsMaster, InSync
      <3> QED
        BY <2>1, <2>3, <3>1, GoToTInv DEF Phase
    <2> QED
      BY <1>7, <2>2, <2>3 DEF CompareFirst, Compare
  <1>8. ASSUME NEW s \in Slaves, Exits(s), drops' \in 0..MaxDrop PROVE TInv'
    <2>1. s \in Node /\ LoseMemory(s) /\ goal' \in [Slaves -> Nat] /\ UNCHANGED stamp
      BY <1>8, <1>t, SlavesAreNodes DEF Exits, TypeOK
    <2>2. log' \in [Node -> Seq(Stamp)] /\ crashes' \in 0..MaxCrash
      BY <1>8, <1>t DEF Exits, TypeOK
    <2> QED
      BY <1>8, <2>1, <2>2, LoseMemoryTInv
  <1>9. ASSUME NEW s \in Slaves, CompareFails(s) PROVE TInv'
    <2>1. drops' \in 0..MaxDrop /\ pc[s] # "down"
      BY <1>9, <1>t, CallFailsType DEF TypeOK, CompareFails
    <2>2. master[s] = Master /\ lastslave' \in Slaves \cup {NoNode}
      BY <1>9, <1>t DEF CompareFails, TInv, TypeOK, FollowsMaster, InSync
    <2> QED
      BY <1>9, <2>1, <2>2, GoToTInv DEF CompareFails, Phase
  <1>10. ASSUME NEW s \in Slaves, FetchFirst(s) PROVE TInv'
    <2> DEFINE then == IF Len(log[s]) + Len(Found(s, master[s])) = Len(log[master[s]])
                       THEN "register" ELSE "first"
    <2>1. then \in {"first", "register", "follow"} /\ then # "follow" /\ pc[s] # "down"
      BY <1>10 DEF FetchFirst
    <2> QED
      BY <1>10, <2>1, ReplyTInv DEF FetchFirst
  <1>11. ASSUME NEW s \in Slaves, Fetch(s) PROVE TInv'
    <2>1. master[s] = Master /\ pc[s] # "down"
      BY <1>11 DEF Fetch, TInv, FollowsMaster, InSync
    <2> QED
      BY <1>11, <2>1, ReplyTInv DEF Fetch
  <1>12. ASSUME NEW s \in Slaves, FetchFails(s) PROVE TInv'
    <2>1. drops' \in 0..MaxDrop /\ pc[s] # "down"
      BY <1>12, <1>t, CallFailsType DEF TypeOK, FetchFails
    <2>2. CASE Exits(s)
      BY <2>1, <2>2, <1>8
    <2>3. CASE /\ pc[s] = "poll" /\ GoTo(s, "follow")
               /\ lastslave' \in {lastslave} \cup
                    (IF ready[master[s]] THEN {NoteLevel(s)} ELSE {})
      <3>1. master[s] = Master
        BY <2>3 DEF TInv, FollowsMaster, InSync
      <3>2. lastslave' \in Slaves \cup {NoNode}
        BY <2>3, <1>t, NoteLevelType DEF TypeOK
      <3> QED
        BY <2>1, <2>3, <3>1, <3>2, GoToTInv DEF Phase
    <2> QED
      BY <1>12, <2>2, <2>3 DEF FetchFails
  <1>13. ASSUME NEW s \in Slaves, Apply(s) PROVE TInv'
    <2>0. s \in Node
      BY SlavesAreNodes
    <2>1. chunk[s] \in Chunk
      BY <1>t DEF TypeOK
    <2>2. chunk[s].txns \in Seq(Transaction) /\ chunk[s].txns # << >>
      BY <1>13, <2>1 DEF Chunk, TInv, ApplyHasTxns, Apply
    <2> DEFINE t == Head(chunk[s].txns)
               inorder == t.id = Len(log[s]) + 1
               more == inorder /\ Len(chunk[s].txns) > 1
    <2>3. /\ t \in Transaction
          /\ Tail(chunk[s].txns) \in Seq(Transaction)
          /\ Len(chunk[s].txns) \in Nat
          /\ Len(Tail(chunk[s].txns)) = Len(chunk[s].txns) - 1
      BY <2>2, TailFacts
    <2>4. t.ts \in Stamp
      BY <2>3 DEF Transaction
    <2>5. log' \in [Node -> Seq(Stamp)]
      <3>1. Append(log[s], t.ts) \in Seq(Stamp)
        BY <2>0, <2>4, <1>t, AppendFacts DEF TypeOK
      <3> QED
        BY <3>1, <1>13, <1>t DEF Apply, TypeOK
    <2>6. [txns |-> Tail(chunk[s].txns), then |-> chunk[s].then] \in Chunk
      BY <2>1, <2>3 DEF Chunk
    <2>7. NoChunk \in Chunk
      BY EmptySeq DEF NoChunk, Chunk
    <2>8. chunk' \in [Slaves -> Chunk]
      <3>1. chunk \in [Slaves -> Chunk]
        BY <1>t DEF TypeOK
      <3>2. chunk' = [chunk EXCEPT ![s] = IF more
                        THEN [txns |-> Tail(chunk[s].txns), then |-> chunk[s].then] ELSE NoChunk]
        BY <1>13 DEF Apply
      <3> QED
        BY <2>6, <2>7, <3>1, <3>2
    <2>9. pc' \in [Node -> Phase]
      BY <2>1, <1>13, <1>t DEF Apply, TypeOK, Phase, Chunk
    <2>10. TypeOK'
      BY <2>5, <2>8, <2>9, <1>13, <1>t DEF Apply, TypeOK, Phase
    <2>11. RunningIsPointed'
      <3>1. pc[s] = "apply" /\ chunk[s].then # "down"
        BY <1>13 DEF Apply, TInv, ApplyHasTxns
      <3> QED
        BY <2>0, <3>1, <1>13, <1>t, SlavesAreNodes DEF TInv, TypeOK, RunningIsPointed, Apply
    <2>12. ApplyHasTxns'
      <3>1. pc[s] = "apply" /\ chunk[s].then \notin {"down", "apply"}
        BY <2>1, <1>13 DEF Apply, TInv, ApplyHasTxns, Chunk
      <3>2. more => Tail(chunk[s].txns) # << >>
        BY <2>2, TailFacts
      <3>3. more => /\ chunk'[s].txns = Tail(chunk[s].txns)
                    /\ chunk'[s].then = chunk[s].then
        BY <2>1, <1>13, <1>t DEF Apply, TypeOK, Chunk
      <3>4. ~more => pc'[s] # "apply"
        BY <2>0, <3>1, <1>13, <1>t DEF Apply, TypeOK
      <3>5. \A q \in Slaves \ {s} : pc'[q] = pc[q] /\ chunk'[q] = chunk[q]
        BY <1>13, <1>t, SlavesAreNodes DEF Apply, TypeOK
      <3> QED
        BY <3>1, <3>2, <3>3, <3>4, <3>5 DEF TInv, ApplyHasTxns
    <2>13. FollowsMaster'
      BY <2>0, <2>1, <1>13, <1>t, SlavesAreNodes
      DEF TInv, TypeOK, FollowsMaster, InSync, Apply, Chunk
    <2> QED
      BY <2>10, <2>11, <2>12, <2>13 DEF TInv
  <1>14. ASSUME NEW s \in Slaves, Register(s) PROVE TInv'
    <2>1. drops' \in 0..MaxDrop
      BY <1>14, <1>t DEF TypeOK, Register
    <2>2. CASE Exits(s)
      BY <2>1, <2>2, <1>8
    <2>3. CASE master[s] = Master /\ GoTo(s, "comparemaster") /\ UNCHANGED lastslave
      <3>1. pc[s] # "down" /\ lastslave' \in Slaves \cup {NoNode}
        BY <1>14, <2>3, <1>t DEF TypeOK, Register
      <3> QED
        BY <2>1, <2>3, <3>1, GoToTInv DEF Phase
    <2>4. CASE /\ hops[s] # 2 /\ master[s] # Master
               /\ master' = [master EXCEPT ![s] = master[@]]
               /\ hops' = [hops EXCEPT ![s] = @ + 1]
               /\ UNCHANGED <<log, pc, ready, chunk, buffer, lastslave, pushing, goal,
                              stamp, crashes>>
      <3>1. pc[s] = "register" /\ ready[master[s]] /\ master[s] \in Slaves
        BY <1>14, <2>4 DEF Register, TInv, RunningIsPointed, Slaves
      <3>2. master[master[s]] \in Node
        BY <3>1, SlavesAreNodes DEF TInv, RunningIsPointed
      <3>3. master' \in [Slaves -> Node \cup {NoNode}] /\ hops' \in [Slaves -> 0..2]
        <4>1. master \in [Slaves -> Node \cup {NoNode}] /\ hops[s] \in 0..1
          BY <2>4, <1>t DEF TypeOK
        <4>2. master' = [master EXCEPT ![s] = master[master[s]]]
          BY <2>4
        <4> QED
          BY <3>2, <4>1, <4>2, <2>4, <1>t DEF TypeOK
      <3>4. TypeOK'
        BY <3>3, <2>1, <2>4, <1>t DEF TypeOK
      <3>5. RunningIsPointed'
        BY <3>2, <2>4, <1>t DEF TInv, TypeOK, RunningIsPointed
      <3>6. ApplyHasTxns'
        BY <2>4 DEF TInv, ApplyHasTxns
      <3>7. FollowsMaster'
        BY <3>1, <2>4, <1>t DEF TInv, TypeOK, FollowsMaster, InSync
      <3> QED
        BY <3>4, <3>5, <3>6, <3>7 DEF TInv
    <2> QED
      BY <1>14, <2>2, <2>3, <2>4 DEF Register
  <1>15. ASSUME NEW s \in Slaves, RegisterFails(s) PROVE TInv'
    <2>1. drops' \in 0..MaxDrop
      BY <1>15, <1>t, CallFailsType DEF RegisterFails
    <2> QED
      BY <1>15, <2>1, <1>8 DEF RegisterFails
  <1>16. ASSUME NEW s \in Slaves, BecomeReady(s) PROVE TInv'
    <2>1. TypeOK'
      BY <1>16, <1>t DEF BecomeReady, TypeOK
    <2>2. RunningIsPointed'
      BY <1>16, <1>t DEF BecomeReady, TInv, TypeOK, RunningIsPointed, InSync
    <2> QED
      BY <2>1, <2>2, <1>16 DEF BecomeReady, TInv, ApplyHasTxns, FollowsMaster, InSync
  <1>17. ASSUME NEW s \in Slaves, Drain(s) PROVE TInv'
    <2>1. TypeOK'
      <3>1. pc' \in [Node -> Phase] /\ buffer' \in [Slaves -> SUBSET Nat]
        BY <1>17, <1>t DEF Drain, TypeOK, Phase
      <3> QED
        BY <3>1, <1>17, <1>t DEF Drain, TypeOK, Phase
    <2>2. RunningIsPointed'
      BY <1>17, <1>t, SlavesAreNodes DEF Drain, TInv, TypeOK, RunningIsPointed
    <2>3. ApplyHasTxns' /\ FollowsMaster'
      BY <1>17, <1>t, SlavesAreNodes
      DEF Drain, TInv, TypeOK, ApplyHasTxns, FollowsMaster, InSync
    <2> QED
      BY <2>1, <2>2, <2>3 DEF TInv
  <1> QED
    BY <1>1, <1>2, <1>3, <1>4, <1>5, <1>6, <1>7, <1>9, <1>10, <1>11, <1>12, <1>13,
       <1>14, <1>15, <1>16, <1>17 DEF Next, SyncStep

\* The state of a Replication is always of its type.
THEOREM SpecTypeOK == Spec => []TypeOK
  BY InitTInv, NextTInv, PTL DEF Spec, TInv

\* A slave whose SyncFirst registered follows the master and no other slave
\* (the loop around R_REGISTER).
THEOREM SpecFollowsMaster == Spec => []FollowsMaster
  BY InitTInv, NextTInv, PTL DEF Spec, TInv

-----------------------------------------------------------------------------
(* What the steps do to the logs and to the replies.                       *)

\* No log changes, and no thread gets a transaction to commit.
Quiet ==
  UNCHANGED log /\ \A q \in Slaves : chunk'[q] = chunk[q] \/ chunk'[q] = NoChunk

\* The thread of s gets what R_TRANSLOG found.
Fetched(s) ==
  /\ UNCHANGED log /\ pc[s] # "down"
  /\ ready[master[s]] /\ Len(log[s]) <= Len(log[master[s]])
  /\ \A q \in Slaves : \/ chunk'[q] = chunk[q] \/ chunk'[q] = NoChunk
                       \/ q = s /\ chunk'[q].txns = Found(s, master[s])

LEMMA StepsOnLogs ==
  ASSUME TInv, [Next]_vars
  PROVE  \/ Quiet
         \/ \E s \in Slaves : Fetched(s) \/ Apply(s)
         \/ \E n \in Node : Commit(n) \/ Crash(n)
  <1>1. CASE UNCHANGED vars
    BY <1>1 DEF vars, Quiet
  <1>2. ASSUME NEW n \in Node, Start(n) PROVE Quiet
    BY <1>2 DEF Start, Quiet
  <1>3. ASSUME NEW id \in 1..MaxTxn, Push(id) \/ PushFails(id) PROVE Quiet
    BY <1>3 DEF Push, PushFails, Quiet
  <1>4. ASSUME NEW s \in Slaves, Exits(s) PROVE Quiet
    BY <1>4 DEF Exits, LoseMemory, Quiet
  <1>5. ASSUME NEW s \in Slaves, NEW where, GoTo(s, where) PROVE Quiet
    BY <1>5 DEF GoTo, Quiet
  <1>6. ASSUME NEW s \in Slaves,
               \/ CompareFirst(s) \/ Compare(s) \/ CompareFails(s) \/ FetchFails(s)
               \/ Register(s) \/ RegisterFails(s)
        PROVE  Quiet
    <2>1. CASE Register(s)
      <3>1. CASE UNCHANGED <<log, chunk>>
        BY <3>1 DEF Quiet
      <3> QED
        BY <2>1, <3>1, <1>4, <1>5 DEF Register
    <2> QED
      BY <1>6, <2>1, <1>4, <1>5 DEF CompareFirst, Compare, CompareFails, FetchFails, RegisterFails
  <1>7. ASSUME NEW s \in Slaves, BecomeReady(s) \/ Drain(s) PROVE Quiet
    BY <1>7 DEF BecomeReady, Drain, Quiet
  <1>8. ASSUME NEW s \in Slaves, FetchFirst(s) \/ Fetch(s) PROVE Fetched(s)
    <2>1. chunk \in [Slaves -> Chunk]
      BY DEF TInv, TypeOK
    <2>2. CASE FetchFirst(s)
      BY <2>1, <2>2 DEF FetchFirst, Fetched
    <2>3. CASE Fetch(s)
      BY <2>1, <2>3 DEF Fetch, Fetched
    <2> QED
      BY <1>8, <2>2, <2>3
  <1> QED
    BY <1>1, <1>2, <1>3, <1>6, <1>7, <1>8 DEF Next, SyncStep

\* The master's log grows at its end, by one entry.
LEMMA CommitOnLogs ==
  ASSUME TInv, NEW n \in Node, Commit(n)
  PROVE  /\ log[Master] \in Seq(Stamp) /\ stamp + 1 \in Stamp
         /\ log'[Master] = Append(log[Master], stamp + 1)
         /\ \A s \in Slaves : log'[s] = log[s]
         /\ UNCHANGED chunk
  <1>1. log \in [Node -> Seq(Stamp)] /\ stamp \in 0..MaxTxn
    BY DEF TInv, TypeOK
  <1> QED
    BY <1>1, ReplicationAssumption, SlavesAreNodes DEF Commit, Stamp

\* The master's log survives its crashes, a slave's loses its end at most.
LEMMA CrashOnLogs ==
  ASSUME TInv, Master \notin Lossy, NEW n \in Node, Crash(n)
  PROVE  /\ log'[Master] = log[Master]
         /\ \A s \in Slaves \ {n} : log'[s] = log[s]
         /\ n \in Slaves => \E k \in 0..Len(log[n]) : log'[n] = SubSeq(log[n], 1, k)
         /\ \A q \in Slaves : chunk'[q] = chunk[q] \/ chunk'[q] = NoChunk
  <1>1. log \in [Node -> Seq(Stamp)] /\ Master \in Node
    BY ReplicationAssumption DEF TInv, TypeOK
  <1>2. PICK k \in 0..Len(log[n]) : /\ n \in Lossy \/ k = Len(log[n])
                                    /\ log' = [log EXCEPT ![n] = SubSeq(@, 1, k)]
    BY DEF Crash
  <1>3. CASE n = Master
    <2>1. SubSeq(log[n], 1, Len(log[n])) = log[n]
      BY <1>1, SubSeqFull
    <2> QED
      BY <1>1, <1>2, <1>3, <2>1, SlavesAreNodes DEF Crash, LoseMemory
  <1>4. CASE n # Master
    BY <1>1, <1>2, <1>4, SlavesAreNodes DEF Crash, LoseMemory
  <1> QED
    BY <1>3, <1>4

\* A thread commits the next entry of the master's log, or nothing.
LEMMA ApplyOnLogs ==
  ASSUME TInv, ChunksAreFromMaster, NEW s \in Slaves, Apply(s)
  PROVE  /\ log'[Master] = log[Master]
         /\ \A q \in Slaves \ {s} : log'[q] = log[q]
         /\ \/ log'[s] = log[s]
            \/ /\ Len(log[s]) + 1 \in 1..Len(log[Master])
               /\ log'[s] = Append(log[s], log[Master][Len(log[s]) + 1])
         /\ \A q \in Slaves \ {s} : chunk'[q] = chunk[q]
         /\ \/ chunk'[s] = NoChunk
            \/ chunk[s].txns # << >> /\ chunk'[s].txns = Tail(chunk[s].txns)
  <1>1. log \in [Node -> Seq(Stamp)] /\ Master \in Node /\ s \in Node
    BY ReplicationAssumption, SlavesAreNodes DEF TInv, TypeOK
  <1>2. chunk \in [Slaves -> Chunk] /\ chunk[s].txns # << >>
    BY DEF TInv, TypeOK, ApplyHasTxns, Apply
  <1>3. chunk[s].txns \in Seq(Transaction)
    BY <1>2 DEF Chunk
  <1> DEFINE t == Head(chunk[s].txns)
  <1>4. t = chunk[s].txns[1] /\ 1 \in 1..Len(chunk[s].txns)
    BY <1>2, <1>3, TailFacts
  <1>5. t.id \in 1..Len(log[Master]) /\ t.ts = log[Master][t.id]
    BY <1>4 DEF ChunksAreFromMaster
  <1> HIDE DEF t
  <1>6. \/ UNCHANGED log
        \/ t.id = Len(log[s]) + 1 /\ log' = [log EXCEPT ![s] = Append(log[s], t.ts)]
    BY DEF Apply, t
  <1>7. \/ chunk' = [chunk EXCEPT ![s] = NoChunk]
        \/ chunk' = [chunk EXCEPT ![s] = [txns |-> Tail(chunk[s].txns), then |-> chunk[s].then]]
    BY DEF Apply
  <1>8. /\ log'[Master] = log[Master]
        /\ \A q \in Slaves \ {s} : log'[q] = log[q]
    BY <1>1, <1>6, SlavesAreNodes
  <1>9. \/ log'[s] = log[s]
        \/ /\ Len(log[s]) + 1 \in 1..Len(log[Master])
           /\ log'[s] = Append(log[s], log[Master][Len(log[s]) + 1])
    BY <1>1, <1>5, <1>6
  <1>10. /\ \A q \in Slaves \ {s} : chunk'[q] = chunk[q]
         /\ \/ chunk'[s] = NoChunk
            \/ chunk[s].txns # << >> /\ chunk'[s].txns = Tail(chunk[s].txns)
    <2>1. CASE chunk' = [chunk EXCEPT ![s] = NoChunk]
      BY <1>2, <2>1
    <2>2. CASE chunk' = [chunk EXCEPT ![s] =
                           [txns |-> Tail(chunk[s].txns), then |-> chunk[s].then]]
      <3>1. chunk'[s] = [txns |-> Tail(chunk[s].txns), then |-> chunk[s].then]
        BY <1>2, <2>2
      <3>2. chunk'[s].txns = Tail(chunk[s].txns)
        BY <3>1
      <3>3. \A q \in Slaves \ {s} : chunk'[q] = chunk[q]
        BY <1>2, <2>2
      <3> QED
        BY <1>2, <3>2, <3>3
    <2> QED
      BY <1>7, <2>1, <2>2
  <1> QED
    BY <1>8, <1>9, <1>10

-----------------------------------------------------------------------------
LEMMA InitLogInv == Init => LogInv
  <1> SUFFICES ASSUME Init PROVE LogInv
    OBVIOUS
  <1>1. Len(<< >>) = 0
    BY EmptySeq
  <1>2. SlaveLogIsPrefix
    BY <1>1, ReplicationAssumption, SlavesAreNodes DEF Init, SlaveLogIsPrefix, RL!Begins
  <1>3. ChunksAreFromMaster
    BY <1>1 DEF Init, ChunksAreFromMaster, NoChunk
  <1> QED
    BY <1>2, <1>3 DEF LogInv

\* The prefix, and the origin of the replies, survive every step.
LEMMA NextLogInv == TInv /\ LogInv /\ [Next]_vars => LogInv'
  <1> SUFFICES ASSUME TInv, LogInv, [Next]_vars, Master \notin Lossy
               PROVE  /\ \A s \in Slaves : RL!Begins(log'[s], log'[Master])
                      /\ ChunksAreFromMaster'
    BY DEF LogInv, SlaveLogIsPrefix
  <1>1. \A s \in Slaves : RL!Begins(log[s], log[Master])
    BY DEF LogInv, SlaveLogIsPrefix
  <1>2. ChunksAreFromMaster
    BY DEF LogInv
  <1>3. \A n \in Node : log[n] \in Seq(Stamp) /\ Len(log[n]) \in Nat
    BY LenProperties DEF TInv, TypeOK
  <1>4. Len(NoChunk.txns) = 0
    BY EmptySeq DEF NoChunk
  <1>m. Master \in Node
    BY ReplicationAssumption
  <1>5. CASE Quiet
    BY <1>1, <1>2, <1>4, <1>5 DEF Quiet, ChunksAreFromMaster
  <1>6. ASSUME NEW s \in Slaves, Fetched(s)
        PROVE  /\ \A q \in Slaves : RL!Begins(log'[q], log'[Master])
               /\ ChunksAreFromMaster'
    <2> DEFINE t == master[s]
    <2>1. t \in Node
      BY <1>6 DEF Fetched, TInv, TypeOK, RunningIsPointed
    <2>2. \A j \in 1..Len(Found(s, t)) :
            /\ Found(s, t)[j].id \in 1..Len(log[t])
            /\ Found(s, t)[j].ts = log[t][Found(s, t)[j].id]
      BY <1>6, <2>1, FoundFacts DEF Fetched, TInv
    <2>3. t = Master \/ t \in Slaves
      BY <2>1 DEF Slaves
    <2>4. /\ Len(log[t]) <= Len(log[Master])
          /\ \A i \in 1..Len(log[t]) : log[t][i] = log[Master][i]
      BY <1>1, <1>3, <1>m, <2>3 DEF RL!Begins
    <2>5. \A j \in 1..Len(Found(s, t)) :
            /\ Found(s, t)[j].id \in 1..Len(log[Master])
            /\ Found(s, t)[j].ts = log[Master][Found(s, t)[j].id]
      BY <1>3, <1>m, <2>1, <2>2, <2>4
    <2>6. ChunksAreFromMaster'
      BY <1>2, <1>4, <1>6, <2>5 DEF Fetched, ChunksAreFromMaster
    <2> QED
      BY <1>1, <1>6, <2>6 DEF Fetched
  <1>7. ASSUME NEW s \in Slaves, Apply(s)
        PROVE  /\ \A q \in Slaves : RL!Begins(log'[q], log'[Master])
               /\ ChunksAreFromMaster'
    <2>1. RL!Begins(log'[s], log'[Master])
      <3>1. CASE log'[s] = log[s]
        BY <1>1, <1>2, <1>7, <3>1, ApplyOnLogs
      <3>2. CASE /\ Len(log[s]) + 1 \in 1..Len(log[Master])
                 /\ log'[s] = Append(log[s], log[Master][Len(log[s]) + 1])
        <4>1. log[Master][Len(log[s]) + 1] \in Stamp /\ log[s] \in Seq(Stamp)
          BY <1>3, <1>m, <3>2, SlavesAreNodes, ElementOfSeq
        <4>2. /\ Len(log'[s]) = Len(log[s]) + 1
              /\ \A i \in 1..Len(log[s]) : log'[s][i] = log[s][i]
              /\ log'[s][Len(log[s]) + 1] = log[Master][Len(log[s]) + 1]
          BY <3>2, <4>1, AppendFacts
        <4>3. log'[Master] = log[Master]
          BY <1>2, <1>7, ApplyOnLogs
        <4>4. /\ Len(log[s]) \in Nat
              /\ \A i \in 1..Len(log[s]) : log[s][i] = log[Master][i]
          BY <1>1, <1>3, SlavesAreNodes DEF RL!Begins
        <4>5. \A i \in 1..(Len(log[s]) + 1) : log'[s][i] = log[Master][i]
          BY <4>2, <4>4
        <4> QED
          BY <3>2, <4>2, <4>3, <4>5, <1>3, <1>m DEF RL!Begins
      <3> QED
        BY <1>2, <1>7, <3>1, <3>2, ApplyOnLogs
    <2>2. ASSUME NEW q \in Slaves \ {s} PROVE RL!Begins(log'[q], log'[Master])
      BY <1>1, <1>2, <1>7, <2>2, ApplyOnLogs
    <2>3. chunk[s].txns \in Seq(Transaction)
      BY DEF TInv, TypeOK, Chunk
    <2>4. ASSUME chunk[s].txns # << >>, chunk'[s].txns = Tail(chunk[s].txns),
                 NEW j \in 1..Len(chunk'[s].txns)
          PROVE  /\ chunk'[s].txns[j].id \in 1..Len(log[Master])
                 /\ chunk'[s].txns[j].ts = log[Master][chunk'[s].txns[j].id]
      <3>1. j + 1 \in 1..Len(chunk[s].txns) /\ chunk'[s].txns[j] = chunk[s].txns[j + 1]
        BY <2>3, <2>4, TailFacts
      <3> QED
        BY <1>2, <3>1 DEF ChunksAreFromMaster
    <2>5. ChunksAreFromMaster'
      BY <1>2, <1>4, <1>7, <2>4, ApplyOnLogs DEF ChunksAreFromMaster
    <2> QED
      BY <2>1, <2>2, <2>5
  <1>8. ASSUME NEW n \in Node, Commit(n)
        PROVE  /\ \A q \in Slaves : RL!Begins(log'[q], log'[Master])
               /\ ChunksAreFromMaster'
    <2>1. /\ Len(log'[Master]) = Len(log[Master]) + 1
          /\ \A i \in 1..Len(log[Master]) : log'[Master][i] = log[Master][i]
      BY <1>8, CommitOnLogs, AppendFacts
    <2>2. ASSUME NEW q \in Slaves PROVE RL!Begins(log'[q], log'[Master])
      <3>1. log'[q] = log[q] /\ Len(log[q]) \in Nat /\ Len(log[Master]) \in Nat
        BY <1>3, <1>8, <1>m, CommitOnLogs, SlavesAreNodes
      <3> QED
        BY <1>1, <2>1, <3>1 DEF RL!Begins
    <2>3. ASSUME NEW q \in Slaves, NEW j \in 1..Len(chunk[q].txns)
          PROVE  /\ chunk[q].txns[j].id \in 1..Len(log'[Master])
                 /\ chunk[q].txns[j].ts = log'[Master][chunk[q].txns[j].id]
      <3>1. /\ chunk[q].txns[j].id \in 1..Len(log[Master])
            /\ chunk[q].txns[j].ts = log[Master][chunk[q].txns[j].id]
        BY <1>2 DEF ChunksAreFromMaster
      <3>2. Len(log[Master]) \in Nat
        BY <1>3, <1>m
      <3> QED
        BY <2>1, <3>1, <3>2
    <2>4. ChunksAreFromMaster'
      BY <1>8, <2>3, CommitOnLogs DEF ChunksAreFromMaster
    <2> QED
      BY <2>2, <2>4
  <1>9. ASSUME NEW n \in Node, Crash(n)
        PROVE  /\ \A q \in Slaves : RL!Begins(log'[q], log'[Master])
               /\ ChunksAreFromMaster'
    <2>1. log'[Master] = log[Master]
      BY <1>9, CrashOnLogs
    <2>2. ASSUME NEW q \in Slaves PROVE RL!Begins(log'[q], log'[Master])
      <3>1. CASE q # n
        BY <1>1, <1>9, <2>1, <3>1, CrashOnLogs
      <3>2. CASE q = n
        <4>1. PICK k \in 0..Len(log[n]) : log'[n] = SubSeq(log[n], 1, k)
          BY <1>9, <3>2, CrashOnLogs
        <4>2. /\ Len(log'[n]) = k
              /\ \A i \in 1..k : log'[n][i] = log[n][i]
          BY <1>3, <4>1, SubSeqFacts
        <4> QED
          BY <1>1, <1>3, <1>m, <2>1, <3>2, <4>2 DEF RL!Begins
      <3> QED
        BY <3>1, <3>2
    <2>3. ChunksAreFromMaster'
      BY <1>2, <1>4, <1>9, <2>1, CrashOnLogs DEF ChunksAreFromMaster
    <2> QED
      BY <2>2, <2>3
  <1> QED
    BY <1>5, <1>6, <1>7, <1>8, <1>9, StepsOnLogs

\* As long as the master's machine keeps its log, every slave has a prefix of
\* it (SyncFirst and SyncFromMaster commit R_TRANSLOG replies in order).
THEOREM SpecSlaveLogIsPrefix == Spec => []SlaveLogIsPrefix
  <1>1. TInv /\ LogInv /\ [Next]_vars => (TInv /\ LogInv)'
    BY NextTInv, NextLogInv
  <1>2. Init => TInv /\ LogInv
    BY InitTInv, InitLogInv
  <1>3. LogInv => SlaveLogIsPrefix
    BY DEF LogInv
  <1> QED
    BY <1>1, <1>2, <1>3, PTL DEF Spec

-----------------------------------------------------------------------------
(* Replication implements ReplicatedLog.                                   *)

LEMMA InitRefines == Init => RL!Init
  BY ReplicationAssumption, SlavesAreNodes DEF Init, RL!Init

\* Every step is a step of ReplicatedLog, or leaves the logs as they are.
LEMMA NextRefines ==
  Master \notin Lossy /\ TInv /\ LogInv /\ [Next]_vars => [RL!Next]_(RL!rlvars)
  <1> SUFFICES ASSUME Master \notin Lossy, TInv, LogInv, [Next]_vars
               PROVE  RL!Next \/ UNCHANGED RL!rlvars
    OBVIOUS
  <1>1. ChunksAreFromMaster
    BY DEF LogInv
  <1>2. CASE Quiet \/ \E s \in Slaves : Fetched(s)
    BY <1>2 DEF Quiet, Fetched, RL!rlvars
  <1>3. ASSUME NEW n \in Node, Commit(n) PROVE RL!Next
    <2>1. RL!Write(stamp + 1) /\ stamp + 1 \in Stamp
      BY <1>3, CommitOnLogs DEF RL!Write
    <2> QED
      BY <2>1 DEF RL!Next
  <1>4. ASSUME NEW s \in Slaves, Apply(s) PROVE RL!Next \/ UNCHANGED RL!rlvars
    <2>1. CASE log'[s] = log[s]
      BY <1>1, <1>4, <2>1, ApplyOnLogs DEF RL!rlvars
    <2>2. CASE /\ Len(log[s]) + 1 \in 1..Len(log[Master])
               /\ log'[s] = Append(log[s], log[Master][Len(log[s]) + 1])
      <3>1. log[s] \in Seq(Stamp) /\ log[Master] \in Seq(Stamp)
        BY SlavesAreNodes, ReplicationAssumption DEF TInv, TypeOK
      <3>2. Len(log[s]) < Len(log[Master])
        BY <2>2, <3>1, LenProperties
      <3>3. RL!Copy(s)
        BY <1>1, <1>4, <2>2, <3>2, ApplyOnLogs DEF RL!Copy
      <3> QED
        BY <3>3 DEF RL!Next
    <2> QED
      BY <1>1, <1>4, <2>1, <2>2, ApplyOnLogs
  <1>5. ASSUME NEW n \in Node, Crash(n) PROVE RL!Next \/ UNCHANGED RL!rlvars
    <2>1. CASE n \in Slaves
      <3>1. PICK k \in 0..Len(log[n]) : log'[n] = SubSeq(log[n], 1, k)
        BY <1>5, <2>1, CrashOnLogs
      <3>2. RL!LoseEnd(n)
        BY <1>5, <2>1, <3>1, CrashOnLogs DEF RL!LoseEnd
      <3> QED
        BY <2>1, <3>2 DEF RL!Next
    <2>2. CASE n \notin Slaves
      BY <1>5, <2>2, CrashOnLogs DEF RL!rlvars
    <2> QED
      BY <2>1, <2>2
  <1> QED
    BY <1>2, <1>3, <1>4, <1>5, StepsOnLogs

\* Seen from outside, slaves only copy the next entry of the master's log, as
\* long as the master's machine keeps it.
THEOREM SpecReplicatesTheLog == Master \notin Lossy => (Spec => ReplicatesTheLog)
  <1> SUFFICES ASSUME Master \notin Lossy PROVE Spec => ReplicatesTheLog
    OBVIOUS
  <1>1. TInv /\ LogInv /\ [Next]_vars => (TInv /\ LogInv)' /\ [RL!Next]_(RL!rlvars)
    BY NextTInv, NextLogInv, NextRefines
  <1>2. Init => TInv /\ LogInv /\ RL!Init
    BY InitTInv, InitLogInv, InitRefines
  <1> QED
    BY <1>1, <1>2, PTL DEF Spec, ReplicatesTheLog, RL!Spec

-----------------------------------------------------------------------------
\* How far a slave is in catching up.  While it reads from the node it was pointed at, that node
\* has its goal; the transactions of a reply are the next of its log, and those of the last reply
\* complete it.
CatchesUp(s) ==
  /\ goal[s] <= Len(log[Pointed[s]])
  /\ pc[s] \in {"comparefirst", "first"} => master[s] = Pointed[s]
  /\ pc[s] = "apply" /\ chunk[s].then = "first" => master[s] = Pointed[s]
  /\ pc[s] = "apply" =>
       \A j \in 1..Len(chunk[s].txns) : chunk[s].txns[j].id = Len(log[s]) + j
  /\ pc[s] = "apply" /\ chunk[s].then = "register" =>
       goal[s] <= Len(log[s]) + Len(chunk[s].txns)
  /\ pc[s] = "register" \/ InSync(s) => goal[s] <= Len(log[s])
  /\ ready[s] => InSync(s)

\* What the conjuncts of TypeOK say of one slave.
LEMMA SlaveFacts ==
  ASSUME TInv, NEW s \in Slaves
  PROVE  /\ s \in Node /\ s # Master /\ Pointed[s] \in Node
         /\ \A n \in Node : log[n] \in Seq(Stamp) /\ Len(log[n]) \in Nat
         /\ goal[s] \in Nat /\ chunk[s] \in Chunk /\ pc[s] \in Phase
         /\ pc \in [Node -> Phase] /\ ready \in [Node -> BOOLEAN]
         /\ chunk \in [Slaves -> Chunk] /\ log \in [Node -> Seq(Stamp)]
         /\ DOMAIN master = Slaves
  BY SlavesAreNodes, ReplicationAssumption, LenProperties DEF TInv, TypeOK, Phase

\* The steps of others may let a log grow, and take from the goal what its node has lost.
LEMMA StillCatchesUp ==
  ASSUME TInv, NEW s \in Slaves, CatchesUp(s), pc'[s] = pc[s], ready'[s] = ready[s],
         master'[s] = master[s], chunk'[s] = chunk[s], log'[s] = log[s],
         goal'[s] \in Nat, goal'[s] <= goal[s], goal'[s] <= Len(log'[Pointed[s]])
  PROVE  CatchesUp(s)'
  <1>1. InSync(s)' <=> InSync(s)
    BY DEF InSync
  <1>2. goal[s] \in Nat /\ Len(log[s]) \in Nat
    BY SlaveFacts
  <1>3. pc[s] = "apply" /\ chunk[s].then = "register" =>
          goal'[s] <= Len(log[s]) + Len(chunk[s].txns)
    <2>1. Len(chunk[s].txns) \in Nat
      BY SlaveFacts, LenProperties DEF Chunk
    <2> QED
      <3>1. \A a, b, c, d \in Nat : a <= b /\ b <= c + d => a <= c + d
        OBVIOUS
      <3>2. pc[s] = "apply" /\ chunk[s].then = "register" =>
              goal[s] <= Len(log[s]) + Len(chunk[s].txns)
        BY DEF CatchesUp
      <3> QED
        BY <1>2, <2>1, <3>1, <3>2
  <1>4. pc[s] = "register" \/ InSync(s) => goal'[s] <= Len(log[s])
    BY <1>2 DEF CatchesUp
  <1> QED
    BY <1>1, <1>3, <1>4 DEF CatchesUp

\* A slave that is down has nothing to keep but its goal.
LEMMA DownCatchesUp ==
  ASSUME NEW s \in Slaves, pc'[s] = "down", ready'[s] = FALSE,
         goal'[s] <= Len(log'[Pointed[s]])
  PROVE  CatchesUp(s)'
  BY DEF CatchesUp, InSync

\* The length of a log after an entry was put at the end of one.
LEMMA GrownLogs ==
  ASSUME TInv, NEW n \in Node, NEW e \in Stamp, log' = [log EXCEPT ![n] = Append(@, e)],
         NEW m \in Node
  PROVE  Len(log'[m]) = IF m = n THEN Len(log[m]) + 1 ELSE Len(log[m])
  BY AppendFacts DEF TInv, TypeOK

\* A reply has the entries that follow the log of s, all of them if it ends at the counter.
LEMMA FoundIsNext ==
  ASSUME TInv, NEW s \in Slaves, NEW t \in Node, Len(log[s]) <= Len(log[t])
  PROVE  /\ Found(s, t) \in Seq(Transaction) /\ Len(Found(s, t)) \in Nat
         /\ \A j \in 1..Len(Found(s, t)) : Found(s, t)[j].id = Len(log[s]) + j
         /\ Found(s, t) = << >> => Len(Found(s, t)) = 0
  <1>1. Limit \in Nat
    BY ReplicationAssumption
  <1>2. Found(s, t) \in Seq(Transaction)
        /\ \A j \in 1..Len(Found(s, t)) : Found(s, t)[j].id = Len(log[s]) + j
    <2>1. log[s] \in Seq(Stamp) /\ log[t] \in Seq(Stamp) /\ Len(log[s]) \in Nat
      BY SlaveFacts
    <2> QED
      BY <1>1, <2>1, EntriesAfter DEF Found
  <1> QED
    BY <1>2, LenProperties, EmptySeq

\* Every step of Next leaves a slave as far in catching up as its place says.
LEMMA NextCatchesUp ==
  ASSUME TInv, [Next]_vars, NEW s \in Slaves, CatchesUp(s)
  PROVE  CatchesUp(s)'
  <1>0. /\ s \in Node /\ s # Master /\ Pointed[s] \in Node
        /\ \A n \in Node : log[n] \in Seq(Stamp) /\ Len(log[n]) \in Nat
        /\ goal[s] \in Nat /\ chunk[s] \in Chunk /\ pc[s] \in Phase
        /\ pc \in [Node -> Phase] /\ ready \in [Node -> BOOLEAN]
        /\ chunk \in [Slaves -> Chunk] /\ log \in [Node -> Seq(Stamp)]
        /\ DOMAIN master = Slaves /\ goal[s] <= Len(log[Pointed[s]])
    BY SlaveFacts DEF CatchesUp
  <1>1. CASE UNCHANGED vars
    BY <1>0, <1>1, StillCatchesUp DEF vars
  <1>2. ASSUME NEW n \in Node, Commit(n) PROVE CatchesUp(s)'
    <2>1. stamp + 1 \in Stamp
      BY <1>2, ReplicationAssumption DEF TInv, TypeOK, Commit, Stamp
    <2>2. Len(log'[Pointed[s]]) >= Len(log[Pointed[s]])
      BY <1>0, <1>2, <2>1, GrownLogs DEF Commit
    <2> QED
      BY <1>0, <1>2, <2>2, StillCatchesUp DEF Commit
  <1>3. ASSUME NEW n \in Node, Start(n) PROVE CatchesUp(s)'
    <2>1. CASE n = s
      BY <1>0, <1>3, <2>1 DEF Start, CatchesUp, InSync
    <2>2. CASE n # s
      <3>1. /\ pc'[s] = pc[s] /\ ready'[s] = ready[s] /\ master'[s] = master[s]
            /\ goal'[s] = goal[s] /\ UNCHANGED <<log, chunk>>
        BY <1>0, <1>3, <2>2 DEF Start
      <3>2. goal'[s] \in Nat /\ goal'[s] <= goal[s] /\ goal'[s] <= Len(log'[Pointed[s]])
        BY <1>0, <3>1
      <3> QED
        BY <3>1, <3>2, StillCatchesUp
    <2> QED
      BY <2>1, <2>2
  <1>4. ASSUME NEW n \in Node, Crash(n) PROVE CatchesUp(s)'
    <2>1. PICK k \in 0..Len(log[n]) :
            /\ log' = [log EXCEPT ![n] = SubSeq(@, 1, k)]
            /\ goal' = [q \in Slaves |-> IF Pointed[q] = n /\ k < goal[q] THEN k ELSE goal[q]]
      BY <1>4 DEF Crash
    <2>2. k \in Nat /\ Len(SubSeq(log[n], 1, k)) = k
      BY <1>0, SubSeqFacts
    <2>3. goal'[s] \in Nat /\ goal'[s] <= goal[s] /\ goal'[s] <= Len(log'[Pointed[s]])
      BY <1>0, <2>1, <2>2
    <2>4. CASE n = s
      BY <1>0, <1>4, <2>3, <2>4, DownCatchesUp DEF Crash, LoseMemory
    <2>5. CASE n # s
      BY <1>0, <1>4, <2>1, <2>3, <2>5, StillCatchesUp DEF Crash, LoseMemory
    <2> QED
      BY <2>4, <2>5
  <1>5. ASSUME NEW id \in 1..MaxTxn, Push(id) \/ PushFails(id) PROVE CatchesUp(s)'
    <2>1. UNCHANGED <<log, pc, ready, master, chunk, goal>>
      BY <1>5 DEF Push, PushFails
    <2> QED
      BY <1>0, <2>1, StillCatchesUp
  \* A thread commits a transaction: the log it grows may be that of the node s is pointed at.
  <1>6. ASSUME NEW q \in Slaves, Apply(q) PROVE CatchesUp(s)'
    <2> DEFINE t == Head(chunk[q].txns)
               more == t.id = Len(log[q]) + 1 /\ Len(chunk[q].txns) > 1
    <2>1. /\ chunk[q].txns \in Seq(Transaction) /\ chunk[q].txns # << >> /\ q \in Node
          /\ chunk[q].then \in {"first", "register", "follow"} /\ pc[q] = "apply"
      BY <1>6, SlaveFacts DEF Apply, TInv, ApplyHasTxns, Chunk
    <2>2. /\ t = chunk[q].txns[1] /\ t.ts \in Stamp /\ Len(chunk[q].txns) \in Nat \ {0}
          /\ Tail(chunk[q].txns) \in Seq(Transaction)
          /\ Len(Tail(chunk[q].txns)) = Len(chunk[q].txns) - 1
          /\ \A i \in 1..Len(Tail(chunk[q].txns)) : Tail(chunk[q].txns)[i] = chunk[q].txns[i + 1]
      <3>1. t \in Transaction => t.ts \in Stamp
        BY DEF Transaction
      <3> QED
        BY <2>1, <3>1, TailFacts
    <2>3. /\ log' = log \/ log' = [log EXCEPT ![q] = Append(@, t.ts)]
          /\ UNCHANGED <<ready, master, goal>>
          /\ pc' = [pc EXCEPT ![q] = IF more THEN @ ELSE chunk[q].then]
          /\ chunk' = [chunk EXCEPT ![q] =
                         IF more THEN [txns |-> Tail(@.txns), then |-> @.then] ELSE NoChunk]
      BY <1>6 DEF Apply
    <2>4. \A n \in Node : Len(log'[n]) \in Nat /\ Len(log'[n]) >= Len(log[n])
      BY <1>0, <2>1, <2>2, <2>3, GrownLogs
    <2>5. CASE q # s
      <3>1. log'[s] = log[s] /\ pc'[s] = pc[s] /\ chunk'[s] = chunk[s]
        BY <1>0, <2>1, <2>3, <2>5
      <3>2. goal'[s] \in Nat /\ goal'[s] <= goal[s] /\ goal'[s] <= Len(log'[Pointed[s]])
        <4>1. \A a, b, c \in Nat : a <= b /\ c >= b => a <= a /\ a <= c
          OBVIOUS
        <4>2. goal'[s] = goal[s]
          BY <2>3
        <4> QED
          BY <1>0, <2>4, <4>1, <4>2
      <3>3. ready'[s] = ready[s] /\ master'[s] = master[s]
        BY <2>3
      <3> QED
        BY <3>1, <3>2, <3>3, StillCatchesUp
    <2>6. CASE q = s
      <3>1. \A j \in 1..Len(chunk[s].txns) : chunk[s].txns[j].id = Len(log[s]) + j
        BY <2>1, <2>6 DEF CatchesUp
      <3>2. t.id = Len(log[s]) + 1
        BY <2>2, <2>6, <3>1
      <3>3. Len(log'[s]) = Len(log[s]) + 1
        BY <1>0, <1>6, <2>2, <2>6, <3>2, GrownLogs DEF Apply
      <3>4. goal'[s] = goal[s] /\ goal'[s] <= Len(log'[Pointed[s]]) /\ (ready[s] => InSync(s))
        BY <1>0, <2>3, <2>4 DEF CatchesUp
      <3>5. CASE more
        <4>1. /\ pc'[s] = "apply" /\ chunk'[s].txns = Tail(chunk[s].txns)
              /\ chunk'[s].then = chunk[s].then
          BY <1>0, <2>1, <2>3, <2>6, <3>5
        <4> HIDE DEF more, t
        <4>2. /\ Len(chunk'[s].txns) = Len(chunk[s].txns) - 1 /\ Len(chunk[s].txns) \in Nat
              /\ \A j \in 1..Len(chunk'[s].txns) : chunk'[s].txns[j] = chunk[s].txns[j + 1]
          BY <2>2, <2>6, <4>1
        <4>3. \A j \in 1..Len(chunk'[s].txns) : chunk'[s].txns[j].id = Len(log'[s]) + j
          <5> SUFFICES ASSUME NEW j \in 1..Len(chunk'[s].txns)
                       PROVE  chunk'[s].txns[j].id = Len(log'[s]) + j
            OBVIOUS
          <5>1. j \in Nat /\ j + 1 \in 1..Len(chunk[s].txns) /\ Len(log[s]) \in Nat
            BY <1>0, <4>2
          <5>2. chunk'[s].txns[j].id = Len(log[s]) + (j + 1)
            BY <3>1, <4>2, <5>1
          <5>3. \A a, i \in Nat : a + (i + 1) = (a + 1) + i
            OBVIOUS
          <5> QED
            BY <3>3, <5>1, <5>2, <5>3
        <4>4. Len(log'[s]) + Len(chunk'[s].txns) = Len(log[s]) + Len(chunk[s].txns)
          <5>1. \A a, b \in Nat : (a + 1) + (b - 1) = a + b
            OBVIOUS
          <5>2. Len(log[s]) \in Nat
            BY <1>0
          <5> QED
            BY <3>3, <4>2, <5>1, <5>2
        <4>5. chunk[s].then = "register" => goal'[s] <= Len(log'[s]) + Len(chunk'[s].txns)
          BY <2>1, <2>6, <3>4, <4>4 DEF CatchesUp
        <4>6. chunk[s].then = "follow" => goal'[s] <= Len(log'[s])
          BY <1>0, <2>1, <2>6, <3>3, <3>4 DEF CatchesUp, InSync
        <4>7. ready'[s] => InSync(s)'
          BY <2>1, <2>3, <2>6, <3>4, <4>1 DEF InSync
        <4>8. chunk[s].then = "first" => master'[s] = Pointed[s]
          BY <2>1, <2>3, <2>6 DEF CatchesUp
        <4> QED
          BY <3>4, <4>1, <4>3, <4>5, <4>6, <4>7, <4>8 DEF CatchesUp, InSync
      <3>6. CASE ~more
        <4>1. pc'[s] = chunk[s].then
          BY <1>0, <2>1, <2>3, <2>6, <3>6
        <4>2. Len(chunk[s].txns) = 1
          <5>1. ~(Len(chunk[s].txns) > 1)
            BY <2>6, <3>2, <3>6
          <5> QED
            <6>1. \A a \in Nat \ {0} : ~(a > 1) => a = 1
              OBVIOUS
            <6>2. Len(chunk[s].txns) \in Nat \ {0}
              BY <2>2, <2>6
            <6> QED
              BY <5>1, <6>1, <6>2
        <4>3. chunk[s].then \in {"register", "follow"} => goal[s] <= Len(log'[s])
          BY <1>0, <2>1, <2>6, <3>3, <4>2 DEF CatchesUp, InSync
        <4>4. ready[s] => chunk[s].then = "follow"
          BY <2>1, <2>6 DEF CatchesUp, InSync
        <4> HIDE DEF more, t
        <4> QED
          BY <2>1, <2>3, <2>6, <3>4, <4>1, <4>3, <4>4 DEF CatchesUp, InSync
      <3> QED
        BY <3>5, <3>6
    <2> QED
      BY <2>5, <2>6
  <1>7. ASSUME NEW q \in Slaves, q # s, SyncStep(q) \/ BecomeReady(q) PROVE CatchesUp(s)'
    <2>1. CASE Apply(q)
      BY <1>6, <2>1
    <2>2. CASE ~Apply(q)
      <3>1. UNCHANGED <<log, goal>>
        BY <1>7, <2>2 DEF SyncStep, BecomeReady, CompareFirst, Compare, CompareFails, FetchFirst, Fetch, FetchFails,
          Register, RegisterFails, Drain, Exits, GoTo
      <3>2. pc'[s] = pc[s] /\ ready'[s] = ready[s] /\ master'[s] = master[s] /\ chunk'[s] = chunk[s]
        BY <1>0, <1>7, <2>2 DEF SyncStep, BecomeReady, CompareFirst, Compare, CompareFails, FetchFirst, Fetch,
          FetchFails, Register, RegisterFails, Drain, Exits, GoTo, LoseMemory
      <3> QED
        BY <1>0, <3>1, <3>2, StillCatchesUp
    <2> QED
      BY <2>1, <2>2
  <1>8. ASSUME Exits(s) PROVE CatchesUp(s)'
    BY <1>0, <1>8, DownCatchesUp DEF Exits, LoseMemory
  <1>9. ASSUME \/ CompareFirst(s) \/ Compare(s) \/ CompareFails(s) \/ FetchFails(s)
               \/ Register(s) \/ RegisterFails(s) \/ Drain(s) \/ BecomeReady(s)
        PROVE  CatchesUp(s)'
    <2>1. CASE Exits(s)
      BY <1>8, <2>1
    <2>2. CASE ~Exits(s)
      <3>1. UNCHANGED <<log, goal, chunk>>
        BY <1>9, <2>2 DEF CompareFirst, Compare, CompareFails, FetchFails, Register, RegisterFails, Drain,
          BecomeReady, GoTo
      <3>2. CASE CompareFirst(s) \/ Compare(s)
        BY <1>0, <3>1, <3>2 DEF CompareFirst, Compare, GoTo, CatchesUp, InSync
      <3>3. CASE CompareFails(s) \/ FetchFails(s)
        BY <1>0, <2>2, <3>1, <3>3 DEF CompareFails, FetchFails, GoTo, CatchesUp, InSync
      <3>4. CASE Register(s) \/ RegisterFails(s)
        BY <1>0, <2>2, <3>1, <3>4 DEF Register, RegisterFails, GoTo, CatchesUp, InSync
      <3>5. CASE Drain(s) \/ BecomeReady(s)
        BY <1>0, <3>1, <3>5 DEF Drain, BecomeReady, CatchesUp, InSync
      <3> QED
        BY <1>9, <3>2, <3>3, <3>4, <3>5
    <2> QED
      BY <2>1, <2>2
  \* A reply is taken: the last one of SyncFirst brings the log to its goal.
  <1>10. ASSUME FetchFirst(s) \/ Fetch(s) PROVE CatchesUp(s)'
    <2> DEFINE found == Found(s, master[s])
    <2>1. /\ pc[s] \in {"first", "poll"} /\ ready[master[s]] /\ master[s] \in Node
          /\ Len(log[s]) <= Len(log[master[s]]) /\ UNCHANGED <<log, goal, ready, master>>
      BY <1>10 DEF FetchFirst, Fetch, TInv, RunningIsPointed
    <2>2. /\ found \in Seq(Transaction) /\ Len(found) \in Nat
          /\ \A j \in 1..Len(found) : found[j].id = Len(log[s]) + j
          /\ found = << >> => Len(found) = 0
      BY <2>1, FoundIsNext
    <2>3. PICK then \in {"first", "register", "follow"} :
            /\ pc' = [pc EXCEPT ![s] = IF found = << >> THEN then ELSE "apply"]
            /\ chunk' = [chunk EXCEPT ![s] = IF found = << >> THEN NoChunk
                                             ELSE [txns |-> found, then |-> then]]
            /\ then = "follow" <=> pc[s] = "poll"
            /\ then = "register" => Len(log[s]) + Len(found) = Len(log[master[s]])
      BY <1>10 DEF FetchFirst, Fetch
    <2> HIDE DEF found
    <2>4. pc[s] = "first" => master[s] = Pointed[s] /\ ~ready[s]
      BY DEF CatchesUp, InSync
    <2>5. then = "register" => goal[s] <= Len(log[s]) + Len(found)
      BY <1>0, <2>1, <2>3, <2>4
    <2>6. then = "follow" => goal[s] <= Len(log[s])
      BY <2>3 DEF CatchesUp, InSync
    <2>7. CASE found = << >>
      <3>1. pc'[s] = then
        BY <1>0, <2>3, <2>7
      <3> QED
        BY <1>0, <2>1, <2>2, <2>3, <2>4, <2>5, <2>6, <2>7, <3>1 DEF CatchesUp, InSync
    <2>8. CASE found # << >>
      <3>1. pc'[s] = "apply" /\ chunk'[s].txns = found /\ chunk'[s].then = then
        BY <1>0, <2>3, <2>8
      <3> QED
        BY <1>0, <2>1, <2>2, <2>3, <2>4, <2>5, <2>6, <3>1 DEF CatchesUp, InSync
    <2> QED
      BY <2>7, <2>8
  <1> QED
    BY <1>1, <1>2, <1>3, <1>4, <1>5, <1>6, <1>7, <1>9, <1>10 DEF Next, SyncStep

\* SyncFirst before is_ready: a slave that serves has what the node it was pointed at had when it
\* started, as far as that node has not lost it since; also when that node is a slave that is
\* catching up or dies, and when calls fail.
THEOREM SpecReadyHasCaughtUp == Spec => []ReadyHasCaughtUp
  <1> DEFINE CatchInv == \A s \in Slaves : CatchesUp(s)
  <1>1. Init => CatchInv
    <2> SUFFICES ASSUME Init, NEW s \in Slaves PROVE CatchesUp(s)
      OBVIOUS
    <2>1. Len(<< >>) = 0
      BY EmptySeq
    <2> QED
      <3>1. Pointed[s] \in Node /\ s \in Node
        BY ReplicationAssumption, SlavesAreNodes
      <3>2. /\ pc[s] = "down" /\ ready[s] = FALSE /\ goal[s] = 0 /\ log[Pointed[s]] = << >>
        BY <3>1 DEF Init
      <3> QED
        BY <2>1, <3>2 DEF CatchesUp, InSync
  <1>2. TInv /\ CatchInv /\ [Next]_vars => CatchInv'
    BY NextCatchesUp
  <1>3. TInv /\ CatchInv => ReadyHasCaughtUp
    <2> SUFFICES ASSUME TInv, NEW s \in Slaves, CatchesUp(s), ready[s] PROVE Len(log[s]) >= goal[s]
      BY DEF ReadyHasCaughtUp
    <2> QED
      BY SlaveFacts DEF CatchesUp
  <1> HIDE DEF CatchInv
  <1> QED
    BY <1>1, <1>2, <1>3, InitTInv, NextTInv, PTL DEF Spec
=============================================================================
