---------------------------- MODULE ElectionProofs ----------------------------
(***************************************************************************)
(* Proofs about module Election: its types, for all of its behaviours, and *)
(* for one death among any finite number of nodes that there is never more *)
(* than one master, that logs agree and that the slave with the most is    *)
(* elected.                                                                *)
(*                                                                         *)
(* A run has two eras.  As long as the first master lives no poll fails,   *)
(* and every log is where the master's begins.  When it has died each      *)
(* slave counts its failed polls, tells the others how long its log is     *)
(* (HostUpdate) and decides for itself (MasterUpdate); the invariant says  *)
(* that all decide by the same lengths, each of which was told after every *)
(* cutoff it is compared with, whatever the clocks, as long as they differ *)
(* by less than the time from a first failure to HostUpdate.               *)
(***************************************************************************)
EXTENDS Election, FiniteSetTheorems, SequenceTheorems, WellFoundedInduction, TLAPS

-----------------------------------------------------------------------------
(* Logs, and the longest of them.                                          *)

\* The sequence a is where b begins.
Begins(a, b) == Len(a) <= Len(b) /\ \A i \in 1..Len(a) : a[i] = b[i]

\* CaughtUp: the entries after those a node has, put behind them, make a log.
LEMMA CaughtUpIsSeq ==
  ASSUME NEW S, NEW a \in Seq(S), NEW b \in Seq(S)
  PROVE  a \o SubSeq(b, Len(a) + 1, Len(b)) \in Seq(S)
  <1>1. Len(a) \in Nat /\ Len(b) \in Nat
    BY LenProperties
  <1>2. \A i \in Len(a) + 1 .. Len(b) : b[i] \in S
    BY <1>1, ElementOfSeq
  <1>3. SubSeq(b, Len(a) + 1, Len(b)) \in Seq(S)
    BY <1>1, <1>2, SubSeqProperties
  <1> QED
    BY <1>3, ConcatProperties

\* CaughtUp: a node whose log begins that of the node it polls has the same log
\* after the poll (SyncFromMaster asks for what is after its own counter).
LEMMA CaughtUpIsTheOther ==
  ASSUME NEW S, NEW a \in Seq(S), NEW b \in Seq(S), Begins(a, b)
  PROVE  a \o SubSeq(b, Len(a) + 1, Len(b)) = b
  <1> DEFINE rest == SubSeq(b, Len(a) + 1, Len(b))
             c == a \o rest
  <1>1. Len(a) \in Nat /\ Len(b) \in Nat /\ Len(a) <= Len(b)
    BY LenProperties DEF Begins
  <1>2. \A i \in Len(a) + 1 .. Len(b) : b[i] \in S
    BY <1>1, ElementOfSeq
  <1>3. /\ rest \in Seq(S)
        /\ Len(rest) = IF Len(a) + 1 <= Len(b) THEN Len(b) - (Len(a) + 1) + 1 ELSE 0
        /\ \A i \in 1 .. Len(b) - (Len(a) + 1) + 1 : rest[i] = b[(Len(a) + 1) + i - 1]
    BY <1>1, <1>2, SubSeqProperties
  <1>4. Len(rest) = Len(b) - Len(a)
    BY <1>1, <1>3
  <1>5. /\ c \in Seq(S)
        /\ Len(c) = Len(a) + Len(rest)
        /\ \A i \in 1 .. Len(a) + Len(rest) : c[i] = IF i <= Len(a) THEN a[i] ELSE rest[i - Len(a)]
    BY <1>3, ConcatProperties
  <1>6. Len(c) = Len(b)
    BY <1>1, <1>4, <1>5
  <1>7. ASSUME NEW i \in 1 .. Len(c) PROVE c[i] = b[i]
    <2>1. CASE i <= Len(a)
      BY <2>1, <1>1, <1>4, <1>5, <1>6 DEF Begins
    <2>2. CASE ~(i <= Len(a))
      <3> HIDE DEF rest, c
      <3>1. i - Len(a) \in 1 .. Len(b) - (Len(a) + 1) + 1
        BY <2>2, <1>1, <1>6
      <3>2. rest[i - Len(a)] = b[(Len(a) + 1) + (i - Len(a)) - 1]
        BY <3>1, <1>3
      <3>3. (Len(a) + 1) + (i - Len(a)) - 1 = i
        BY <1>1, <1>6
      <3>4. c[i] = rest[i - Len(a)]
        BY <2>2, <1>1, <1>4, <1>5, <1>6
      <3> QED
        BY <3>2, <3>3, <3>4
    <2> QED
      BY <2>1, <2>2
  <1> HIDE DEF c
  <1>8. c = b
    BY <1>5, <1>6, <1>7, SeqEqual
  <1> QED
    BY <1>8 DEF c

\* b has the largest f of T, and the largest number among equals: how
\* MasterUpdate compares the lengths of logs and then the URLs.
Largest(b, T, f) == b \in T /\ \A r \in T : f[r] < f[b] \/ (f[r] = f[b] /\ r <= b)

\* There is such a node among finitely many, at least one. If not, take a
\* nonempty set of the least size that has none: without one element it has one,
\* and the larger of the two is the largest of all.
LEMMA LargestExists ==
  ASSUME NEW T \in SUBSET Nat, IsFiniteSet(T), T # {}, NEW f \in [T -> Nat]
  PROVE  \E b \in T : Largest(b, T, f)
  <1> DEFINE Bad == {k \in Nat : \E U \in SUBSET T : /\ U # {} /\ Cardinality(U) = k
                                                    /\ \A b \in U : ~Largest(b, U, f)}
  <1> SUFFICES ASSUME \A b \in T : ~Largest(b, T, f) PROVE FALSE
    OBVIOUS
  <1>1. Cardinality(T) \in Bad
    BY FS_CardinalityType
  <1>2. PICK k \in Bad : \A j \in Bad : ~(<<j, k>> \in OpToRel(<, Nat))
    BY <1>1, WFMin, NatLessThanWellFounded
  <1>3. PICK U \in SUBSET T : /\ U # {} /\ Cardinality(U) = k
                              /\ \A b \in U : ~Largest(b, U, f)
    BY <1>2
  <1>4. PICK x \in U : TRUE
    BY <1>3
  <1> DEFINE V == U \ {x}
  <1>5. IsFiniteSet(U) /\ IsFiniteSet(V) /\ Cardinality(V) = k - 1 /\ Cardinality(V) \in Nat
    <2>1. IsFiniteSet(U)
      BY FS_Subset
    <2> QED
      BY <2>1, <1>3, <1>4, FS_RemoveElement, FS_CardinalityType
  <1>6. k - 1 \notin Bad
    <2>1. k \in Nat /\ k - 1 < k /\ k - 1 \in Nat
      BY <1>5
    <2>2. <<k - 1, k>> \in OpToRel(<, Nat)
      BY <2>1 DEF OpToRel
    <2> QED
      BY <1>2, <2>2
  <1>7. CASE V = {}
    <2>1. U = {x} /\ f[x] \in Nat /\ x \in Nat
      BY <1>3, <1>4, <1>7
    <2>2. Largest(x, U, f)
      BY <2>1 DEF Largest
    <2> QED
      BY <1>3, <1>4, <2>2
  <1>8. CASE V # {}
    <2>1. PICK b \in V : Largest(b, V, f)
      BY <1>5, <1>6, <1>8
    <2>2. b \in U /\ b \in Nat /\ x \in Nat /\ f[b] \in Nat /\ f[x] \in Nat
      BY <1>3, <1>4
    <2>3. \A r \in V : r \in Nat /\ f[r] \in Nat
      BY <1>3
    <2>4. CASE f[x] < f[b] \/ (f[x] = f[b] /\ x <= b)
      <3>1. Largest(b, U, f)
        BY <2>1, <2>2, <2>4 DEF Largest
      <3> QED
        BY <1>3, <2>2, <3>1
    <2>5. CASE ~(f[x] < f[b] \/ (f[x] = f[b] /\ x <= b))
      <3>1. f[b] < f[x] \/ (f[b] = f[x] /\ b <= x)
        BY <2>2, <2>5
      <3>2. ASSUME NEW r \in U PROVE f[r] < f[x] \/ (f[r] = f[x] /\ r <= x)
        <4>1. CASE r = x
          BY <4>1, <2>2
        <4>2. CASE r # x
          <5>1. r \in V /\ r \in Nat /\ f[r] \in Nat
            BY <4>2, <2>3
          <5>2. f[r] < f[b] \/ (f[r] = f[b] /\ r <= b)
            BY <5>1, <2>1 DEF Largest
          <5>3. \A p, q, s, u, v, w \in Nat :
                  (p < q \/ (p = q /\ u <= v)) /\ (q < s \/ (q = s /\ v <= w))
                    => (p < s \/ (p = s /\ u <= w))
            OBVIOUS
          <5> QED
            BY <5>1, <5>2, <3>1, <2>2, <5>3
        <4> QED
          BY <4>1, <4>2
      <3>3. Largest(x, U, f)
        BY <1>4, <3>2 DEF Largest
      <3> QED
        BY <1>3, <1>4, <3>3
    <2> QED
      BY <2>4, <2>5
  <1> QED
    BY <1>7, <1>8

-----------------------------------------------------------------------------
(* Types.                                                                  *)

\* Type correctness, with what keeps retries in its range: the loop of
\* MasterUpdate ends before retries is MaxRetries.
TypeInv ==
  /\ TypeOK
  /\ DOMAIN remotes = Node
  /\ \A n \in Node : pc[n] = "register" => tries[n] < MaxRetries

\* The assumption on the constants, one by one.
LEMMA Bounds ==
  /\ FirstMaster \in Node
  /\ FailOne \in Nat /\ FailTwo \in Nat /\ 1 < FailOne /\ FailOne < FailTwo
  /\ MaxRetries \in Nat /\ 0 < MaxRetries /\ Skew \in Nat /\ 0 < Skew
  /\ MaxCommit \in Nat /\ MaxCrash \in Nat /\ MaxCut \in Nat /\ MaxReturn \in Nat
  /\ \A n \in Node : Offset[n] \in Nat
  BY ElectionAssumption

\* The CHOOSE of Best has something to choose: MasterUpdate finds a node among
\* its candidates that none of them beats.
LEMMA BestIsLargest ==
  ASSUME TypeInv, NEW n \in Node
  PROVE  /\ Candidates(n) \subseteq Node
         /\ Best(n) \in Candidates(n)
         /\ \A r \in Candidates(n) :
              \/ Known(n, r) < Known(n, Best(n))
              \/ Known(n, r) = Known(n, Best(n)) /\ r <= Best(n)
  <1> DEFINE T == Candidates(n)
             f == [r \in T |-> Known(n, r)]
             IsBest(b) == \A r \in T :
               Known(n, r) < Known(n, b) \/ (Known(n, r) = Known(n, b) /\ r <= b)
  <1>1. T \subseteq Node /\ n \in T
    BY DEF TypeInv, TypeOK, Candidates
  <1>2. IsFiniteSet(T) /\ T \in SUBSET Nat /\ T # {}
    BY <1>1, FS_Subset, ElectionAssumption
  <1>3. ASSUME NEW r \in T PROVE Known(n, r) \in Nat
    <2>1. CASE r = n
      <3>1. log[n] \in Seq(1..MaxCommit)
        BY DEF TypeInv, TypeOK
      <3> QED
        BY <2>1, <3>1, LenProperties DEF Known
    <2>2. CASE r # n
      <3>1. r \in DOMAIN remotes[n]
        BY <2>2 DEF Candidates
      <3> QED
        BY <2>2, <3>1 DEF TypeInv, TypeOK, Info, Known
    <2> QED
      BY <2>1, <2>2
  <1> HIDE DEF T
  <1>4. f \in [T -> Nat]
    BY <1>3
  <1>5. PICK b \in T : Largest(b, T, f)
    BY <1>2, <1>4, LargestExists
  <1>6. IsBest(b)
    BY <1>5 DEF Largest
  <1>7. Best(n) = CHOOSE c \in T : IsBest(c)
    BY DEF Best, T
  <1>8. Best(n) \in T /\ IsBest(Best(n))
    <2> HIDE DEF IsBest
    <2> QED
      BY <1>5, <1>6, <1>7
  <1> QED
    BY <1>1, <1>8 DEF T

\* SharedPairMap::AddMany: the hosts of both maps, and nothing else.
LEMMA AddManyType ==
  ASSUME NEW a, NEW b, DOMAIN a \subseteq Node, DOMAIN b \subseteq Node,
         \A r \in DOMAIN a : a[r] \in Info, \A r \in DOMAIN b : b[r] \in Info
  PROVE  /\ DOMAIN AddMany(a, b) = DOMAIN a \cup DOMAIN b
         /\ DOMAIN AddMany(a, b) \subseteq Node
         /\ \A r \in DOMAIN AddMany(a, b) : AddMany(a, b)[r] \in Info
  BY DEF AddMany

\* l is a list of hosts, as SharedTable::remotes is.
HostList(l) == DOMAIN l \subseteq Node /\ \A r \in DOMAIN l : l[r] \in Info

\* R_REGISTER leaves every node with a list of hosts.
LEMMA RegisteredType ==
  ASSUME TypeInv, NEW n \in Node, NEW t \in Node, NEW info \in Info
  PROVE  /\ DOMAIN Registered(n, t, info) = Node
         /\ \A r \in Node : HostList(Registered(n, t, info)[r])
  <1> DEFINE one == [r \in {n} |-> info]
             list == AddMany(remotes[t], one)
  <1>1. \A r \in Node : HostList(remotes[r])
    BY DEF TypeInv, TypeOK, HostList
  <1>2. HostList(one)
    BY DEF HostList
  <1>3. ASSUME NEW a, NEW b, HostList(a), HostList(b) PROVE HostList(AddMany(a, b))
    BY <1>3, AddManyType DEF HostList
  <1>4. HostList(list)
    <2> HIDE DEF one
    <2> QED
      BY <1>1, <1>2, <1>3
  <1> HIDE DEF list
  <1>5. \A r \in Node : HostList(AddMany(remotes[r], list))
    BY <1>1, <1>3, <1>4
  <1>6. Registered(n, t, info) =
          [r \in Node |->
             IF ~ismaster[t] THEN remotes[r]
             ELSE IF r = t THEN list
             ELSE IF r \in DOMAIN list /\ Reaches(t, r) THEN AddMany(remotes[r], list)
             ELSE remotes[r]]
    BY DEF Registered, list
  <1> QED
    BY <1>1, <1>4, <1>5, <1>6

\* The processes start with values of the right kinds.
LEMMA InitTypeInv == Init => TypeInv
  <1> SUFFICES ASSUME Init PROVE TypeInv
    OBVIOUS
  <1> USE ElectionAssumption DEF Init
  <1>1. log \in [Node -> Seq(1..MaxCommit)]
    BY EmptySeq
  <1>2. /\ fails \in [Node -> 0..(FailTwo + 1)] /\ tries \in [Node -> 0..MaxRetries]
        /\ cutoff \in [Node -> Nat] /\ clock \in Nat
        /\ commits \in 0..MaxCommit /\ crashes \in 0..MaxCrash /\ returns \in 0..MaxReturn
    <2>1. tries \in [Node -> 0..MaxRetries]
      OBVIOUS
    <2> QED
      BY <2>1
  <1> QED
    BY <1>1, <1>2 DEF TypeInv, TypeOK, Info

\* Every node has a list of hosts.
HostLists(l) == DOMAIN l = Node /\ \A r \in Node : HostList(l[r])

\* A poll leaves a log of transactions.
LEMMA CaughtUpType ==
  ASSUME TypeInv, NEW n \in Node, NEW t \in Node
  PROVE  [log EXCEPT ![n] = CaughtUp(n, t)] \in [Node -> Seq(1..MaxCommit)]
  <1>1. log \in [Node -> Seq(1..MaxCommit)]
    BY DEF TypeInv, TypeOK
  <1>2. CaughtUp(n, t) \in Seq(1..MaxCommit)
    BY <1>1, CaughtUpIsSeq DEF CaughtUp
  <1> QED
    BY <1>1, <1>2

\* What a node says of itself, and a master of it, is a length and a time stamp.
LEMMA SelfType ==
  ASSUME TypeInv, NEW n \in Node
  PROVE  /\ \A time \in Nat : Self(n, time) \in Info
         /\ \A t \in Node : [len |-> Len(log[t]), ts |-> clock + Offset[n]] \in Info
  <1>1. \A t \in Node : log[t] \in Seq(1..MaxCommit)
    BY DEF TypeInv, TypeOK
  <1>2. \A t \in Node : Len(log[t]) \in Nat
    BY <1>1, LenProperties
  <1>3. clock \in Nat /\ \A time \in Nat : time + Offset[n] \in Nat
    BY Bounds DEF TypeInv, TypeOK
  <1> QED
    BY <1>2, <1>3 DEF Self, Info

\* The parts of TypeOK besides pc, log and remotes.
Rest ==
  /\ ismaster \in [Node -> BOOLEAN]
  /\ follows \in [Node -> Node] /\ choice \in [Node -> Node]
  /\ fails \in [Node -> 0..(FailTwo + 1)] /\ tries \in [Node -> 0..MaxRetries]
  /\ cutoff \in [Node -> Nat] /\ clock \in Nat
  /\ todo \in [Node -> SUBSET Node] /\ sent \in [Node -> Info]
  /\ cut \subseteq Node \X Node
  /\ commits \in 0..MaxCommit /\ crashes \in 0..MaxCrash /\ returns \in 0..MaxReturn
  /\ split \in BOOLEAN

\* What a node may be doing.
Steps == {"new", "registered", "loop", "tell", "register", "master", "dead", "down"}

\* TypeInv, cut in the parts that the steps change separately.
LEMMA TypeParts ==
  TypeInv <=> /\ pc \in [Node -> Steps]
              /\ log \in [Node -> Seq(1..MaxCommit)]
              /\ HostLists(remotes)
              /\ Rest
              /\ \A n \in Node : pc[n] = "register" => tries[n] < MaxRetries
  BY DEF TypeInv, TypeOK, Rest, HostLists, HostList, Steps

\* And back again, for the next state.
LEMMA TypePartsNext ==
  ASSUME (pc \in [Node -> Steps])', (log \in [Node -> Seq(1..MaxCommit)])',
         HostLists(remotes)', Rest',
         (\A n \in Node : pc[n] = "register" => tries[n] < MaxRetries)'
  PROVE  TypeInv'
  BY DEF TypeInv, TypeOK, Rest, HostLists, HostList, Steps

\* The steps of a slave's sync thread keep the types: SyncFirst, the loop of
\* SyncFromMaster, HostUpdate and MasterUpdate.
LEMMA SyncStepType ==
  ASSUME TypeInv, NEW n \in Node, SyncStep(n)
  PROVE  TypeInv'
  <1> DEFINE Tried == \A r \in Node : pc[r] = "register" => tries[r] < MaxRetries
  <1>0. /\ pc \in [Node -> Steps] /\ log \in [Node -> Seq(1..MaxCommit)]
        /\ HostLists(remotes) /\ Rest /\ Tried
    BY TypeParts
  <1>a. SUFFICES /\ (pc \in [Node -> Steps])' /\ (log \in [Node -> Seq(1..MaxCommit)])'
                 /\ HostLists(remotes)' /\ Rest' /\ Tried'
    BY TypePartsNext
  <1>b. \A t \in Node : [log EXCEPT ![n] = CaughtUp(n, t)] \in [Node -> Seq(1..MaxCommit)]
    BY CaughtUpType
  <1>c. \A time \in Nat : Self(n, time) \in Info
    BY SelfType
  <1>1. CASE Register(n)
    <2> DEFINE t == follows[n]
               m == IF ismaster[t] THEN t ELSE follows[t]
               info == [len |-> Len(log[t]), ts |-> clock + Offset[n]]
               told == Registered(n, m, info)
    <2>1. t \in Node /\ m \in Node
      BY <1>0 DEF Rest
    <2>2. info \in Info
      BY <2>1, SelfType
    <2>4. /\ remotes' = [told EXCEPT ![n] = AddMany(told[n], told[m])]
          /\ log' = [log EXCEPT ![n] = log[t]]
          /\ follows' = [follows EXCEPT ![n] = m] /\ pc' = [pc EXCEPT ![n] = "registered"]
          /\ UNCHANGED <<ismaster, fails, cutoff, todo, sent, choice, tries, cut, clock, commits,
                         crashes, split, returns>>
      BY <1>1 DEF Register
    <2> HIDE DEF info, m, t
    <2>3. HostLists(told)
      BY <2>1, <2>2, RegisteredType DEF HostLists
    <2> HIDE DEF told
    <2>5. HostLists(remotes')
      BY <2>1, <2>3, <2>4, AddManyType DEF HostLists, HostList
    <2>6. log' \in [Node -> Seq(1..MaxCommit)]
      BY <1>0, <2>1, <2>4
    <2>7. pc' \in [Node -> Steps] /\ Tried'
      BY <1>0, <2>4 DEF Steps
    <2>8. Rest'
      BY <1>0, <2>1, <2>4 DEF Rest
    <2> QED
      BY <2>5, <2>6, <2>7, <2>8 DEF HostLists
  <1>2. CASE BecomeReady(n)
    BY <1>0, <1>2 DEF BecomeReady, Rest, Steps, HostLists, HostList
  <1>3. CASE PollOK(n)
    <2>1. log' \in [Node -> Seq(1..MaxCommit)]
      BY <1>0, <1>3, <1>b DEF PollOK, Rest
    <2>2. fails' \in [Node -> 0..(FailTwo + 1)]
      BY <1>0, <1>3, Bounds DEF PollOK, Rest
    <2> QED
      BY <1>0, <1>3, <2>1, <2>2 DEF PollOK, Rest, HostLists, HostList
  <1>4. CASE PollFails(n)
    <2>1. fails' \in [Node -> 0..(FailTwo + 1)]
      <3>1. fails[n] \in 0..(FailTwo + 1) /\ fails[n] <= FailTwo
        BY <1>0, <1>4 DEF PollFails, Rest
      <3>2. fails[n] + 1 \in 0..(FailTwo + 1)
        BY <3>1, Bounds
      <3> QED
        BY <1>0, <1>4, <3>2 DEF PollFails, Rest
    <2>2. clock' \in Nat /\ cutoff' \in [Node -> Nat]
      <3>1. clock \in Nat /\ clock + 1 \in Nat /\ cutoff \in [Node -> Nat] /\ Offset[n] \in Nat
        BY <1>0, Bounds DEF Rest
      <3>2. clock' \in Nat
        BY <1>4, <3>1 DEF PollFails
      <3>3. \/ cutoff' = cutoff
            \/ \E late \in {0, 1} : cutoff' = [cutoff EXCEPT ![n] = clock' + Offset[n] + late]
        BY <1>4 DEF PollFails
      <3> QED
        BY <3>1, <3>2, <3>3
    <2>4. sent' \in [Node -> Info]
      <3>1. Self(n, clock') \in Info
        BY <1>c, <2>2
      <3>2. sent' = sent \/ sent' = [sent EXCEPT ![n] = Self(n, clock')]
        BY <1>4 DEF PollFails
      <3> QED
        BY <1>0, <3>1, <3>2 DEF Rest
    <2>5. todo' \in [Node -> SUBSET Node]
      <3>1. todo' = todo \/ todo' = [todo EXCEPT ![n] = DOMAIN remotes[n]]
        BY <1>4 DEF PollFails
      <3>2. DOMAIN remotes[n] \in SUBSET Node
        BY <1>0 DEF HostLists, HostList
      <3> QED
        BY <1>0, <3>1, <3>2 DEF Rest
    <2>6. pc' \in [Node -> Steps] /\ Tried'
      <3>1. pc' = pc \/ pc' = [pc EXCEPT ![n] = "tell"]
        BY <1>4 DEF PollFails
      <3>2. tries' = tries
        BY <1>4 DEF PollFails
      <3> QED
        BY <1>0, <3>1, <3>2 DEF Steps
    <2>7. HostLists(remotes)' /\ log' = log
      BY <1>0, <1>4 DEF PollFails, HostLists, HostList
    <2>8. UNCHANGED <<ismaster, follows, choice, tries, cut, commits, crashes, split, returns>>
      BY <1>4 DEF PollFails
    <2> QED
      BY <1>0, <2>1, <2>2, <2>4, <2>5, <2>6, <2>7, <2>8 DEF Rest
  <1>5. CASE Tell(n)
    <2>1. HostLists(remotes)'
      <3>1. HostList([q \in {n} |-> sent[n]])
        BY <1>0 DEF HostList, Rest
      <3>2. \A r \in Node : HostList(AddMany(remotes[r], [q \in {n} |-> sent[n]]))
        BY <1>0, <3>1, AddManyType DEF HostList, HostLists
      <3>3. \/ remotes' = remotes
            \/ \E r \in Node :
                 remotes' = [remotes EXCEPT ![r] = AddMany(remotes[r], [q \in {n} |-> sent[n]])]
        BY <1>0, <1>5 DEF Tell, Rest
      <3> QED
        BY <1>0, <3>2, <3>3 DEF HostLists
    <2>2. todo' \in [Node -> SUBSET Node]
      <3>1. todo \in [Node -> SUBSET Node]
        BY <1>0 DEF Rest
      <3>2. todo' = todo \/ \E r \in Node : todo' = [todo EXCEPT ![n] = todo[n] \ {r}]
        BY <1>5, <3>1 DEF Tell
      <3> QED
        BY <3>1, <3>2
    <2>3. pc' \in [Node -> Steps] /\ Tried'
      BY <1>0, <1>5 DEF Tell, Steps
    <2>4. UNCHANGED <<ismaster, follows, log, fails, cutoff, sent, choice, tries, cut, clock,
                      commits, crashes, split, returns>>
      BY <1>5 DEF Tell
    <2> QED
      BY <1>0, <2>1, <2>2, <2>3, <2>4 DEF Rest
  <1>6. CASE Elect(n)
    <2>1. Best(n) \in Node
      BY BestIsLargest
    <2>2. fails' \in [Node -> 0..(FailTwo + 1)]
      <3>1. FailTwo \in 0..(FailTwo + 1)
        BY Bounds
      <3> QED
        BY <1>0, <1>6, <3>1 DEF Elect, Rest
    <2>3. HostLists(remotes)' /\ log' = log
      BY <1>0, <1>6 DEF Elect, HostLists, HostList
    <2>4. CASE Best(n) = n /\ Promoted(n) /\ pc' = [pc EXCEPT ![n] = "master"]
               /\ UNCHANGED <<sent, choice, tries>>
      <3>1. split' \in BOOLEAN /\ ismaster' \in [Node -> BOOLEAN]
        BY <1>0, <2>4 DEF Promoted, Rest
      <3>2. pc' \in [Node -> Steps] /\ Tried'
        BY <1>0, <2>4 DEF Steps
      <3> QED
        BY <1>0, <1>6, <2>2, <2>3, <2>4, <3>1, <3>2 DEF Elect, Rest
    <2>5. CASE /\ pc' = [pc EXCEPT ![n] = "register"]
               /\ sent' = [sent EXCEPT ![n] = Self(n, clock)]
               /\ choice' = [choice EXCEPT ![n] = Best(n)]
               /\ tries' = [tries EXCEPT ![n] = 0]
               /\ UNCHANGED <<ismaster, split>>
      <3>1. sent' \in [Node -> Info] /\ choice' \in [Node -> Node]
        BY <1>0, <1>c, <2>1, <2>5 DEF Rest
      <3>2. tries' \in [Node -> 0..MaxRetries]
        BY <1>0, <2>5, Bounds DEF Rest
      <3>3. pc' \in [Node -> Steps] /\ Tried'
        BY <1>0, <2>5, Bounds DEF Steps, Rest
      <3> QED
        BY <1>0, <1>6, <2>2, <2>3, <2>5, <3>1, <3>2, <3>3 DEF Elect, Rest
    <2> QED
      BY <1>6, <2>4, <2>5 DEF Elect
  <1>7. CASE Join(n)
    <2>1. choice[n] \in Node /\ sent[n] \in Info /\ remotes' = Registered(n, choice[n], sent[n])
      BY <1>0, <1>7 DEF Join, Rest
    <2>2. HostLists(remotes)'
      BY <2>1, RegisteredType DEF HostLists
    <2>3. pc' \in [Node -> Steps] /\ Tried'
      BY <1>0, <1>7 DEF Join, Steps
    <2> QED
      BY <1>0, <1>7, <2>1, <2>2, <2>3 DEF Join, Rest
  <1>8. CASE JoinFails(n)
    <2>1. tries[n] \in 0..MaxRetries /\ tries[n] < MaxRetries
      BY <1>0, <1>8 DEF JoinFails, Rest
    <2>2. tries[n] + 1 \in 0..MaxRetries
      BY <2>1, Bounds
    <2>3. tries' \in [Node -> 0..MaxRetries]
      BY <1>0, <1>8, <2>2 DEF JoinFails, Rest
    <2>4. pc' \in [Node -> Steps] /\ Tried'
      BY <1>0, <1>8 DEF JoinFails, Steps, Rest
    <2> QED
      BY <1>0, <1>8, <2>3, <2>4 DEF JoinFails, Rest, HostLists, HostList
  <1> QED
    BY <1>1, <1>2, <1>3, <1>4, <1>5, <1>6, <1>7, <1>8 DEF SyncStep

\* Every step keeps the types.
LEMMA NextType == TypeInv /\ [Next]_vars => TypeInv'
  <1> DEFINE Tried == \A r \in Node : pc[r] = "register" => tries[r] < MaxRetries
  <1> DEFINE Goal == /\ (pc \in [Node -> Steps])' /\ (log \in [Node -> Seq(1..MaxCommit)])'
                     /\ HostLists(remotes)' /\ Rest' /\ Tried'
  <1> SUFFICES ASSUME TypeInv, [Next]_vars PROVE TypeInv'
    OBVIOUS
  <1>7. Goal => TypeInv'
    BY TypePartsNext
  <1>0. /\ pc \in [Node -> Steps] /\ log \in [Node -> Seq(1..MaxCommit)]
        /\ HostLists(remotes) /\ Rest /\ Tried
    BY TypeParts
  <1>1. ASSUME NEW n \in Node, Commit(n) PROVE Goal
    <2>1. log[n] \in Seq(1..MaxCommit) /\ commits \in 0..MaxCommit /\ commits < MaxCommit
      BY <1>0, <1>1 DEF Commit, Rest
    <2>2. commits + 1 \in 1..MaxCommit /\ commits + 1 \in 0..MaxCommit
      BY <2>1, Bounds
    <2>3. Append(log[n], commits + 1) \in Seq(1..MaxCommit)
      BY <2>1, <2>2, AppendProperties
    <2>4. log' \in [Node -> Seq(1..MaxCommit)] /\ commits' \in 0..MaxCommit
      BY <1>0, <1>1, <2>2, <2>3 DEF Commit
    <2> QED
      BY <1>0, <1>1, <2>4 DEF Commit, Rest, HostLists, HostList
  <1>2. ASSUME NEW n \in Node, Crash(n) PROVE Goal
    <2>1. crashes' \in 0..MaxCrash
      <3>1. crashes \in 0..MaxCrash /\ crashes < MaxCrash /\ crashes' = crashes + 1
        BY <1>0, <1>2 DEF Crash, Rest
      <3> QED
        BY <3>1, Bounds
    <2>2. pc' \in [Node -> Steps] /\ Tried'
      BY <1>0, <1>2 DEF Crash, Steps
    <2>3. ismaster' \in [Node -> BOOLEAN] /\ todo' \in [Node -> SUBSET Node]
      BY <1>0, <1>2 DEF Crash, Rest
    <2> QED
      BY <1>0, <1>2, <2>1, <2>2, <2>3 DEF Crash, Rest, HostLists, HostList
  <1>3. ASSUME NEW n \in Node, NEW t \in Node, Cut(n, t) PROVE Goal
    <2>1. (cut \subseteq Node \X Node)'
      BY <1>0, <1>3 DEF Cut, Rest
    <2> QED
      BY <1>0, <1>3, <2>1 DEF Cut, Rest, HostLists, HostList
  <1>4. ASSUME NEW n \in Node, NEW t \in Node, Return(n, t) PROVE Goal
    <2>1. returns' \in 0..MaxReturn
      <3>1. returns \in 0..MaxReturn /\ returns < MaxReturn /\ returns' = returns + 1
        BY <1>0, <1>4 DEF Return, Rest
      <3> QED
        BY <3>1, Bounds
    <2>2. /\ follows' \in [Node -> Node] /\ cutoff' \in [Node -> Nat]
      BY <1>0, <1>4 DEF Return, Rest
    <2>3. fails' \in [Node -> 0..(FailTwo + 1)]
      <3>1. 0 \in 0..(FailTwo + 1)
        BY Bounds
      <3> QED
        BY <1>0, <1>4, <3>1 DEF Return, Rest
    <2>4. HostLists(remotes)'
      <3>1. HostList([r \in {} |-> [len |-> 0, ts |-> 0]])
        BY DEF HostList
      <3>2. remotes' = [remotes EXCEPT ![n] = [r \in {} |-> [len |-> 0, ts |-> 0]]]
        BY <1>4 DEF Return
      <3> QED
        BY <1>0, <3>1, <3>2 DEF HostLists
    <2>5. /\ ismaster' \in [Node -> BOOLEAN] /\ split' \in BOOLEAN
      BY <1>0, <1>4 DEF Return, Promoted, Rest
    <2>6. pc' \in [Node -> Steps] /\ Tried'
      BY <1>0, <1>4 DEF Return, Steps
    <2> QED
      BY <1>0, <1>4, <2>1, <2>2, <2>3, <2>4, <2>5, <2>6 DEF Return, Rest
  <1>5. ASSUME UNCHANGED vars PROVE Goal
    <2>1. HostLists(remotes)' /\ pc' = pc /\ log' = log /\ tries' = tries
      BY <1>0, <1>5 DEF HostLists, HostList, vars
    <2>2. Rest'
      BY <1>0, <1>5 DEF Rest, vars
    <2>3. Tried' /\ (pc \in [Node -> Steps])' /\ (log \in [Node -> Seq(1..MaxCommit)])'
      BY <1>0, <2>1
    <2> HIDE DEF Tried
    <2> QED
      BY <2>1, <2>2, <2>3
  <1>6. ASSUME NEW n \in Node, SyncStep(n) PROVE TypeInv'
    BY <1>6, SyncStepType
  <1>8. ASSUME TimePasses PROVE Goal
    <2>1. clock' \in Nat
      BY <1>0, <1>8 DEF TimePasses, Rest
    <2> QED
      BY <1>0, <1>8, <2>1 DEF TimePasses, Rest, HostLists, HostList
  <1> HIDE DEF Goal
  <1> QED
    BY <1>1, <1>2, <1>3, <1>4, <1>5, <1>6, <1>7, <1>8 DEF Next

\* TypeOK holds for every set of nodes, every two fail counts and any number of
\* deaths, cut links and restarts: failcount stays below
\* SYNCMASTER_FAILCOUNT_TWO + 2, retries below ELECTION_MAX_RETRIES, and hosts
\* are only ever noted with the length and the time stamp they told.
THEOREM SpecTypeOK == Spec => []TypeOK
  <1>1. Spec => []TypeInv
    BY InitTypeInv, NextType, PTL DEF Spec
  <1>2. TypeInv => TypeOK
    BY DEF TypeInv
  <1> QED
    BY <1>1, <1>2, PTL

-----------------------------------------------------------------------------
(* The inductive invariant.                                                *)

\* One process dies, after the slaves have started one by one; no link is cut
\* and nothing is started again. Slaves that poll the same node are less than
\* FailOne failures apart, so none begins HostUpdate before another has noticed;
\* and less than FailTwo - FailOne apart, so none begins MasterUpdate before the
\* others have ended HostUpdate.
OneDeath ==
  /\ Calm /\ MaxCut = 0 /\ MaxReturn = 0 /\ MaxCrash <= 1
  /\ Skew < FailOne /\ Skew < FailTwo - FailOne

\* The clocks of two nodes differ by less than the time that is left from the first
\* failure of one slave to HostUpdate of another.
ClocksAgree == \A n, r \in Node : Offset[n] - Offset[r] < FailOne - Skew

\* The slaves that run.
Members == {s \in Slaves : pc[s] \notin {"new", "down"}}

\* s still polls the first master or tells the others, and has not elected.
Open(s) == s \in Members /\ follows[s] = FirstMaster /\ pc[s] \in {"loop", "tell"}

\* s has told, or tells, how long its log is: R_SETINFO has a time stamp.
Sent(s) == sent[s].ts > 0

\* The length the election goes by: what s told, or will tell.
Length(s) == IF Sent(s) THEN sent[s].len ELSE Len(log[s])

\* No slave that runs beats w.
Longest(w) ==
  /\ w \in Members
  /\ \A r \in Members : Length(r) < Length(w) \/ (Length(r) = Length(w) /\ r <= w)

\* HostUpdate of s is past x.
Told(s, x) == Sent(s) /\ (pc[s] = "tell" => x \notin todo[s])

\* What no step changes: links work, only one process dies, is_master is set
\* where the code of a master runs, and nobody but a master and its slaves is
\* there.
Frame ==
  /\ cut = {}
  /\ \A n \in Node : pc[n] = "down" => crashes = 1
  /\ \A n \in Node : ismaster[n] <=> pc[n] = "master"
  /\ pc[FirstMaster] \in {"master", "down"}
  /\ \A s \in Slaves : pc[s] = "new" => follows[s] = FirstMaster

\* While the first master lives: no poll fails, what a slave has is where the
\* master's log begins, and every slave that runs is on every list of hosts.
FirstEra ==
  /\ clock > 0 /\ fails[FirstMaster] = 0
  /\ \A s \in Slaves :
       /\ pc[s] \in {"new", "registered", "loop", "down"}
       /\ follows[s] = FirstMaster
       /\ fails[s] = 0 /\ ~Sent(s)
       /\ Begins(log[s], log[FirstMaster])
  /\ \A n \in Node : DOMAIN remotes[n] \subseteq {s \in Slaves : pc[s] # "new"}
  /\ \A n \in Members \cup {FirstMaster} : Members \subseteq DOMAIN remotes[n]

\* A slave that has not elected: failcount says whether it has told, and what it
\* told is still so.
Polling ==
  \A s \in Members : Open(s) =>
    /\ fails[s] < FailTwo
    /\ Sent(s) <=> fails[s] >= FailOne
    /\ Sent(s) => sent[s].len = Len(log[s])
    /\ pc[s] = "tell" => fails[s] = FailOne

\* Failures and the time: of two slaves that have not elected neither is more than
\* Skew failures ahead, and from the cutoff of one of them, which is at most an
\* interval after its first failure by its clock, an interval passes with each
\* further failure of any of them, the first Skew excepted.
Paced ==
  /\ clock > 0
  /\ \A n \in Node \ Members : fails[n] = 0
  /\ \A s \in Members : sent[s].ts <= clock + Offset[s]
  /\ \A s, r \in Members : Open(s) /\ Open(r) =>
       /\ fails[s] <= fails[r] + Skew
       /\ fails[r] > 0 => \A k \in 0..FailOne :
                            k <= fails[s] => cutoff[r] + k <= clock + Offset[r] + Skew + 1

\* A slave that has elected: it is the master, registers with the one that is,
\* or polls it; and there is only one that it can be.  All others are past HostUpdate.
Decided ==
  \A s \in Members : ~Open(s) =>
    /\ Sent(s)
    /\ \A r \in Members : Open(r) => fails[r] > FailOne
    /\ pc[s] \in {"loop", "register", "master"}
    /\ pc[s] = "master" => Longest(s)
    /\ pc[s] = "register" => Longest(choice[s]) /\ choice[s] # s
    /\ pc[s] = "loop" => Longest(follows[s]) /\ follows[s] # s

\* SharedTable::remotes of a slave: all that run, and of those that have told,
\* what they told.
Heard ==
  \A x \in Members :
    /\ DOMAIN remotes[x] = Members
    /\ \A r \in Members : Told(r, x) => remotes[x][r].len = sent[r].len

\* The cutoff of a slave that has not elected is before all that was told:
\* MasterUpdate leaves nobody out.
InTime ==
  \A s, r \in Members : Sent(s) /\ Open(r) =>
    /\ fails[r] > 0 /\ cutoff[r] <= sent[s].ts
    /\ \A x \in Members : Told(s, x) => remotes[x][s].ts >= cutoff[r]

\* All that any slave has is where the log of one of them begins, the one whose
\* election all await. When it is a master, all have told it: the list it sends
\* when others register takes nothing away from what they heard.
MostIsKept ==
  /\ Members # {} => \E w \in Members : Longest(w)
  /\ \A w \in Members : Longest(w) =>
      /\ \A s \in Members : Begins(log[s], log[w])
      /\ ismaster[w] => \A s \in Members : Told(s, w)

\* When the first master has died.
SecondEra ==
  /\ \A s \in Slaves : pc[s] \in {"new", "loop", "tell", "register", "master"}
  /\ Polling /\ Paced /\ Decided /\ Heard /\ InTime /\ MostIsKept

\* The inductive invariant. OneMaster and LogsAgree say nothing of failcount, of
\* time stamps, or of who has told whom, on which the choice of a master
\* depends; these do.
EInv ==
  /\ TypeInv /\ Frame
  /\ pc[FirstMaster] = "master" => FirstEra
  /\ pc[FirstMaster] = "down" => SecondEra

-----------------------------------------------------------------------------
(* Facts about slaves, logs and the longest log.                           *)

\* Slaves and the first master are all the nodes.
LEMMA SlaveFacts == /\ Slaves \subseteq Node /\ FirstMaster \in Node /\ FirstMaster \notin Slaves
                    /\ Node = Slaves \cup {FirstMaster}
                    /\ Members \subseteq Slaves
  BY Bounds DEF Slaves, Members

\* Lengths and time stamps are numbers.
LEMMA LogFacts ==
  ASSUME TypeInv, NEW n \in Node
  PROVE  /\ log[n] \in Seq(1..MaxCommit) /\ Len(log[n]) \in Nat
         /\ sent[n].ts \in Nat /\ sent[n].len \in Nat
         /\ Length(n) \in Nat
  <1>1. log[n] \in Seq(1..MaxCommit) /\ sent[n] \in Info
    BY DEF TypeInv, TypeOK
  <1>2. Len(log[n]) \in Nat
    BY <1>1, LenProperties
  <1>3. sent[n].ts \in Nat /\ sent[n].len \in Nat
    BY <1>1 DEF Info
  <1> QED
    BY <1>1, <1>2, <1>3 DEF Length

\* Of two sequences where one sequence begins, the shorter is where the longer
\* begins.
LEMMA ShorterBegins ==
  ASSUME NEW S, NEW a \in Seq(S), NEW b \in Seq(S), NEW c \in Seq(S),
         Begins(a, c), Begins(b, c), Len(a) <= Len(b)
  PROVE  Begins(a, b)
  <1>1. Len(a) \in Nat /\ Len(b) \in Nat /\ Len(c) \in Nat
    BY LenProperties
  <1> QED
    BY <1>1 DEF Begins

\* A sequence is where it begins itself.
LEMMA BeginsItself ==
  ASSUME NEW S, NEW a \in Seq(S)
  PROVE  Begins(a, a)
  BY LenProperties DEF Begins

\* A commit of the master leaves what its slaves have where its log begins.
LEMMA BeginsMore ==
  ASSUME NEW S, NEW a \in Seq(S), NEW b \in Seq(S), NEW e \in S, Begins(a, b)
  PROVE  Begins(a, Append(b, e))
  <1>1. Len(a) \in Nat /\ Len(b) \in Nat
    BY LenProperties
  <1>2. /\ Len(Append(b, e)) = Len(b) + 1
        /\ \A i \in 1 .. Len(b) : Append(b, e)[i] = b[i]
    BY AppendProperties
  <1> QED
    BY <1>1, <1>2 DEF Begins

\* There is only one that no slave beats: URLs differ.
LEMMA LongestIsOne ==
  ASSUME TypeInv, NEW v, NEW w, Longest(v), Longest(w)
  PROVE  v = w
  <1>1. v \in Members /\ w \in Members
    BY DEF Longest
  <1>2. v \in Nat /\ w \in Nat /\ v \in Node /\ w \in Node
    BY <1>1, SlaveFacts, ElectionAssumption
  <1>3. Length(v) \in Nat /\ Length(w) \in Nat
    BY <1>2, LogFacts
  <1>4. /\ Length(v) < Length(w) \/ (Length(v) = Length(w) /\ v <= w)
        /\ Length(w) < Length(v) \/ (Length(w) = Length(v) /\ w <= v)
    BY <1>1 DEF Longest
  <1> QED
    BY <1>2, <1>3, <1>4

\* It stays the same as long as the slaves and their lengths do.
LEMMA LongestStays ==
  ASSUME Members' = Members, \A s \in Members : Length(s)' = Length(s)
  PROVE  \A w : Longest(w)' <=> Longest(w)
  <1>1. \A w : Longest(w)' <=> /\ w \in Members'
                               /\ \A r \in Members' : \/ Length(r)' < Length(w)'
                                                      \/ Length(r)' = Length(w)' /\ r <= w
    BY DEF Longest
  <1> QED
    BY <1>1 DEF Longest

\* There is one as long as a slave runs.
LEMMA LongestExists ==
  ASSUME TypeInv, Members # {}
  PROVE  \E w \in Members : Longest(w)
  <1> DEFINE f == [s \in Members |-> Length(s)]
  <1>1. Members \subseteq Node
    BY SlaveFacts
  <1>2. IsFiniteSet(Members) /\ Members \in SUBSET Nat
    BY <1>1, FS_Subset, ElectionAssumption
  <1>3. f \in [Members -> Nat]
    BY <1>1, LogFacts
  <1>4. PICK w \in Members : Largest(w, Members, f)
    BY <1>2, <1>3, LargestExists
  <1>5. Longest(w)
    BY <1>4 DEF Largest, Longest
  <1> QED
    BY <1>5

\* What less than Skew failures apart means for one that begins HostUpdate and
\* for one that begins MasterUpdate.
LEMMA ConstantsOfOneDeath ==
  ASSUME OneDeath
  PROVE  /\ \A a, b \in Nat : a = FailOne - 1 /\ a - b < Skew => b > 0
         /\ \A a, b \in Nat : a = FailTwo - 1 /\ a - b < Skew => b > FailOne
  BY Bounds DEF OneDeath

\* The processes start in the first era.
LEMMA InitEInv ==
  ASSUME OneDeath
  PROVE  Init => EInv
  <1> SUFFICES ASSUME Init PROVE EInv
    OBVIOUS
  <1>1. TypeInv
    BY InitTypeInv
  <1>2. Frame
    BY SlaveFacts DEF Init, Frame
  <1>3. FirstEra
    <2>1. Members = {}
      BY SlaveFacts DEF Init, Members
    <2>2. \A s \in Slaves : Begins(log[s], log[FirstMaster])
      <3>1. \A s \in Slaves : log[s] = << >> /\ log[FirstMaster] = << >>
        BY SlaveFacts DEF Init
      <3>2. Begins(<< >>, << >>)
        BY BeginsItself, EmptySeq
      <3> QED
        BY <3>1, <3>2
    <2>3. \A s \in Slaves : pc[s] = "new" /\ follows[s] = FirstMaster /\ fails[s] = 0 /\ ~Sent(s)
      BY SlaveFacts DEF Init, Sent
    <2>4. \A n \in Node : DOMAIN remotes[n] = {}
      BY DEF Init
    <2>5. clock > 0 /\ fails[FirstMaster] = 0
      BY SlaveFacts DEF Init
    <2> QED
      BY <2>1, <2>2, <2>3, <2>4, <2>5 DEF FirstEra
  <1>4. pc[FirstMaster] = "master"
    BY SlaveFacts DEF Init
  <1> QED
    BY <1>1, <1>2, <1>3, <1>4 DEF EInv

-----------------------------------------------------------------------------
(* While the first master lives.                                           *)

\* What the steps of the first era rely on: every slave can call the master, and
\* a poll makes its log the same.
LEMMA FirstEraFacts ==
  ASSUME EInv, pc[FirstMaster] = "master"
  PROVE  /\ TypeInv /\ Frame /\ FirstEra
         /\ \A s \in Slaves : s \in Node /\ s # FirstMaster
         /\ \A n \in Node : pc[n] = "master" <=> n = FirstMaster
         /\ \A n, t \in Node : Reaches(n, t) <=> pc[t] \notin {"new", "registered", "down"}
         /\ \A s \in Slaves : /\ log[s] \in Seq(1..MaxCommit)
                              /\ CaughtUp(s, FirstMaster) = log[FirstMaster]
         /\ \A s \in Slaves : Len(log[s]) <= Len(log[FirstMaster])
  <1>1. TypeInv /\ Frame /\ FirstEra
    BY DEF EInv
  <1>2. \A s \in Slaves : s \in Node /\ s # FirstMaster
    BY SlaveFacts
  <1>3. \A s \in Slaves : pc[s] # "master"
    BY <1>1 DEF FirstEra
  <1>4. \A n \in Node : pc[n] = "master" <=> n = FirstMaster
    BY <1>3, SlaveFacts
  <1>5. \A n, t \in Node : Reaches(n, t) <=> pc[t] \notin {"new", "registered", "down"}
    BY <1>1 DEF Reaches, Frame
  <1>6. \A n \in Node : log[n] \in Seq(1..MaxCommit)
    BY <1>1, LogFacts
  <1>7. \A s \in Slaves : Begins(log[s], log[FirstMaster])
    BY <1>1 DEF FirstEra
  <1>8. \A s \in Slaves : CaughtUp(s, FirstMaster) = log[FirstMaster]
    BY <1>2, <1>6, <1>7, SlaveFacts, CaughtUpIsTheOther DEF CaughtUp
  <1>9. \A s \in Slaves : Len(log[s]) <= Len(log[FirstMaster])
    BY <1>7 DEF Begins
  <1> QED
    BY <1>1, <1>2, <1>4, <1>5, <1>6, <1>8, <1>9

\* R_REGISTER at the living master: it has a list of all the slaves that run,
\* and HostUpdate sends it to all of them.
LEMMA FirstEraRegister ==
  ASSUME OneDeath, EInv, pc[FirstMaster] = "master", NEW n \in Node, Register(n)
  PROVE  Frame' /\ FirstEra' /\ pc'[FirstMaster] = "master"
  <1> DEFINE F == FirstMaster
             info == [len |-> Len(log[F]), ts |-> clock + Offset[n]]
             list == AddMany(remotes[F], [r \in {n} |-> info])
             told == Registered(n, F, info)
  <1>1. TypeInv /\ Frame /\ FirstEra
    BY DEF EInv
  <1>2. n \in Slaves /\ pc[n] = "new" /\ follows[n] = F /\ ismaster[F] /\ n # F
    BY <1>1, SlaveFacts DEF Register, Frame
  <1>3. /\ \A r \in Node : pc[r] # "registered"
        /\ log' = [log EXCEPT ![n] = log[F]]
        /\ follows' = [follows EXCEPT ![n] = F]
        /\ pc' = [pc EXCEPT ![n] = "registered"]
        /\ remotes' = [told EXCEPT ![n] = AddMany(told[n], told[F])]
        /\ UNCHANGED <<ismaster, fails, cutoff, todo, sent, choice, tries, cut, clock, commits,
                       crashes, split, returns>>
    BY <1>2 DEF Register, OneDeath, Starting
  <1>4. /\ pc \in [Node -> Steps] /\ log \in [Node -> Seq(1..MaxCommit)]
        /\ follows \in [Node -> Node] /\ DOMAIN remotes = Node
    BY <1>1, TypeParts DEF HostLists, Rest
  <1>5. F \in Node /\ \A s \in Slaves : s \in Node /\ s # F
    BY SlaveFacts
  <1>7. \A r \in Node : Reaches(F, r) <=> pc[r] \notin {"new", "down"}
    BY <1>3, <1>5, FirstEraFacts
  <1>8. /\ DOMAIN list = DOMAIN remotes[F] \cup {n}
        /\ \A r \in DOMAIN list : list[r] = IF r = n THEN info ELSE remotes[F][r]
    BY DEF AddMany
  <1>9. told = [r \in Node |-> IF r = F THEN list
                               ELSE IF r \in DOMAIN list /\ Reaches(F, r) THEN AddMany(remotes[r], list)
                               ELSE remotes[r]]
    BY <1>2 DEF Registered
  <1> HIDE DEF list, told
  <1>10. told[F] = list /\ told[n] = remotes[n]
    BY <1>2, <1>5, <1>7, <1>9
  <1>11. \A r \in Node : remotes'[r] = IF r = n THEN AddMany(remotes[n], list)
                                       ELSE told[r]
    BY <1>2, <1>3, <1>5, <1>9, <1>10
  <1>12. /\ \A r \in Node : pc'[r] = IF r = n THEN "registered" ELSE pc[r]
         /\ pc'[F] = "master" /\ Members' = Members \cup {n}
    BY <1>2, <1>3, <1>4, <1>5 DEF Members
  <1>13. Frame'
    BY <1>1, <1>2, <1>3, <1>4, <1>5, <1>12 DEF Frame
  <1>14. \A s \in Slaves : Begins(log'[s], log'[F])
    <2>1. log'[F] = log[F]
      BY <1>2, <1>3, <1>4, <1>5
    <2>2. \A s \in Slaves : log'[s] = IF s = n THEN log[F] ELSE log[s]
      BY <1>3, <1>4, <1>5
    <2>3. Begins(log[F], log[F])
      BY <1>4, <1>5, BeginsItself
    <2> QED
      BY <1>1, <2>1, <2>2, <2>3 DEF FirstEra
  <1>15. \A s \in Slaves : /\ pc'[s] \in {"new", "registered", "loop", "down"}
                           /\ follows'[s] = F /\ fails'[s] = 0 /\ ~Sent(s)'
    <2>1. \A s \in Slaves : follows'[s] = F
      BY <1>1, <1>3, <1>4, <1>5 DEF FirstEra
    <2> QED
      BY <1>1, <1>3, <1>5, <1>12, <2>1 DEF FirstEra, Sent
  <1> DEFINE Hosts(l) == DOMAIN l \subseteq {s \in Slaves : pc'[s] # "new"}
  <1>16. \A r \in Node : Hosts(remotes[r])
    BY <1>1, <1>2, <1>5, <1>12 DEF FirstEra
  <1>17. Hosts(list)
    BY <1>2, <1>5, <1>8, <1>12, <1>16
  <1>18. \A r \in Node : Hosts(AddMany(remotes[r], list))
    BY <1>16, <1>17 DEF AddMany
  <1>19. \A r \in Node : Hosts(remotes'[r])
    <2>1. \A r \in Node : \/ remotes'[r] = remotes[r] \/ remotes'[r] = list
                          \/ remotes'[r] = AddMany(remotes[r], list)
      BY <1>9, <1>11
    <2> HIDE DEF Hosts
    <2> QED
      BY <1>16, <1>17, <1>18, <2>1
  <1>20. Members \cup {n} \subseteq DOMAIN list
    BY <1>1, <1>8 DEF FirstEra
  <1>21. ASSUME NEW r \in Members \cup {n, F} PROVE Members \cup {n} \subseteq DOMAIN remotes'[r]
    <2>1. CASE r = n
      BY <1>2, <1>5, <1>11, <1>20, <2>1 DEF AddMany
    <2>2. CASE r = F
      BY <1>2, <1>5, <1>10, <1>11, <1>20, <2>2
    <2>3. CASE r \in Members /\ r # n /\ r # F
      <3>1. r \in Node /\ pc[r] \notin {"new", "down"}
        BY <2>3, SlaveFacts DEF Members
      <3>2. remotes'[r] = AddMany(remotes[r], list)
        BY <1>7, <1>9, <1>11, <1>20, <2>3, <3>1
      <3> QED
        BY <1>20, <3>2 DEF AddMany
    <2> QED
      BY <2>1, <2>2, <2>3
  <1>22. clock' > 0 /\ fails'[F] = 0
    BY <1>1, <1>3 DEF FirstEra
  <1>23. FirstEra'
    BY <1>12, <1>14, <1>15, <1>19, <1>21, <1>22 DEF FirstEra
  <1> QED
    BY <1>12, <1>13, <1>23

\* is_ready, a poll that succeeds and a commit leave the hosts alone.
LEMMA FirstEraLogs ==
  ASSUME OneDeath, EInv, pc[FirstMaster] = "master", NEW n \in Node,
         BecomeReady(n) \/ PollOK(n) \/ Commit(n)
  PROVE  Frame' /\ FirstEra' /\ pc'[FirstMaster] = "master"
  <1>1. TypeInv /\ Frame /\ FirstEra
    BY DEF EInv
  <1>2. /\ pc \in [Node -> Steps] /\ log \in [Node -> Seq(1..MaxCommit)]
        /\ fails \in [Node -> 0..(FailTwo + 1)]
    BY <1>1, TypeParts DEF Rest
  <1>3. FirstMaster \in Node /\ \A s \in Slaves : s \in Node /\ s # FirstMaster
    BY SlaveFacts
  <1>4. UNCHANGED <<ismaster, follows, cutoff, remotes, todo, sent, cut, clock, crashes>>
    BY DEF BecomeReady, PollOK, Commit
  <1>5. \A s \in Slaves : Sent(s)' <=> Sent(s)
    BY <1>4 DEF Sent
  <1>6. CASE BecomeReady(n)
    <2>1. n \in Slaves /\ follows[n] = FirstMaster
      BY <1>1, <1>3, <1>6, SlaveFacts DEF BecomeReady, FirstEra
    <2>2. Reaches(n, FirstMaster)
      BY <1>3, FirstEraFacts
    <2>3. SameLog(n, FirstMaster)
      <3>1. Begins(log[n], log[FirstMaster]) /\ Len(log[n]) \in Nat /\ Len(log[FirstMaster]) \in Nat
        BY <1>1, <1>3, <2>1, LogFacts DEF FirstEra
      <3> QED
        BY <3>1 DEF Begins, SameLog
    <2>4. pc' = [pc EXCEPT ![n] = "loop"] /\ log' = log /\ fails' = fails
      BY <1>6, <2>1, <2>2, <2>3 DEF BecomeReady
    <2>5. pc[n] = "registered"
      BY <1>6 DEF BecomeReady
    <2>6. /\ \A r \in Node : pc'[r] = IF r = n THEN "loop" ELSE pc[r]
          /\ Members' = Members
      BY <1>2, <1>3, <2>4, <2>5 DEF Members
    <2>7. Frame'
      BY <1>1, <1>3, <1>4, <2>1, <2>5, <2>6 DEF Frame
    <2>8. FirstEra'
      <3>1. /\ clock' > 0 /\ fails'[FirstMaster] = 0
            /\ \A m \in Members' \cup {FirstMaster} : Members' \subseteq DOMAIN remotes'[m]
        BY <1>1, <1>4, <2>4, <2>6 DEF FirstEra
      <3>2. \A m \in Node : DOMAIN remotes'[m] \subseteq {s \in Slaves : pc'[s] # "new"}
        BY <1>1, <1>3, <1>4, <2>6 DEF FirstEra
      <3>3. \A s \in Slaves :
               /\ pc'[s] \in {"new", "registered", "loop", "down"}
               /\ follows'[s] = FirstMaster
               /\ fails'[s] = 0 /\ ~Sent(s)'
               /\ Begins(log'[s], log'[FirstMaster])
        BY <1>1, <1>3, <1>4, <1>5, <2>4, <2>6 DEF FirstEra
      <3> QED
        BY <3>1, <3>2, <3>3 DEF FirstEra
    <2> QED
      BY <1>3, <2>1, <2>6, <2>7, <2>8
  <1>7. CASE PollOK(n) \/ Commit(n)
    <2>1. pc' = pc
      BY <1>7 DEF PollOK, Commit
    <2>2. Members' = Members
      BY <2>1 DEF Members
    <2>3. /\ \A s \in Slaves : fails'[s] = 0 /\ Begins(log'[s], log'[FirstMaster])
          /\ fails'[FirstMaster] = 0
      <3>1. CASE PollOK(n)
        <4>1. n \in Slaves /\ follows[n] = FirstMaster
          BY <1>1, <1>3, <3>1, SlaveFacts DEF PollOK, FirstEra
        <4>2. log' = [log EXCEPT ![n] = log[FirstMaster]] /\ fails' = [fails EXCEPT ![n] = 0]
          BY <3>1, <4>1, FirstEraFacts DEF PollOK
        <4>3. /\ \A s \in Slaves : log'[s] = IF s = n THEN log[FirstMaster] ELSE log[s]
              /\ log'[FirstMaster] = log[FirstMaster]
              /\ \A s \in Node : fails'[s] = IF s = n THEN 0 ELSE fails[s]
          BY <1>2, <1>3, <4>1, <4>2
        <4>4. Begins(log[FirstMaster], log[FirstMaster])
          BY <1>2, <1>3, BeginsItself
        <4> QED
          BY <1>1, <1>3, <4>3, <4>4 DEF FirstEra
      <3>2. CASE Commit(n)
        <4>1. n = FirstMaster
          BY <3>2, FirstEraFacts DEF Commit
        <4>2. /\ \A s \in Slaves : log'[s] = log[s]
              /\ log'[FirstMaster] = Append(log[FirstMaster], commits + 1)
              /\ fails' = fails
          BY <1>2, <1>3, <3>2, <4>1 DEF Commit
        <4>3. commits + 1 \in 1..MaxCommit
          <5>1. commits \in 0..MaxCommit /\ commits < MaxCommit
            BY <1>1, <3>2, TypeParts DEF Rest, Commit
          <5> QED
            BY <5>1, Bounds
        <4>4. \A s \in Slaves : Begins(log[s], Append(log[FirstMaster], commits + 1))
          BY <1>1, <1>2, <1>3, <4>3, BeginsMore DEF FirstEra
        <4> QED
          BY <1>1, <4>2, <4>4 DEF FirstEra
      <3> QED
        BY <1>7, <3>1, <3>2
    <2>4. Frame'
      BY <1>1, <1>4, <2>1 DEF Frame
    <2>5. FirstEra'
      BY <1>1, <1>4, <1>5, <2>1, <2>2, <2>3 DEF FirstEra
    <2> QED
      BY <2>1, <2>4, <2>5
  <1> QED
    BY <1>6, <1>7

\* A slave dies: it was the one death.
LEMMA FirstEraSlaveDies ==
  ASSUME OneDeath, EInv, pc[FirstMaster] = "master", NEW n \in Slaves, Crash(n)
  PROVE  Frame' /\ FirstEra' /\ pc'[FirstMaster] = "master"
  <1>1. TypeInv /\ Frame /\ FirstEra
    BY DEF EInv
  <1>2. /\ pc \in [Node -> Steps] /\ ismaster \in [Node -> BOOLEAN]
        /\ crashes \in 0..MaxCrash
    BY <1>1, TypeParts DEF Rest
  <1>3. FirstMaster \in Node /\ \A s \in Slaves : s \in Node /\ s # FirstMaster
    BY SlaveFacts
  <1>4. /\ pc' = [pc EXCEPT ![n] = "down"] /\ ismaster' = [ismaster EXCEPT ![n] = FALSE]
        /\ crashes' = crashes + 1 /\ crashes < MaxCrash
        /\ UNCHANGED <<follows, log, fails, cutoff, remotes, sent, cut, clock>>
    BY DEF Crash
  <1>5. crashes' = 1
    <2>1. crashes = 0
      BY <1>2, <1>4, Bounds DEF OneDeath
    <2> QED
      BY <1>4, <2>1
  <1>6. /\ \A r \in Node : pc'[r] = IF r = n THEN "down" ELSE pc[r]
        /\ \A r \in Node : ismaster'[r] = IF r = n THEN FALSE ELSE ismaster[r]
        /\ Members' = Members \ {n}
    BY <1>2, <1>3, <1>4 DEF Members
  <1>7. pc[n] # "master"
    BY <1>1 DEF FirstEra
  <1>8. Frame'
    BY <1>1, <1>3, <1>4, <1>5, <1>6, <1>7 DEF Frame
  <1>9. \A s \in Slaves : Sent(s)' <=> Sent(s)
    BY <1>4 DEF Sent
  <1>10. FirstEra'
    <2>1. \A s \in Slaves :
            /\ pc'[s] \in {"new", "registered", "loop", "down"}
            /\ follows'[s] = FirstMaster
            /\ fails'[s] = 0 /\ ~Sent(s)'
            /\ Begins(log'[s], log'[FirstMaster])
      BY <1>1, <1>3, <1>4, <1>6, <1>9 DEF FirstEra
    <2>2. \A m \in Node :
            DOMAIN remotes'[m] \subseteq {s \in Slaves : pc'[s] # "new"}
      BY <1>1, <1>3, <1>4, <1>6 DEF FirstEra
    <2>3. /\ clock' > 0 /\ fails'[FirstMaster] = 0
          /\ \A m \in Members' \cup {FirstMaster} : Members' \subseteq DOMAIN remotes'[m]
      BY <1>1, <1>4, <1>6 DEF FirstEra
    <2> QED
      BY <2>1, <2>2, <2>3 DEF FirstEra
  <1> QED
    BY <1>3, <1>6, <1>8, <1>10

\* The master dies: every slave that runs polls, none is down, and what each has
\* is where the log of the longest of them begins.
LEMMA MasterDies ==
  ASSUME OneDeath, EInv, pc[FirstMaster] = "master", Crash(FirstMaster)
  PROVE  Frame' /\ SecondEra' /\ pc'[FirstMaster] = "down"
  <1>1. TypeInv /\ Frame /\ FirstEra
    BY DEF EInv
  <1>2. /\ pc \in [Node -> Steps] /\ ismaster \in [Node -> BOOLEAN]
        /\ crashes \in 0..MaxCrash
    BY <1>1, TypeParts DEF Rest
  <1>3. FirstMaster \in Node /\ \A s \in Slaves : s \in Node /\ s # FirstMaster
    BY SlaveFacts
  <1>4. /\ pc' = [pc EXCEPT ![FirstMaster] = "down"]
        /\ ismaster' = [ismaster EXCEPT ![FirstMaster] = FALSE]
        /\ crashes' = crashes + 1 /\ crashes < MaxCrash
        /\ UNCHANGED <<follows, log, fails, cutoff, remotes, sent, cut, clock>>
        /\ \A r \in Node : pc[r] # "registered"
    BY DEF Crash, OneDeath, Starting
  <1>5. crashes = 0 /\ crashes' = 1
    <2>1. crashes = 0
      BY <1>2, <1>4, Bounds DEF OneDeath
    <2> QED
      BY <1>4, <2>1
  <1>6. /\ \A r \in Node : pc'[r] = IF r = FirstMaster THEN "down" ELSE pc[r]
        /\ \A r \in Node : ismaster'[r] = IF r = FirstMaster THEN FALSE ELSE ismaster[r]
        /\ Members' = Members
    BY <1>2, <1>3, <1>4 DEF Members
  <1>7. Frame'
    <2>1. cut' = {} /\ \A n \in Node : pc'[n] = "down" => crashes' = 1
      BY <1>1, <1>4, <1>5 DEF Frame
    <2>2. \A n \in Node : ismaster'[n] <=> pc'[n] = "master"
      BY <1>1, <1>6 DEF Frame
    <2>3. pc'[FirstMaster] \in {"master", "down"}
      BY <1>3, <1>6
    <2>4. \A s \in Slaves : pc'[s] = "new" => follows'[s] = FirstMaster
      BY <1>1, <1>3, <1>4, <1>6 DEF Frame
    <2> QED
      BY <2>1, <2>2, <2>3, <2>4 DEF Frame
  <1>8. \A s \in Slaves : pc[s] \in {"new", "loop"}
    BY <1>1, <1>3, <1>4, <1>5 DEF FirstEra, Frame
  <1>9. /\ \A s \in Members : s \in Slaves /\ s \in Node /\ pc'[s] = "loop" /\ pc[s] = "loop"
        /\ Members = {s \in Slaves : pc[s] # "new"}
    BY <1>3, <1>6, <1>8 DEF Members
  <1>10. \A s \in Members : ~Sent(s)' /\ ~Sent(s)
    BY <1>1, <1>4, <1>9 DEF FirstEra, Sent
  <1>11. \A s \in Members : Open(s)' /\ follows'[s] = FirstMaster
    BY <1>1, <1>4, <1>6, <1>9 DEF FirstEra, Open
  <1>12. Polling'
    <2>1. \A s \in Members' : fails'[s] = 0
      BY <1>1, <1>4, <1>6, <1>9 DEF FirstEra
    <2> QED
      BY <1>6, <1>9, <1>10, <2>1, Bounds DEF Polling
  <1>13. Decided'
    BY <1>6, <1>11 DEF Decided
  <1>14. Heard'
    <2>1. \A x \in Members : DOMAIN remotes'[x] = Members
      BY <1>1, <1>4, <1>9 DEF FirstEra
    <2>2. \A x, r \in Members : ~Told(r, x)'
      BY <1>10 DEF Told
    <2> QED
      BY <1>6, <2>1, <2>2 DEF Heard
  <1>15. InTime'
    BY <1>6, <1>10 DEF InTime
  <1>16. MostIsKept'
    <2>1. \A s \in Members : Length(s)' = Length(s) /\ Length(s) = Len(log[s])
      BY <1>4, <1>10 DEF Length
    <2>2. \A w : Longest(w)' <=> Longest(w)
      BY <1>6, <2>1, LongestStays
    <2>3. Members # {} => \E w \in Members : Longest(w)
      BY <1>1, LongestExists
    <2>4. ASSUME NEW w \in Members, Longest(w), NEW s \in Members
          PROVE  Begins(log[s], log[w])
      <3>1. /\ log[s] \in Seq(1..MaxCommit) /\ log[w] \in Seq(1..MaxCommit)
            /\ log[FirstMaster] \in Seq(1..MaxCommit)
            /\ Len(log[s]) \in Nat /\ Len(log[w]) \in Nat
        BY <1>1, <1>3, <1>9, LogFacts
      <3>2. Len(log[s]) <= Len(log[w])
        BY <2>1, <2>4, <3>1 DEF Longest
      <3>3. Begins(log[s], log[FirstMaster]) /\ Begins(log[w], log[FirstMaster])
        BY <1>1, <1>9 DEF FirstEra
      <3> QED
        BY <3>1, <3>2, <3>3, ShorterBegins
    <2>5. \A w \in Members : ~ismaster'[w]
      BY <1>1, <1>3, <1>6, <1>9 DEF Frame
    <2> QED
      BY <1>4, <1>6, <2>2, <2>3, <2>4, <2>5 DEF MostIsKept
  <1>17. \A s \in Slaves : pc'[s] \in {"new", "loop", "tell", "register", "master"}
    BY <1>3, <1>6, <1>8
  <1>18. Paced'
    <2>1. \A n \in Node : fails'[n] = 0
      BY <1>1, <1>4, SlaveFacts DEF FirstEra
    <2>2. clock' > 0 /\ clock' \in Nat /\ Skew \in Nat
      BY <1>1, <1>4, TypeParts, Bounds DEF FirstEra, Rest
    <2>3. \A s \in Members : sent'[s].ts <= clock' + Offset[s]
      <3>1. \A s \in Members : sent'[s].ts = 0
        BY <1>1, <1>4, <1>9, <1>10, LogFacts DEF Sent
      <3>2. \A s \in Members : Offset[s] \in Nat
        BY <1>9, Bounds
      <3> QED
        BY <2>2, <3>1, <3>2
    <2>4. \A s, r \in Members : fails'[s] <= fails'[r] + Skew /\ ~(fails'[r] > 0)
      BY <1>9, <2>1, <2>2
    <2> QED
      BY <1>6, <2>1, <2>2, <2>3, <2>4 DEF Paced
  <1>19. SecondEra'
    BY <1>12, <1>13, <1>14, <1>15, <1>16, <1>17, <1>18 DEF SecondEra
  <1> QED
    BY <1>3, <1>6, <1>7, <1>19

\* Every step of a run whose first master lives: no poll fails, so nobody
\* elects.
LEMMA FirstEraNext ==
  ASSUME OneDeath, EInv, Next, pc[FirstMaster] = "master"
  PROVE  EInv'
  <1>1. TypeInv /\ Frame /\ FirstEra /\ TypeInv'
    BY NextType DEF EInv
  <1> DEFINE Goal == /\ Frame'
                     /\ \/ pc'[FirstMaster] = "master" /\ FirstEra'
                        \/ pc'[FirstMaster] = "down" /\ SecondEra'
  <1>2. Goal => EInv'
    BY <1>1 DEF EInv
  <1>3. ASSUME NEW n \in Node, Commit(n) \/ Register(n) \/ BecomeReady(n) \/ PollOK(n) PROVE Goal
    BY <1>3, FirstEraRegister, FirstEraLogs
  <1>4. ASSUME NEW n \in Node, Crash(n) PROVE Goal
    BY <1>4, FirstEraSlaveDies, MasterDies, SlaveFacts
  <1>5. ASSUME NEW n \in Node PROVE ~(PollFails(n) \/ Elect(n))
    <2>1. SUFFICES ASSUME pc[n] = "loop", Failing(n) PROVE FALSE
      BY DEF PollFails, Elect
    <2>2. n \in Slaves /\ follows[n] = FirstMaster
      BY <1>1, <2>1, SlaveFacts DEF FirstEra
    <2>3. Reaches(n, FirstMaster) /\ Len(log[n]) <= Len(log[FirstMaster])
      BY <2>2, SlaveFacts, FirstEraFacts
    <2>4. Len(log[n]) \in Nat /\ Len(log[FirstMaster]) \in Nat
      BY <1>1, LogFacts, SlaveFacts
    <2> QED
      BY <2>1, <2>2, <2>3, <2>4 DEF Failing
  <1>6. ASSUME NEW n \in Node PROVE ~(Tell(n) \/ Join(n) \/ JoinFails(n))
    BY <1>1, SlaveFacts DEF Tell, Join, JoinFails, FirstEra
  <1>7. ASSUME NEW n \in Node, NEW t \in Node PROVE ~(Cut(n, t) \/ Return(n, t))
    <2>1. cut = {} /\ Cardinality(cut) = 0
      BY <1>1, FS_EmptySet DEF Frame
    <2>2. returns \in 0..MaxReturn /\ MaxReturn = 0 /\ MaxCut = 0
      BY <1>1, TypeParts DEF Rest, OneDeath
    <2> QED
      BY <2>1, <2>2 DEF Cut, Return
  <1>8. ASSUME TimePasses PROVE Goal
    <2>1. /\ UNCHANGED <<pc, ismaster, follows, log, fails, remotes, sent, cut, crashes>>
          /\ clock' = clock + 1 /\ clock \in Nat
      BY <1>1, <1>8, TypeParts DEF TimePasses, Rest
    <2>2. /\ Members' = Members
          /\ \A s \in Slaves : Sent(s)' <=> Sent(s)
      BY <2>1 DEF Members, Sent
    <2>3. Frame'
      BY <1>1, <2>1 DEF Frame
    <2>4. FirstEra'
      BY <1>1, <2>1, <2>2 DEF FirstEra
    <2> QED
      BY <2>1, <2>3, <2>4
  <1> HIDE DEF Goal
  <1> QED
    BY <1>2, <1>3, <1>4, <1>5, <1>6, <1>7, <1>8 DEF Next, SyncStep

-----------------------------------------------------------------------------
(* When it has died.                                                       *)

\* What the steps of the second era rely on: all slaves that run can call each
\* other, polls of the first master fail, and those of a slave that has elected
\* never do.
LEMMA SecondEraFacts ==
  ASSUME EInv, pc[FirstMaster] = "down"
  PROVE  /\ TypeInv /\ Frame /\ SecondEra
         /\ \A s \in Members : /\ s \in Slaves /\ s \in Node /\ s # FirstMaster
                               /\ pc[s] \in {"loop", "tell", "register", "master"}
         /\ \A n \in Node : pc[n] \notin {"new", "down"} => n \in Members
         /\ \A n, t \in Node : Reaches(n, t) <=> t \in Members
         /\ \A n \in Members : pc[n] = "loop" => (Failing(n) <=> Open(n))
         /\ \A n \in Members : pc[n] = "tell" => Open(n) /\ Failing(n)
  <1>1. TypeInv /\ Frame /\ SecondEra
    BY DEF EInv
  <1>2. \A s \in Members : /\ s \in Slaves /\ s \in Node /\ s # FirstMaster
                           /\ pc[s] \in {"loop", "tell", "register", "master"}
    BY <1>1, SlaveFacts DEF SecondEra, Members
  <1>3. \A n \in Node : pc[n] \notin {"new", "down"} => n \in Members
    BY SlaveFacts DEF Members
  <1>4. \A n, t \in Node : Reaches(n, t) <=> t \in Members
    BY <1>1, <1>2, <1>3 DEF Reaches, Frame
  <1>5. FirstMaster \in Node /\ FirstMaster \notin Members
    BY SlaveFacts
  <1>6. \A n \in Members : Open(n) => Failing(n)
    BY <1>2, <1>4, <1>5 DEF Open, Failing
  <1>7. ASSUME NEW n \in Members, pc[n] = "loop", ~Open(n) PROVE ~Failing(n)
    <2>1. Longest(follows[n]) /\ follows[n] \in Members
      BY <1>1, <1>7 DEF SecondEra, Decided, Longest
    <2>2. Begins(log[n], log[follows[n]])
      BY <1>1, <2>1 DEF SecondEra, MostIsKept
    <2>3. Len(log[n]) <= Len(log[follows[n]]) /\ Len(log[n]) \in Nat /\ Len(log[follows[n]]) \in Nat
      BY <1>1, <1>2, <2>1, <2>2, LogFacts DEF Begins
    <2> QED
      BY <1>2, <1>4, <2>1, <2>3 DEF Failing
  <1>8. \A n \in Members : pc[n] = "tell" => Open(n)
    BY <1>1 DEF SecondEra, Decided
  <1> QED
    BY <1>1, <1>2, <1>3, <1>4, <1>6, <1>7, <1>8

\* When a slave begins HostUpdate, all that have not elected have failed once;
\* when it begins MasterUpdate, they have ended HostUpdate.
LEMMA InStepFacts ==
  ASSUME OneDeath, EInv, pc[FirstMaster] = "down", NEW n \in Members, Open(n), InStep(n)
  PROVE  /\ fails[n] = FailOne - 1 => \A r \in Members : Open(r) => fails[r] > 0
         /\ fails[n] = FailTwo - 1 => \A r \in Members : Open(r) => fails[r] > FailOne
  <1>1. TypeInv /\ \A s \in Members : s \in Node
    BY SecondEraFacts
  <1>2. \A r \in Members : fails[r] \in Nat
    <2>1. fails \in [Node -> 0..(FailTwo + 1)]
      BY <1>1, TypeParts DEF Rest
    <2> QED
      BY <1>1, <2>1
  <1>3. ASSUME NEW r \in Members, Open(r) PROVE fails[n] - fails[r] < Skew
    <2>1. /\ Failing(r) /\ pc[r] \in {"loop", "tell"}
          /\ follows[r] = FirstMaster /\ follows[n] = FirstMaster
      BY <1>3, SecondEraFacts DEF Open
    <2>2. fails[r] < FailTwo
      BY <1>3, SecondEraFacts DEF SecondEra, Polling
    <2> QED
      BY <1>1, <2>1, <2>2 DEF InStep
  <1> QED
    BY <1>2, <1>3, ConstantsOfOneDeath

\* A client writes to the elected master. The length it was elected by is what
\* it told before.
LEMMA SecondEraCommit ==
  ASSUME OneDeath, EInv, pc[FirstMaster] = "down", NEW n \in Node, Commit(n)
  PROVE  Frame' /\ SecondEra' /\ pc'[FirstMaster] = "down"
  <1>1. TypeInv /\ Frame /\ SecondEra
    BY SecondEraFacts
  <1>2. log \in [Node -> Seq(1..MaxCommit)] /\ \A s \in Members : s \in Node
    BY <1>1, TypeParts, SecondEraFacts
  <1>3. pc[n] = "master" /\ n \in Members /\ ~Open(n) /\ Longest(n)
    BY <1>1, SecondEraFacts DEF Commit, Open, SecondEra, Decided
  <1>4. /\ log' = [log EXCEPT ![n] = Append(log[n], commits + 1)]
        /\ UNCHANGED <<pc, ismaster, follows, fails, cutoff, remotes, todo, sent, choice, cut,
                       clock, crashes>>
    BY DEF Commit
  <1>5. \A s \in Members : log'[s] = IF s = n THEN Append(log[n], commits + 1) ELSE log[s]
    BY <1>2, <1>4
  <1>6. /\ Members' = Members
        /\ \A s \in Members : (Open(s)' <=> Open(s)) /\ (Sent(s)' <=> Sent(s))
        /\ \A s, x \in Members : Told(s, x)' <=> Told(s, x)
    BY <1>4 DEF Members, Open, Sent, Told
  <1>7. \A s \in Members : Length(s)' = Length(s)
    BY <1>1, <1>3, <1>4, <1>5 DEF SecondEra, Decided, Length, Sent
  <1>8. \A w : Longest(w)' <=> Longest(w)
    BY <1>6, <1>7, LongestStays
  <1>9. Polling' /\ Paced'
    BY <1>1, <1>3, <1>4, <1>5, <1>6 DEF SecondEra, Polling, Paced
  <1>10. Decided'
    BY <1>1, <1>4, <1>6, <1>8 DEF SecondEra, Decided
  <1>11. Heard' /\ InTime'
    BY <1>1, <1>4, <1>6 DEF SecondEra, Heard, InTime
  <1>12. MostIsKept'
    <2>1. commits + 1 \in 1..MaxCommit
      <3>1. commits \in 0..MaxCommit /\ commits < MaxCommit
        BY <1>1, TypeParts DEF Rest, Commit
      <3> QED
        BY <3>1, Bounds
    <2>2. Append(log[n], commits + 1) \in Seq(1..MaxCommit)
      BY <1>2, <2>1, AppendProperties
    <2>3. \A s \in Members : Begins(log[s], log[n])
      BY <1>1, <1>3 DEF SecondEra, MostIsKept
    <2>4. \A s \in Members : Begins(log[s], Append(log[n], commits + 1))
      BY <1>2, <2>1, <2>3, BeginsMore
    <2>5. Begins(Append(log[n], commits + 1), Append(log[n], commits + 1))
      BY <2>2, BeginsItself
    <2>6. \A s \in Members : Begins(log'[s], log'[n])
      BY <1>3, <1>5, <2>4, <2>5
    <2>7. \A w \in Members : Longest(w) => w = n
      BY <1>1, <1>3, LongestIsOne
    <2> QED
      BY <1>1, <1>3, <1>4, <1>6, <1>8, <2>6, <2>7 DEF SecondEra, MostIsKept
  <1>13. Frame'
    BY <1>1, <1>4 DEF Frame
  <1> QED
    BY <1>1, <1>4, <1>9, <1>10, <1>11, <1>12, <1>13 DEF SecondEra

\* A slave that has elected another polls it with success, before or after that
\* becomes a master, and then has the same log.
LEMMA SecondEraPollOK ==
  ASSUME OneDeath, EInv, pc[FirstMaster] = "down", NEW n \in Node, PollOK(n)
  PROVE  Frame' /\ SecondEra' /\ pc'[FirstMaster] = "down"
  <1> DEFINE w == follows[n]
  <1>1. TypeInv /\ Frame /\ SecondEra
    BY SecondEraFacts
  <1>2. /\ log \in [Node -> Seq(1..MaxCommit)] /\ \A s \in Members : s \in Node
        /\ fails \in [Node -> 0..(FailTwo + 1)]
    BY <1>1, TypeParts, SecondEraFacts DEF Rest
  <1>3. n \in Members /\ pc[n] = "loop" /\ ~Failing(n) /\ ~Open(n)
    <2>1. n \in Members /\ pc[n] = "loop"
      BY SecondEraFacts DEF PollOK
    <2>2. Len(log[n]) \in Nat /\ w \in Node
      BY <1>1, LogFacts, TypeParts DEF Rest
    <2>3. Len(log[w]) \in Nat
      BY <1>1, <2>2, LogFacts
    <2>4. ~Failing(n)
      BY <2>2, <2>3 DEF PollOK, Failing
    <2> QED
      BY <2>1, <2>4, SecondEraFacts
  <1>4. Longest(w) /\ w # n /\ w \in Members
    BY <1>1, <1>3 DEF SecondEra, Decided, Longest
  <1>5. \A s \in Members : Begins(log[s], log[w])
    BY <1>1, <1>4 DEF SecondEra, MostIsKept
  <1>6. CaughtUp(n, w) = log[w]
    BY <1>2, <1>3, <1>4, <1>5, CaughtUpIsTheOther DEF CaughtUp
  <1>7. /\ log' = [log EXCEPT ![n] = log[w]] /\ fails' = [fails EXCEPT ![n] = 0]
        /\ UNCHANGED <<pc, ismaster, follows, cutoff, remotes, todo, sent, choice, cut, clock,
                       crashes>>
    BY <1>6 DEF PollOK
  <1>8. \A s \in Members : /\ log'[s] = IF s = n THEN log[w] ELSE log[s]
                           /\ fails'[s] = IF s = n THEN 0 ELSE fails[s]
    BY <1>2, <1>7
  <1>9. /\ Members' = Members
        /\ \A s \in Members : (Open(s)' <=> Open(s)) /\ (Sent(s)' <=> Sent(s))
        /\ \A s, x \in Members : Told(s, x)' <=> Told(s, x)
    BY <1>7 DEF Members, Open, Sent, Told
  <1>10. \A s \in Members : Length(s)' = Length(s)
    BY <1>1, <1>3, <1>7, <1>8 DEF SecondEra, Decided, Length, Sent
  <1>11. \A v : Longest(v)' <=> Longest(v)
    BY <1>9, <1>10, LongestStays
  <1> HIDE DEF w
  <1>12. Polling'
    BY <1>1, <1>3, <1>7, <1>8, <1>9 DEF SecondEra, Polling
  <1>13. Decided'
    BY <1>1, <1>3, <1>7, <1>8, <1>9, <1>11 DEF SecondEra, Decided
  <1>14. Heard'
    BY <1>1, <1>7, <1>9 DEF SecondEra, Heard
  <1>15. InTime'
    BY <1>1, <1>3, <1>7, <1>8, <1>9 DEF SecondEra, InTime
  <1>16. MostIsKept'
    <2>1. \A s \in Members : Begins(log'[s], log'[w])
      BY <1>4, <1>5, <1>8
    <2>2. \A v \in Members : Longest(v) => v = w
      BY <1>1, <1>4, LongestIsOne
    <2> QED
      BY <1>1, <1>4, <1>7, <1>9, <1>11, <2>1, <2>2 DEF SecondEra, MostIsKept
  <1>17. Frame'
    BY <1>1, <1>7 DEF Frame
  <1>18. Paced'
    <2>1. \A s \in Node \ Members : fails'[s] = 0
      BY <1>1, <1>2, <1>3, <1>7 DEF SecondEra, Paced
    <2>2. \A s \in Members : Open(s) => fails'[s] = fails[s]
      BY <1>3, <1>8
    <2> QED
      BY <1>1, <1>7, <1>9, <2>1, <2>2 DEF SecondEra, Paced
  <1> QED
    BY <1>1, <1>7, <1>12, <1>13, <1>14, <1>15, <1>16, <1>17, <1>18 DEF SecondEra

\* A poll of the first master fails. When the slave that leads fails again, an
\* interval has passed; when another does, one that leads has failed as often.
LEMMA PollFailsPaced ==
  ASSUME OneDeath, EInv, pc[FirstMaster] = "down", NEW n \in Node, PollFails(n)
  PROVE  Paced' /\ clock' \in Nat
  <1>1. TypeInv /\ SecondEra /\ \A s \in Members : s \in Node /\ s # FirstMaster
    BY SecondEraFacts
  <1>2. /\ pc \in [Node -> Steps] /\ fails \in [Node -> 0..(FailTwo + 1)] /\ cutoff \in [Node -> Nat]
        /\ sent \in [Node -> Info] /\ clock \in Nat
    BY <1>1, TypeParts DEF Rest
  <1>3. n \in Members /\ Open(n) /\ InStep(n)
    BY SecondEraFacts DEF PollFails
  <1>4. /\ pc' = pc \/ pc' = [pc EXCEPT ![n] = "tell"]
        /\ pc[n] = "loop" /\ follows' = follows
        /\ fails' = [fails EXCEPT ![n] = fails[n] + 1]
        /\ clock' = IF Leads(n) THEN clock + 1 ELSE clock
        /\ sent' = sent \/ sent' = [sent EXCEPT ![n] = Self(n, clock')]
    BY DEF PollFails
  <1>5. /\ Members' = Members
        /\ \A s \in Members : Open(s)' <=> Open(s)
    <2>1. \A s \in Node : pc'[s] = pc[s] \/ (s = n /\ pc'[s] = "tell")
      BY <1>2, <1>4
    <2>2. Members' = Members
      BY <1>3, <1>4, <2>1, SlaveFacts DEF Members
    <2> QED
      BY <1>1, <1>3, <1>4, <2>1, <2>2 DEF Open
  <1>6. /\ \A s \in Node : fails'[s] = IF s = n THEN fails[n] + 1 ELSE fails[s]
        /\ \A s \in Node : fails[s] \in Nat /\ cutoff[s] \in Nat /\ Offset[s] \in Nat
        /\ Skew \in Nat /\ 0 < Skew /\ FailOne \in Nat
    BY <1>2, <1>4, Bounds
  <1>7. clock' \in Nat /\ clock <= clock' /\ clock' > 0
    BY <1>1, <1>2, <1>4 DEF SecondEra, Paced
  <1>8. ASSUME fails[n] < FailOne
        PROVE  clock' = clock + 1 \/ \E x \in Members : Open(x) /\ fails[x] > fails[n]
    <2>1. SUFFICES ASSUME ~Leads(n) PROVE \E x \in Members : Open(x) /\ fails[x] > fails[n]
      BY <1>4
    <2>2. PICK x \in Node : follows[x] = follows[n] /\ ~(fails[x] <= fails[n])
      BY <2>1 DEF Leads
    <2>3. fails[x] > fails[n] /\ fails[x] # 0
      BY <1>3, <1>6, <2>2
    <2>4. x \in Members
      BY <1>1, <2>3 DEF SecondEra, Paced
    <2>5. Open(x)
      <3>1. ~(fails[n] > FailOne)
        BY <1>6, <1>8
      <3> QED
        BY <1>1, <1>3, <2>4, <3>1 DEF SecondEra, Decided
    <2> QED
      BY <2>3, <2>4, <2>5
  <1>9. ASSUME NEW s \in Members PROVE sent'[s].ts <= clock' + Offset[s]
    <2>1. sent'[s] = sent[s] \/ sent'[s].ts = clock' + Offset[s]
      BY <1>1, <1>2, <1>4 DEF Self
    <2>2. sent[s].ts <= clock + Offset[s] /\ sent[s].ts \in Nat
      BY <1>1, LogFacts DEF SecondEra, Paced
    <2> QED
      BY <1>1, <1>2, <1>6, <1>7, <2>1, <2>2
  <1>10. ASSUME NEW s \in Members, NEW r \in Members, Open(s), Open(r)
         PROVE  /\ fails[s] <= fails[r] + Skew
                /\ fails'[s] <= fails'[r] + Skew
    <2>1. fails[s] <= fails[r] + Skew
      BY <1>1, <1>10 DEF SecondEra, Paced
    <2>2. CASE s = n /\ r # n
      <3>1. Failing(r) /\ pc[r] \in {"loop", "tell"} /\ follows[r] = follows[n] /\ fails[r] < FailTwo
        BY <1>1, <1>3, <1>10, SecondEraFacts DEF Open, SecondEra, Polling
      <3>2. fails[n] - fails[r] < Skew
        BY <1>1, <1>3, <3>1 DEF InStep
      <3> QED
        BY <1>1, <1>6, <2>1, <2>2, <3>2
    <2>3. CASE s # n \/ r = n
      BY <1>1, <1>6, <2>1, <2>3
    <2> QED
      BY <2>1, <2>2, <2>3
  <1>11. ASSUME NEW s \in Members, NEW r \in Members, Open(s), Open(r), fails'[r] > 0,
                NEW k \in 0..FailOne, k <= fails'[s]
         PROVE  cutoff'[r] + k <= clock' + Offset[r] + Skew + 1
    <2>1. CASE r = n /\ fails[n] = 0
      <3>1. PICK late \in {0, 1} : cutoff' = [cutoff EXCEPT ![n] = clock' + Offset[n] + late]
        BY <1>6, <2>1, Bounds DEF PollFails
      <3>2. cutoff'[n] = clock' + Offset[n] + late /\ late <= 1
        BY <1>1, <1>2, <1>3, <3>1
      <3>3. fails'[s] <= Skew
        BY <1>1, <1>3, <1>6, <1>10, <1>11, <2>1
      <3>4. fails'[s] \in Nat /\ Offset[n] \in Nat
        BY <1>1, <1>3, <1>6
      <3> QED
        BY <1>6, <1>7, <1>11, <2>1, <3>2, <3>3, <3>4
    <2>2. CASE ~(r = n /\ fails[n] = 0)
      <3>1. fails[r] > 0 /\ fails[r] \in Nat /\ cutoff[r] \in Nat /\ Offset[r] \in Nat
        BY <1>1, <1>3, <1>6, <1>11, <2>2
      <3>2. cutoff'[r] = cutoff[r]
        <4>1. CASE fails[n] = 0
          BY <1>1, <1>2, <2>2, <4>1, Bounds DEF PollFails
        <4>2. CASE fails[n] # 0
          BY <4>2 DEF PollFails
        <4> QED
          BY <4>1, <4>2
      <3>3. \A x \in Members : Open(x) =>
              \A j \in 0..FailOne : j <= fails[x] => cutoff[r] + j <= clock + Offset[r] + Skew + 1
        BY <1>1, <1>11, <3>1 DEF SecondEra, Paced
      <3>4. CASE \E x \in Members : Open(x) /\ k <= fails[x]
        <4>1. cutoff[r] + k <= clock + Offset[r] + Skew + 1
          BY <3>3, <3>4
        <4> QED
          BY <1>2, <1>6, <1>7, <3>1, <3>2, <4>1
      <3>5. CASE ~\E x \in Members : Open(x) /\ k <= fails[x]
        <4>1. ~(k <= fails[s]) /\ ~(k <= fails[n])
          BY <1>3, <1>11, <3>5
        <4>2. s = n /\ k = fails[n] + 1 /\ fails[n] \in Nat
          BY <1>1, <1>3, <1>6, <1>11, <4>1
        <4>3. fails[n] < FailOne /\ fails[n] \in 0..FailOne
          BY <1>6, <4>2
        <4>4. ~\E x \in Members : Open(x) /\ fails[x] > fails[n]
          BY <1>1, <1>6, <3>5, <4>2
        <4>5. clock' = clock + 1
          BY <1>8, <4>3, <4>4
        <4>6. fails[n] <= fails[n]
          BY <4>2
        <4>7. cutoff[r] + fails[n] <= clock + Offset[r] + Skew + 1
          BY <1>3, <3>3, <4>3, <4>6
        <4> QED
          BY <1>2, <1>6, <3>1, <3>2, <4>2, <4>5, <4>7
      <3> QED
        BY <3>4, <3>5
    <2> QED
      BY <2>1, <2>2
  <1>12. \A s \in Node \ Members : fails'[s] = 0
    BY <1>1, <1>3, <1>6 DEF SecondEra, Paced
  <1> QED
    BY <1>5, <1>7, <1>9, <1>10, <1>11, <1>12 DEF Paced

\* A poll of the first master fails: the first failure sets the cutoff, another
\* begins HostUpdate, in time for every cutoff.
LEMMA SecondEraPollFails ==
  ASSUME OneDeath, ClocksAgree, EInv, pc[FirstMaster] = "down", NEW n \in Node, PollFails(n)
  PROVE  Frame' /\ SecondEra' /\ pc'[FirstMaster] = "down"
  <1>1. TypeInv /\ Frame /\ SecondEra /\ \A s \in Members : s \in Node /\ s # FirstMaster
    BY SecondEraFacts
  <1>2. /\ pc \in [Node -> Steps] /\ fails \in [Node -> 0..(FailTwo + 1)] /\ cutoff \in [Node -> Nat]
        /\ sent \in [Node -> Info] /\ todo \in [Node -> SUBSET Node] /\ clock \in Nat
    BY <1>1, TypeParts DEF Rest
  <1>3. n \in Members /\ pc[n] = "loop" /\ Open(n) /\ InStep(n)
    BY SecondEraFacts DEF PollFails
  <1>4. \A s \in Members : /\ fails[s] \in Nat /\ cutoff[s] \in Nat
                           /\ sent[s].ts \in Nat /\ sent[s].len \in Nat
    BY <1>1, <1>2, LogFacts
  <1>5. /\ fails' = [fails EXCEPT ![n] = fails[n] + 1] /\ fails[n] # FailTwo - 1
        /\ UNCHANGED <<ismaster, follows, log, remotes, choice, cut, crashes>>
    BY DEF PollFails
  <1>6. \A s \in Members : fails'[s] = IF s = n THEN fails[n] + 1 ELSE fails[s]
    BY <1>1, <1>2, <1>5
  <1>7. fails[n] < FailTwo /\ fails'[n] < FailTwo
    <2>1. fails[n] < FailTwo
      BY <1>1, <1>3 DEF SecondEra, Polling
    <2> QED
      BY <1>3, <1>4, <1>5, <1>6, <2>1, Bounds
  <1>8. Paced' /\ clock' \in Nat
    BY PollFailsPaced
  <1>9. CASE fails[n] = 0 /\ UNCHANGED <<pc, todo, sent>>
    <2>1. /\ Members' = Members
          /\ \A s \in Members : (Open(s)' <=> Open(s)) /\ (Sent(s)' <=> Sent(s))
          /\ \A s \in Members : Length(s)' = Length(s)
          /\ \A s, x \in Members : Told(s, x)' <=> Told(s, x)
      BY <1>5, <1>9 DEF Members, Open, Sent, Told, Length
    <2>2. \A v : Longest(v)' <=> Longest(v)
      BY <2>1, LongestStays
    <2>3. \A s \in Members : ~Sent(s)
      BY <1>1, <1>3, <1>9 DEF SecondEra, InTime
    <2>5. Polling'
      <3>1. ASSUME NEW s \in Members, Open(s)
            PROVE  /\ fails'[s] < FailTwo /\ ~(fails'[s] >= FailOne)
                   /\ pc[s] # "tell"
        <4>1. /\ fails[s] < FailTwo /\ ~(fails[s] >= FailOne)
              /\ pc[s] = "tell" => fails[s] = FailOne
          BY <1>1, <2>3, <3>1 DEF SecondEra, Polling
        <4>2. pc[s] # "tell"
          BY <4>1, <1>4, Bounds
        <4>3. CASE s = n
          BY <4>2, <4>3, <1>2, <1>6, <1>7, <1>9, Bounds
        <4>4. CASE s # n
          BY <4>1, <4>2, <4>4, <1>2, <1>4, <1>6, <1>9, Bounds
        <4> QED
          BY <4>3, <4>4
      <3> QED
        BY <1>9, <2>1, <2>3, <3>1 DEF Polling
    <2>6. Decided'
      <3>1. \A r \in Members : fails[r] > FailOne => fails'[r] > FailOne
        BY <1>3, <1>4, <1>6, Bounds
      <3> QED
        BY <1>1, <1>5, <1>9, <2>1, <2>2, <3>1 DEF SecondEra, Decided
    <2>7. Heard'
      BY <1>1, <1>5, <1>9, <2>1 DEF SecondEra, Heard
    <2>8. InTime'
      BY <2>1, <2>3 DEF InTime
    <2>9. MostIsKept'
      BY <1>1, <1>5, <1>9, <2>1, <2>2 DEF SecondEra, MostIsKept
    <2>10. Frame'
      BY <1>1, <1>5, <1>9 DEF Frame
    <2> QED
      BY <1>1, <1>9, <1>8, <2>5, <2>6, <2>7, <2>8, <2>9, <2>10 DEF SecondEra
  <1>10. CASE /\ fails[n] = FailOne - 1
             /\ pc' = [pc EXCEPT ![n] = "tell"]
             /\ todo' = [todo EXCEPT ![n] = DOMAIN remotes[n]]
             /\ sent' = [sent EXCEPT ![n] = Self(n, clock')]
             /\ UNCHANGED cutoff
    <2>1. /\ \A s \in Node : pc'[s] = IF s = n THEN "tell" ELSE pc[s]
          /\ \A s \in Node : sent'[s] = IF s = n THEN Self(n, clock') ELSE sent[s]
          /\ \A s \in Node : todo'[s] = IF s = n THEN Members ELSE todo[s]
      BY <1>1, <1>2, <1>3, <1>10 DEF SecondEra, Heard
    <2>2. fails[n] > 0 /\ ~(fails[n] >= FailOne)
      BY <1>3, <1>4, <1>10, Bounds
    <2>3. ~Sent(n) /\ clock' + Offset[n] > 0 /\ clock' + Offset[n] \in Nat /\ Offset[n] \in Nat
      <3>1. clock' > 0 /\ Offset[n] \in Nat
        BY <1>1, <1>3, <1>8, Bounds DEF Paced
      <3> QED
        BY <1>1, <1>3, <1>8, <2>2, <3>1 DEF SecondEra, Polling
    <2>4. /\ Members' = Members
          /\ \A s \in Members : (Open(s)' <=> Open(s)) /\ (Sent(s)' <=> Sent(s) \/ s = n)
          /\ \A s, x \in Members : Told(s, x)' <=> Told(s, x)
      <3>1. Members' = Members
        BY <1>1, <1>3, <2>1, SlaveFacts DEF Members
      <3>2. \A s \in Members : (Sent(s)' <=> Sent(s) \/ s = n)
        BY <1>1, <2>1, <2>3 DEF Sent, Self
      <3>3. \A s \in Members : Open(s)' <=> Open(s)
        BY <1>1, <1>3, <1>5, <2>1, <3>1 DEF Open
      <3>4. \A s, x \in Members : Told(s, x)' <=> Told(s, x)
        BY <1>1, <1>3, <2>1, <2>3, <3>2 DEF Told
      <3> QED
        BY <3>1, <3>2, <3>3, <3>4
    <2>5. \A s \in Members : Length(s)' = Length(s)
      BY <1>1, <1>5, <2>1, <2>3, <2>4 DEF Length, Self
    <2>6. \A v : Longest(v)' <=> Longest(v)
      BY <2>4, <2>5, LongestStays
    <2>7. Polling'
      <3>1. ASSUME NEW s \in Members, Open(s)
            PROVE  /\ fails'[s] < FailTwo
                   /\ Sent(s)' <=> fails'[s] >= FailOne
                   /\ Sent(s)' => sent'[s].len = Len(log[s])
                   /\ pc'[s] = "tell" => fails'[s] = FailOne
        <4>1. /\ fails[s] < FailTwo
              /\ Sent(s) <=> fails[s] >= FailOne
              /\ Sent(s) => sent[s].len = Len(log[s])
              /\ pc[s] = "tell" => fails[s] = FailOne
          BY <1>1, <3>1 DEF SecondEra, Polling
        <4>2. CASE s = n
          <5>1. fails'[n] = FailOne /\ fails'[n] >= FailOne
            BY <1>3, <1>4, <1>6, <1>10, Bounds
          <5>2. Sent(n)' /\ sent'[n].len = Len(log[n])
            BY <1>1, <1>3, <2>1, <2>4 DEF Self
          <5> QED
            BY <4>1, <4>2, <5>1, <5>2, <1>7, <2>2
        <4>3. CASE s # n
          BY <4>1, <4>3, <1>1, <1>6, <2>1, <2>4
        <4> QED
          BY <4>2, <4>3
      <3> QED
        BY <1>5, <1>10, <2>4, <3>1 DEF Polling
    <2>8. Decided'
      <3>1. \A s \in Members : ~Open(s) => s # n /\ pc'[s] = pc[s] /\ Sent(s)'
        BY <1>1, <1>3, <2>1, <2>4 DEF SecondEra, Decided
      <3>2. \A r \in Members : fails[r] > FailOne => fails'[r] > FailOne
        BY <1>3, <1>4, <1>6, Bounds
      <3> QED
        BY <1>1, <1>5, <2>4, <2>6, <3>1, <3>2 DEF SecondEra, Decided
    <2>9. Heard'
      <3>1. ASSUME NEW x \in Members, NEW r \in Members, Told(r, x)
            PROVE  remotes[x][r].len = sent'[r].len
        <4>1. r # n
          BY <2>3, <3>1 DEF Told
        <4> QED
          BY <1>1, <2>1, <3>1, <4>1 DEF SecondEra, Heard
      <3> QED
        BY <1>1, <1>5, <2>4, <3>1 DEF SecondEra, Heard
    <2>10. InTime'
      <3>1. ASSUME NEW s \in Members, NEW r \in Members, Sent(s)', Open(r)
            PROVE  /\ fails'[r] > 0 /\ cutoff[r] <= sent'[s].ts
                   /\ \A x \in Members : Told(s, x) => remotes[x][s].ts >= cutoff[r]
        <4>1. CASE s = n
          <5>1. fails[r] > 0
            BY <1>3, <1>10, <3>1, InStepFacts
          <5>2. fails'[r] > 0
            BY <5>1, <1>4, <1>6
          <5>3. cutoff[r] <= sent'[n].ts
            <6>1. sent'[n].ts = clock' + Offset[n]
              BY <1>1, <1>3, <2>1 DEF Self
            <6>2. fails'[n] = FailOne /\ FailOne \in 0..FailOne /\ FailOne <= fails'[n]
              BY <1>3, <1>4, <1>6, <1>10, Bounds
            <6>3. Open(n)' /\ Open(r)' /\ n \in Members' /\ r \in Members'
              BY <1>3, <2>4, <3>1
            <6>4. cutoff'[r] + FailOne <= clock' + Offset[r] + Skew + 1
              BY <1>8, <5>2, <6>2, <6>3 DEF Paced
            <6>5. Offset[r] - Offset[n] < FailOne - Skew
              BY <1>1, <1>3 DEF ClocksAgree
            <6>6. /\ cutoff[r] \in Nat /\ Offset[r] \in Nat /\ Offset[n] \in Nat
                  /\ FailOne \in Nat /\ Skew \in Nat /\ cutoff' = cutoff
              BY <1>1, <1>3, <1>4, <1>10, Bounds
            <6> QED
              BY <1>8, <6>1, <6>4, <6>5, <6>6
          <5>4. ~Told(n, n) /\ \A x \in Members : ~Told(n, x)
            BY <2>3 DEF Told
          <5> QED
            BY <4>1, <5>2, <5>3, <5>4
        <4>2. CASE s # n
          <5>1. Sent(s) /\ sent'[s] = sent[s]
            BY <1>1, <2>1, <2>4, <3>1, <4>2
          <5>2. /\ fails[r] > 0 /\ cutoff[r] <= sent[s].ts
                /\ \A x \in Members : Told(s, x) => remotes[x][s].ts >= cutoff[r]
            BY <1>1, <3>1, <5>1 DEF SecondEra, InTime
          <5>3. fails'[r] > 0
            BY <5>2, <1>4, <1>6
          <5> QED
            BY <5>1, <5>2, <5>3
        <4> QED
          BY <4>1, <4>2
      <3> QED
        BY <1>5, <1>10, <2>4, <3>1 DEF InTime
    <2>11. MostIsKept'
      BY <1>1, <1>5, <2>4, <2>6 DEF SecondEra, MostIsKept
    <2>12. /\ pc'[FirstMaster] = "down"
           /\ \A s \in Slaves : pc'[s] \in {"new", "loop", "tell", "register", "master"}
      BY <1>1, <1>3, <2>1, SlaveFacts DEF SecondEra
    <2>13. Frame'
      BY <1>1, <1>3, <1>5, <2>1, <2>12, SlaveFacts DEF Frame
    <2> QED
      BY <1>8, <2>7, <2>8, <2>9, <2>10, <2>11, <2>12, <2>13 DEF SecondEra
  <1>11. CASE fails[n] \notin {0, FailOne - 1} /\ UNCHANGED <<pc, todo, sent, cutoff>>
    <2>1. /\ Members' = Members
          /\ \A s \in Members : (Open(s)' <=> Open(s)) /\ (Sent(s)' <=> Sent(s))
          /\ \A s \in Members : Length(s)' = Length(s)
          /\ \A s, x \in Members : Told(s, x)' <=> Told(s, x)
      BY <1>5, <1>11 DEF Members, Open, Sent, Told, Length
    <2>2. \A v : Longest(v)' <=> Longest(v)
      BY <2>1, LongestStays
    <2>3. /\ fails'[n] > 0 /\ fails[n] > 0 /\ pc[n] # "tell"
          /\ fails'[n] >= FailOne <=> fails[n] >= FailOne
      BY <1>3, <1>4, <1>6, <1>11, Bounds
    <2>4. Polling'
      BY <1>1, <1>3, <1>5, <1>6, <1>7, <1>11, <2>1, <2>3 DEF SecondEra, Polling
    <2>5. Decided'
      <3>1. \A r \in Members : fails[r] > FailOne => fails'[r] > FailOne
        BY <1>3, <1>4, <1>6, Bounds
      <3> QED
        BY <1>1, <1>5, <1>11, <2>1, <2>2, <3>1 DEF SecondEra, Decided
    <2>6. Heard'
      BY <1>1, <1>5, <1>11, <2>1 DEF SecondEra, Heard
    <2>7. InTime'
      BY <1>1, <1>3, <1>5, <1>6, <1>11, <2>1, <2>3 DEF SecondEra, InTime
    <2>8. MostIsKept'
      BY <1>1, <1>5, <1>11, <2>1, <2>2 DEF SecondEra, MostIsKept
    <2>9. Frame'
      BY <1>1, <1>5, <1>11 DEF Frame
    <2> QED
      BY <1>1, <1>11, <1>8, <2>4, <2>5, <2>6, <2>7, <2>8, <2>9 DEF SecondEra
  <1> QED
    BY <1>9, <1>10, <1>11 DEF PollFails

\* HostUpdate: R_SETINFO to one of the hosts, or all of them have been told.
LEMMA SecondEraTell ==
  ASSUME OneDeath, EInv, pc[FirstMaster] = "down", NEW n \in Node, Tell(n)
  PROVE  Frame' /\ SecondEra' /\ pc'[FirstMaster] = "down"
  <1>1. TypeInv /\ Frame /\ SecondEra /\ \A s \in Members : s \in Node /\ s # FirstMaster
    BY SecondEraFacts
  <1>2. /\ pc \in [Node -> Steps] /\ todo \in [Node -> SUBSET Node] /\ DOMAIN remotes = Node
    BY <1>1, TypeParts DEF Rest, HostLists
  <1>3. n \in Members /\ pc[n] = "tell" /\ Open(n) /\ Sent(n)
    <2>1. n \in Members /\ pc[n] = "tell" /\ Open(n)
      BY SecondEraFacts DEF Tell
    <2>2. fails[n] = FailOne
      BY <1>1, <2>1 DEF SecondEra, Polling
    <2>3. fails[n] >= FailOne
      BY <2>2, Bounds
    <2> QED
      BY <1>1, <2>1, <2>3 DEF SecondEra, Polling
  <1>4. UNCHANGED <<ismaster, follows, log, fails, cutoff, sent, choice, cut, clock, crashes>>
    BY DEF Tell
  <1>5. \A s \in Members : Sent(s)' <=> Sent(s)
    BY <1>4 DEF Sent
  <1>6. CASE todo[n] = {} /\ pc' = [pc EXCEPT ![n] = "loop"] /\ UNCHANGED <<todo, remotes>>
    <2>1. \A s \in Node : pc'[s] = IF s = n THEN "loop" ELSE pc[s]
      BY <1>2, <1>6
    <2>2. Members' = Members
      BY <1>1, <1>3, <2>1, SlaveFacts DEF Members
    <2>3. /\ \A s \in Members : (Open(s)' <=> Open(s)) /\ Length(s)' = Length(s)
          /\ \A s, x \in Members : Told(s, x)' <=> Told(s, x)
      BY <1>1, <1>3, <1>4, <1>5, <1>6, <2>1, <2>2 DEF Open, Told, Length
    <2>4. \A v : Longest(v)' <=> Longest(v)
      BY <2>2, <2>3, LongestStays
    <2>5. Polling'
      BY <1>1, <1>4, <1>5, <2>1, <2>2, <2>3 DEF SecondEra, Polling
    <2>6. Decided'
      <3>1. \A s \in Members : ~Open(s) => pc'[s] = pc[s]
        BY <1>1, <1>3, <2>1
      <3> QED
        BY <1>1, <1>4, <1>5, <2>2, <2>3, <2>4, <3>1 DEF SecondEra, Decided
    <2>7. Heard' /\ InTime' /\ Paced'
      BY <1>1, <1>4, <1>5, <1>6, <2>2, <2>3 DEF SecondEra, Heard, InTime, Paced
    <2>8. MostIsKept'
      BY <1>1, <1>4, <2>2, <2>3, <2>4 DEF SecondEra, MostIsKept
    <2>9. /\ pc'[FirstMaster] = "down"
          /\ \A s \in Slaves : pc'[s] \in {"new", "loop", "tell", "register", "master"}
      BY <1>1, <1>3, <2>1, SlaveFacts DEF SecondEra
    <2>10. Frame'
      BY <1>1, <1>3, <1>4, <2>1, <2>9, SlaveFacts DEF Frame
    <2> QED
      BY <2>5, <2>6, <2>7, <2>8, <2>9, <2>10 DEF SecondEra
  <1>7. ASSUME NEW r \in todo[n],
               todo' = [todo EXCEPT ![n] = todo[n] \ {r}],
               remotes' = IF Reaches(n, r)
                          THEN [remotes EXCEPT ![r] = AddMany(remotes[r], [q \in {n} |-> sent[n]])]
                          ELSE remotes,
               UNCHANGED pc
        PROVE  Frame' /\ SecondEra' /\ pc'[FirstMaster] = "down"
    <2>1. r \in Node /\ (Reaches(n, r) <=> r \in Members)
      BY <1>2, <1>3, <1>7, SecondEraFacts
    <2>2. \A x \in Members : remotes'[x] = IF x = r THEN AddMany(remotes[r], [q \in {n} |-> sent[n]])
                                           ELSE remotes[x]
      BY <1>1, <1>2, <1>7, <2>1
    <2>3. /\ Members' = Members
          /\ \A s \in Members : (Open(s)' <=> Open(s)) /\ Length(s)' = Length(s)
      BY <1>4, <1>5, <1>7 DEF Members, Open, Length
    <2>4. \A s, x \in Members : Told(s, x)' <=> Told(s, x) \/ (s = n /\ x = r)
      <3>1. \A s \in Members : todo'[s] = IF s = n THEN todo[n] \ {r} ELSE todo[s]
        BY <1>1, <1>2, <1>7
      <3> QED
        BY <1>3, <1>5, <1>7, <3>1 DEF Told
    <2>5. \A v : Longest(v)' <=> Longest(v)
      BY <2>3, LongestStays
    <2>6. /\ \A x \in Members : DOMAIN remotes'[x] = Members
          /\ \A x, s \in Members :
               remotes'[x][s] = IF x = r /\ s = n THEN sent[n] ELSE remotes[x][s]
      <3>1. \A x \in Members : DOMAIN remotes[x] = Members
        BY <1>1 DEF SecondEra, Heard
      <3>2. \A a : /\ DOMAIN AddMany(a, [q \in {n} |-> sent[n]]) = DOMAIN a \cup {n}
                  /\ \A s \in DOMAIN a \cup {n} :
                       AddMany(a, [q \in {n} |-> sent[n]])[s] = IF s = n THEN sent[n] ELSE a[s]
        BY DEF AddMany
      <3>3. Members \cup {n} = Members
        BY <1>3
      <3>4. ASSUME NEW x \in Members
            PROVE  /\ DOMAIN remotes'[x] = Members
                   /\ \A s \in Members :
                        remotes'[x][s] = IF x = r /\ s = n THEN sent[n] ELSE remotes[x][s]
        <4>1. CASE x = r
          <5>1. remotes'[x] = AddMany(remotes[x], [q \in {n} |-> sent[n]])
            BY <2>2, <4>1
          <5>2. DOMAIN remotes[x] \cup {n} = Members
            BY <3>1, <3>3
          <5> QED
            BY <3>2, <4>1, <5>1, <5>2
        <4>2. CASE x # r
          BY <2>2, <3>1, <4>2
        <4> QED
          BY <4>1, <4>2
      <3> QED
        BY <3>4
    <2>7. Polling'
      BY <1>1, <1>4, <1>5, <1>7, <2>3 DEF SecondEra, Polling
    <2>8. Decided'
      BY <1>1, <1>4, <1>5, <1>7, <2>3, <2>5 DEF SecondEra, Decided
    <2>9. Heard' /\ Paced'
      BY <1>1, <1>3, <1>4, <1>5, <2>3, <2>4, <2>6 DEF SecondEra, Heard, Paced
    <2>10. InTime'
      <3>1. ASSUME NEW s \in Members, NEW o \in Members, Sent(s), Open(o),
                   NEW x \in Members, Told(s, x)'
            PROVE  remotes'[x][s].ts >= cutoff[o]
        <4>1. /\ cutoff[o] <= sent[s].ts /\ cutoff[o] \in Nat /\ sent[s].ts \in Nat
              /\ Told(s, x) => remotes[x][s].ts >= cutoff[o]
          <5>1. cutoff \in [Node -> Nat]
            BY <1>1, TypeParts DEF Rest
          <5> QED
            BY <1>1, <3>1, <5>1, LogFacts DEF SecondEra, InTime
        <4>2. CASE s = n /\ x = r
          BY <2>6, <4>1, <4>2
        <4>3. CASE ~(s = n /\ x = r)
          BY <2>4, <2>6, <3>1, <4>1, <4>3
        <4> QED
          BY <4>2, <4>3
      <3> QED
        BY <1>1, <1>4, <1>5, <2>3, <3>1 DEF SecondEra, InTime
    <2>11. MostIsKept'
      BY <1>1, <1>4, <2>3, <2>4, <2>5 DEF SecondEra, MostIsKept
    <2>12. Frame'
      BY <1>1, <1>4, <1>7 DEF Frame
    <2> QED
      BY <1>1, <1>7, <2>7, <2>8, <2>9, <2>10, <2>11, <2>12 DEF SecondEra
  <1> QED
    BY <1>6, <1>7 DEF Tell

\* When MasterUpdate begins, all have told all how long their logs are, so it
\* finds the longest.
LEMMA ElectFacts ==
  ASSUME OneDeath, EInv, pc[FirstMaster] = "down", NEW n \in Node, Elect(n)
  PROVE  /\ n \in Members /\ Open(n) /\ Sent(n) /\ sent[n].len = Len(log[n])
         /\ \A s \in Members : Open(s) => fails[s] > FailOne
         /\ \A s, x \in Members : Told(s, x)
         /\ Longest(Best(n))
  <1>1. TypeInv /\ SecondEra /\ \A s \in Members : s \in Node /\ s # FirstMaster
    BY SecondEraFacts
  <1>2. n \in Members /\ pc[n] = "loop" /\ Open(n) /\ InStep(n) /\ fails[n] = FailTwo - 1
    BY SecondEraFacts DEF Elect
  <1>3. \A s \in Members : fails[s] \in Nat /\ cutoff[s] \in Nat
    <2>1. fails \in [Node -> 0..(FailTwo + 1)] /\ cutoff \in [Node -> Nat]
      BY <1>1, TypeParts DEF Rest
    <2> QED
      BY <1>1, <2>1
  <1>4. \A s \in Members : Open(s) => fails[s] > FailOne
    BY <1>2, InStepFacts
  <1>5. \A s \in Members : Open(s) => fails[s] >= FailOne /\ fails[s] # FailOne
    BY <1>3, <1>4, Bounds
  <1>6. \A s \in Members : Open(s) => Sent(s) /\ pc[s] # "tell"
    BY <1>1, <1>5 DEF SecondEra, Polling
  <1>7. \A s \in Members : ~Open(s) => Sent(s) /\ pc[s] # "tell"
    BY <1>1 DEF SecondEra, Decided
  <1>8. \A s, x \in Members : Told(s, x)
    BY <1>6, <1>7 DEF Told
  <1>9. Sent(n) /\ sent[n].len = Len(log[n])
    BY <1>1, <1>2, <1>6 DEF SecondEra, Polling
  <1>10. DOMAIN remotes[n] = Members /\ \A s \in Members : remotes[n][s].ts >= cutoff[n]
    BY <1>1, <1>2, <1>6, <1>7, <1>8 DEF SecondEra, Heard, InTime
  <1>11. Candidates(n) = Members
    BY <1>2, <1>10 DEF Candidates
  <1>12. \A s \in Members : Known(n, s) = Length(s)
    <2>1. \A s \in Members : remotes[n][s].len = sent[s].len
      BY <1>1, <1>2, <1>8 DEF SecondEra, Heard
    <2> QED
      BY <1>6, <1>7, <1>9, <2>1 DEF Known, Length
  <1>13. Longest(Best(n))
    BY <1>1, <1>11, <1>12, BestIsLargest DEF Longest
  <1> QED
    BY <1>2, <1>4, <1>8, <1>9, <1>13

\* MasterUpdate: the one with the longest log makes itself the master, another
\* will register with it.
LEMMA SecondEraElect ==
  ASSUME OneDeath, EInv, pc[FirstMaster] = "down", NEW n \in Node, Elect(n)
  PROVE  Frame' /\ SecondEra' /\ pc'[FirstMaster] = "down"
  <1>1. TypeInv /\ Frame /\ SecondEra /\ \A s \in Members : s \in Node /\ s # FirstMaster
    BY SecondEraFacts
  <1>2. /\ pc \in [Node -> Steps] /\ fails \in [Node -> 0..(FailTwo + 1)] /\ clock \in Nat
        /\ sent \in [Node -> Info] /\ choice \in [Node -> Node] /\ cutoff \in [Node -> Nat]
        /\ ismaster \in [Node -> BOOLEAN]
    BY <1>1, TypeParts DEF Rest
  <1>3. /\ n \in Members /\ Open(n) /\ Sent(n) /\ sent[n].len = Len(log[n])
        /\ \A s \in Members : Open(s) => fails[s] > FailOne
        /\ \A s, x \in Members : Told(s, x)
        /\ Longest(Best(n))
    BY ElectFacts
  <1>4. pc[n] = "loop" /\ UNCHANGED <<follows, log, cutoff, remotes, todo, cut, clock, crashes>>
    BY DEF Elect
  <1>5. /\ \A s \in Members : s # n => fails'[s] = fails[s]
        /\ \A s \in Node \ Members : fails'[s] = 0
    <2>1. fails' = [fails EXCEPT ![n] = FailTwo]
      BY DEF Elect
    <2> QED
      BY <1>1, <1>2, <1>3, <2>1 DEF SecondEra, Paced
  <1>6. CASE Best(n) = n /\ Promoted(n) /\ pc' = [pc EXCEPT ![n] = "master"]
             /\ UNCHANGED <<sent, choice, tries>>
    <2>1. /\ \A s \in Node : pc'[s] = IF s = n THEN "master" ELSE pc[s]
          /\ \A s \in Node : ismaster'[s] = IF s = n THEN TRUE ELSE ismaster[s]
      BY <1>2, <1>6 DEF Promoted
    <2>2. Members' = Members
      BY <1>1, <1>3, <2>1, SlaveFacts DEF Members
    <2>3. /\ \A s \in Members : (Open(s)' <=> Open(s) /\ s # n) /\ Length(s)' = Length(s)
          /\ \A s \in Members : Sent(s)' <=> Sent(s)
          /\ \A s, x \in Members : Told(s, x)'
      BY <1>1, <1>3, <1>4, <1>6, <2>1, <2>2 DEF Open, Told, Length, Sent
    <2>4. \A v : Longest(v)' <=> Longest(v)
      BY <2>2, <2>3, LongestStays
    <2>5. Polling'
      BY <1>1, <1>4, <1>5, <1>6, <2>1, <2>2, <2>3 DEF SecondEra, Polling
    <2>6. Decided'
      <3>1. ASSUME NEW s \in Members, ~Open(s)'
            PROVE  /\ Sent(s)'
                   /\ \A r \in Members : Open(r)' => fails'[r] > FailOne
                   /\ pc'[s] \in {"loop", "register", "master"}
                   /\ pc'[s] = "master" => Longest(s)
                   /\ pc'[s] = "register" => Longest(choice[s]) /\ choice[s] # s
                   /\ pc'[s] = "loop" => Longest(follows[s]) /\ follows[s] # s
        <4>1. CASE s = n
          BY <1>1, <1>3, <1>5, <1>6, <2>1, <2>3, <4>1
        <4>2. CASE s # n
          BY <1>1, <1>3, <1>5, <2>1, <2>3, <3>1, <4>2 DEF SecondEra, Decided
        <4> QED
          BY <4>1, <4>2
      <3> QED
        BY <1>4, <1>6, <2>2, <2>4, <3>1 DEF Decided
    <2>7. Heard' /\ Paced'
      BY <1>1, <1>3, <1>4, <1>5, <1>6, <2>2, <2>3 DEF SecondEra, Heard, Paced
    <2>8. InTime'
      <3>1. ASSUME NEW s \in Members, NEW r \in Members, Sent(s), Open(r), r # n
            PROVE  /\ fails'[r] > 0 /\ cutoff[r] <= sent[s].ts
                   /\ \A x \in Members : remotes[x][s].ts >= cutoff[r]
        BY <1>1, <1>3, <1>5, <3>1 DEF SecondEra, InTime
      <3> QED
        BY <1>4, <1>6, <2>2, <2>3, <3>1 DEF InTime
    <2>9. MostIsKept'
      BY <1>1, <1>4, <2>2, <2>3, <2>4 DEF SecondEra, MostIsKept
    <2>10. /\ pc'[FirstMaster] = "down"
           /\ \A s \in Slaves : pc'[s] \in {"new", "loop", "tell", "register", "master"}
      BY <1>1, <1>3, <2>1, SlaveFacts DEF SecondEra
    <2>11. Frame'
      BY <1>1, <1>3, <1>4, <2>1, <2>10, SlaveFacts DEF Frame
    <2> QED
      BY <2>5, <2>6, <2>7, <2>8, <2>9, <2>10, <2>11 DEF SecondEra
  <1>7. CASE /\ Best(n) # n
             /\ pc' = [pc EXCEPT ![n] = "register"]
             /\ sent' = [sent EXCEPT ![n] = Self(n, clock)]
             /\ choice' = [choice EXCEPT ![n] = Best(n)]
             /\ UNCHANGED <<ismaster, split>>
    <2>1. /\ \A s \in Node : pc'[s] = IF s = n THEN "register" ELSE pc[s]
          /\ \A s \in Node : sent'[s] = IF s = n THEN [len |-> Len(log[n]), ts |-> clock + Offset[n]]
                                        ELSE sent[s]
          /\ \A s \in Node : choice'[s] = IF s = n THEN Best(n) ELSE choice[s]
      BY <1>2, <1>7 DEF Self
    <2>2. Members' = Members
      BY <1>1, <1>3, <2>1, SlaveFacts DEF Members
    <2>3. clock + Offset[n] > 0 /\ clock + Offset[n] \in Nat
      <3>1. clock > 0 /\ Offset[n] \in Nat
        BY <1>1, <1>3, Bounds DEF SecondEra, Paced
      <3> QED
        BY <1>2, <3>1
    <2>4. /\ \A s \in Members : (Open(s)' <=> Open(s) /\ s # n)
          /\ \A s \in Members : Sent(s)' <=> Sent(s)
          /\ \A s \in Members : sent'[s].len = sent[s].len
      BY <1>1, <1>3, <1>4, <2>1, <2>2, <2>3 DEF Open, Sent
    <2>5. /\ \A s \in Members : Length(s)' = Length(s)
          /\ \A s, x \in Members : Told(s, x)'
      BY <1>1, <1>3, <1>4, <2>1, <2>4 DEF Told, Length
    <2>6. \A v : Longest(v)' <=> Longest(v)
      BY <2>2, <2>5, LongestStays
    <2>7. Polling'
      BY <1>1, <1>4, <1>5, <2>1, <2>2, <2>4 DEF SecondEra, Polling
    <2>8. Decided'
      <3>1. ASSUME NEW s \in Members, ~Open(s)'
            PROVE  /\ Sent(s)'
                   /\ \A r \in Members : Open(r)' => fails'[r] > FailOne
                   /\ pc'[s] \in {"loop", "register", "master"}
                   /\ pc'[s] = "master" => Longest(s)
                   /\ pc'[s] = "register" => Longest(choice'[s]) /\ choice'[s] # s
                   /\ pc'[s] = "loop" => Longest(follows[s]) /\ follows[s] # s
        <4>1. CASE s = n
          BY <1>1, <1>3, <1>5, <1>7, <2>1, <2>4, <4>1
        <4>2. CASE s # n
          BY <1>1, <1>3, <1>5, <2>1, <2>4, <3>1, <4>2 DEF SecondEra, Decided
        <4> QED
          BY <4>1, <4>2
      <3> QED
        BY <1>4, <2>2, <2>6, <3>1 DEF Decided
    <2>9. Heard' /\ Paced'
      <3>1. \A s \in Members : sent'[s].ts <= clock + Offset[s]
        BY <1>1, <2>1, <2>3 DEF SecondEra, Paced
      <3>2. Paced'
        BY <1>1, <1>4, <1>5, <2>2, <2>4, <3>1 DEF SecondEra, Paced
      <3>3. Heard'
        BY <1>1, <1>3, <1>4, <2>2, <2>4 DEF SecondEra, Heard
      <3> QED
        BY <3>2, <3>3
    <2>10. InTime'
      <3>1. ASSUME NEW s \in Members, NEW r \in Members, Sent(s), Open(r), r # n
            PROVE  /\ fails'[r] > 0 /\ cutoff[r] <= sent'[s].ts
                   /\ \A x \in Members : remotes[x][s].ts >= cutoff[r]
        <4>1. /\ fails'[r] > 0 /\ cutoff[r] <= sent[s].ts /\ fails[r] > 0
              /\ \A x \in Members : remotes[x][s].ts >= cutoff[r]
          BY <1>1, <1>3, <1>5, <3>1 DEF SecondEra, InTime
        <4>2. sent[s].ts <= sent'[s].ts
          <5>1. CASE s = n
            BY <1>1, <1>3, <2>1, <5>1 DEF SecondEra, Paced
          <5>2. CASE s # n
            BY <1>1, <2>1, <5>2, LogFacts
          <5> QED
            BY <5>1, <5>2
        <4>3. cutoff[r] \in Nat /\ sent[s].ts \in Nat
          BY <1>1, <1>2, LogFacts
        <4>4. sent'[s].ts \in Nat
          <5>1. CASE s = n
            BY <1>1, <2>1, <2>3, <5>1
          <5>2. CASE s # n
            BY <1>1, <2>1, <4>3, <5>2
          <5> QED
            BY <5>1, <5>2
        <4> QED
          BY <4>1, <4>2, <4>3, <4>4
      <3> QED
        BY <1>4, <2>2, <2>4, <3>1 DEF InTime
    <2>11. MostIsKept'
      BY <1>1, <1>4, <1>7, <2>2, <2>5, <2>6 DEF SecondEra, MostIsKept
    <2>12. /\ pc'[FirstMaster] = "down"
           /\ \A s \in Slaves : pc'[s] \in {"new", "loop", "tell", "register", "master"}
      BY <1>1, <1>3, <2>1, SlaveFacts DEF SecondEra
    <2>13. Frame'
      BY <1>1, <1>3, <1>4, <1>7, <2>1, <2>12, SlaveFacts DEF Frame
    <2> QED
      BY <2>7, <2>8, <2>9, <2>10, <2>11, <2>12, <2>13 DEF SecondEra
  <1> QED
    BY <1>6, <1>7 DEF Elect

\* A slave registers with the one it elected. If that is a master, every slave
\* that runs has its list from then on.
LEMMA SecondEraJoin ==
  ASSUME OneDeath, EInv, pc[FirstMaster] = "down", NEW n \in Node, Join(n)
  PROVE  Frame' /\ SecondEra' /\ pc'[FirstMaster] = "down"
  <1> DEFINE w == choice[n]
             list == AddMany(remotes[w], [r \in {n} |-> sent[n]])
  <1>1. TypeInv /\ Frame /\ SecondEra /\ \A s \in Members : s \in Node /\ s # FirstMaster
    BY SecondEraFacts
  <1>2. /\ pc \in [Node -> Steps] /\ follows \in [Node -> Node]
    BY <1>1, TypeParts DEF Rest
  <1>3. n \in Members /\ pc[n] = "register" /\ ~Open(n)
    BY SecondEraFacts DEF Join, Open
  <1>4. Longest(w) /\ w \in Members /\ w # n /\ Sent(n)
    BY <1>1, <1>3 DEF SecondEra, Decided, Longest
  <1>5. /\ pc' = [pc EXCEPT ![n] = "loop"] /\ follows' = [follows EXCEPT ![n] = w]
        /\ remotes' = Registered(n, w, sent[n])
        /\ UNCHANGED <<ismaster, log, fails, cutoff, todo, sent, choice, cut, clock, crashes>>
    BY DEF Join
  <1>6. /\ \A s \in Node : pc'[s] = IF s = n THEN "loop" ELSE pc[s]
        /\ \A s \in Node : follows'[s] = IF s = n THEN w ELSE follows[s]
    BY <1>2, <1>5
  <1>7. Members' = Members
    BY <1>1, <1>3, <1>6, SlaveFacts DEF Members
  <1>8. /\ \A s \in Members : (Open(s)' <=> Open(s)) /\ (Sent(s)' <=> Sent(s))
        /\ \A s \in Members : Length(s)' = Length(s)
        /\ \A s, x \in Members : Told(s, x)' <=> Told(s, x)
    <2>1. \A s \in Members : Open(s)' <=> Open(s)
      BY <1>1, <1>3, <1>4, <1>6, <1>7 DEF Open
    <2>2. \A s \in Members : (Sent(s)' <=> Sent(s)) /\ Length(s)' = Length(s)
      BY <1>5 DEF Sent, Length
    <2>3. \A s, x \in Members : Told(s, x)' <=> Told(s, x)
      BY <1>1, <1>3, <1>5, <1>6, <2>2 DEF Told
    <2> QED
      BY <2>1, <2>2, <2>3
  <1>9. \A v : Longest(v)' <=> Longest(v)
    BY <1>7, <1>8, LongestStays
  <1>10. \A x \in Members : DOMAIN remotes[x] = Members
    BY <1>1 DEF SecondEra, Heard
  <1>11. /\ DOMAIN list = Members
         /\ \A s \in Members : list[s] = IF s = n THEN sent[n] ELSE remotes[w][s]
    <2>1. Members \cup {n} = Members
      BY <1>3
    <2> QED
      BY <1>4, <1>10, <2>1 DEF AddMany
  <1>12. remotes' = [r \in Node |-> IF ~ismaster[w] THEN remotes[r]
                                    ELSE IF r = w THEN list
                                    ELSE IF r \in DOMAIN list /\ Reaches(w, r)
                                         THEN AddMany(remotes[r], list)
                                    ELSE remotes[r]]
    BY <1>5 DEF Registered
  <1> HIDE DEF list, w
  <1>13. /\ \A x \in Members : DOMAIN remotes'[x] = Members
         /\ \A x, s \in Members :
              remotes'[x][s] = IF ~ismaster[w] THEN remotes[x][s]
                               ELSE IF s = n THEN sent[n] ELSE remotes[w][s]
    <2>1. CASE ~ismaster[w]
      <3>1. \A x \in Members : remotes'[x] = remotes[x]
        BY <1>1, <1>12, <2>1
      <3> QED
        BY <1>10, <2>1, <3>1
    <2>2. CASE ismaster[w]
      <3>1. ASSUME NEW x \in Members
            PROVE  DOMAIN remotes'[x] = Members /\ \A s \in Members : remotes'[x][s] = list[s]
        <4>1. CASE x = w
          BY <1>1, <1>11, <1>12, <2>2, <4>1
        <4>2. CASE x # w
          <5>1. Reaches(w, x)
            BY <1>1, <1>4, <3>1, SecondEraFacts
          <5>2. remotes'[x] = AddMany(remotes[x], list)
            BY <1>1, <1>11, <1>12, <2>2, <4>2, <5>1
          <5>3. Members \cup Members = Members
            OBVIOUS
          <5> QED
            BY <1>10, <1>11, <5>2, <5>3 DEF AddMany
        <4> QED
          BY <4>1, <4>2
      <3> QED
        BY <1>11, <2>2, <3>1
    <2> QED
      BY <2>1, <2>2
  <1>14. Polling'
    BY <1>1, <1>3, <1>5, <1>6, <1>7, <1>8 DEF SecondEra, Polling
  <1>15. Decided'
    <2>1. ASSUME NEW s \in Members, ~Open(s)
          PROVE  /\ Sent(s)
                 /\ \A r \in Members : Open(r) => fails[r] > FailOne
                 /\ pc'[s] \in {"loop", "register", "master"}
                 /\ pc'[s] = "master" => Longest(s)
                 /\ pc'[s] = "register" => Longest(choice[s]) /\ choice[s] # s
                 /\ pc'[s] = "loop" => Longest(follows'[s]) /\ follows'[s] # s
      <3>1. CASE s = n
        BY <1>1, <1>3, <1>4, <1>6, <3>1 DEF SecondEra, Decided
      <3>2. CASE s # n
        BY <1>1, <1>6, <2>1, <3>2 DEF SecondEra, Decided
      <3> QED
        BY <3>1, <3>2
    <2> QED
      BY <1>5, <1>7, <1>8, <1>9, <2>1 DEF Decided
  <1>16. Heard' /\ Paced'
    <2>1. ASSUME NEW x \in Members, NEW r \in Members, Told(r, x)
          PROVE  remotes'[x][r].len = sent[r].len
      <3>1. ismaster[w] => Told(r, w)
        BY <1>1, <1>4, <2>1 DEF SecondEra, MostIsKept
      <3> QED
        BY <1>1, <1>4, <1>13, <2>1, <3>1 DEF SecondEra, Heard
    <2>2. Paced'
      BY <1>1, <1>5, <1>7, <1>8 DEF SecondEra, Paced
    <2> QED
      BY <1>5, <1>7, <1>8, <1>13, <2>1, <2>2 DEF Heard
  <1>17. InTime'
    <2>1. ASSUME NEW s \in Members, NEW r \in Members, Sent(s), Open(r)
          PROVE  /\ fails[r] > 0 /\ cutoff[r] <= sent[s].ts
                 /\ \A x \in Members : Told(s, x) => remotes'[x][s].ts >= cutoff[r]
      <3>1. /\ fails[r] > 0 /\ cutoff[r] <= sent[s].ts
            /\ \A x \in Members : Told(s, x) => remotes[x][s].ts >= cutoff[r]
        BY <1>1, <2>1 DEF SecondEra, InTime
      <3>2. cutoff[r] \in Nat /\ sent[s].ts \in Nat
        <4>1. cutoff \in [Node -> Nat]
          BY <1>1, TypeParts DEF Rest
        <4> QED
          BY <1>1, <4>1, LogFacts
      <3>3. ismaster[w] => Told(s, w)
        BY <1>1, <1>4 DEF SecondEra, MostIsKept
      <3>4. CASE ~ismaster[w]
        BY <1>13, <3>1, <3>4
      <3>5. CASE ismaster[w]
        BY <1>4, <1>13, <3>1, <3>2, <3>3, <3>5
      <3> QED
        BY <3>4, <3>5
    <2> QED
      BY <1>5, <1>7, <1>8, <2>1 DEF InTime
  <1>18. MostIsKept'
    BY <1>1, <1>5, <1>7, <1>8, <1>9 DEF SecondEra, MostIsKept
  <1>19. /\ pc'[FirstMaster] = "down"
         /\ \A s \in Slaves : pc'[s] \in {"new", "loop", "tell", "register", "master"}
    BY <1>1, <1>3, <1>6, SlaveFacts DEF SecondEra
  <1>20. Frame'
    BY <1>1, <1>3, <1>5, <1>6, <1>19, SlaveFacts DEF Frame
  <1> QED
    BY <1>14, <1>15, <1>16, <1>17, <1>18, <1>19, <1>20 DEF SecondEra

\* Every step of a run whose first master has died: the slaves that had not
\* started stay so, and no registration fails.
LEMMA SecondEraNext ==
  ASSUME OneDeath, ClocksAgree, EInv, Next, pc[FirstMaster] = "down"
  PROVE  EInv'
  <1>1. TypeInv /\ Frame /\ SecondEra /\ TypeInv'
    BY NextType DEF EInv
  <1> DEFINE Goal == Frame' /\ SecondEra' /\ pc'[FirstMaster] = "down"
  <1>2. Goal => EInv'
    BY <1>1 DEF EInv
  <1>3. ASSUME NEW n \in Node, Commit(n) \/ PollOK(n) \/ PollFails(n) \/ Tell(n) \/ Elect(n) \/ Join(n)
        PROVE  Goal
    BY <1>3, SecondEraCommit, SecondEraPollOK, SecondEraPollFails, SecondEraTell, SecondEraElect,
       SecondEraJoin
  <1>4. ASSUME NEW n \in Node PROVE ~(Register(n) \/ BecomeReady(n))
    <2>1. ~Reaches(n, FirstMaster)
      BY DEF Reaches
    <2>2. pc[n] = "new" => follows[n] = FirstMaster
      BY <1>1, SlaveFacts DEF Frame
    <2>3. pc[n] # "registered"
      BY <1>1, SlaveFacts DEF SecondEra
    <2> QED
      BY <2>1, <2>2, <2>3 DEF Register, BecomeReady
  <1>5. ASSUME NEW n \in Node PROVE ~JoinFails(n)
    <2>1. SUFFICES ASSUME pc[n] = "register", ~Reaches(n, choice[n]) PROVE FALSE
      BY DEF JoinFails
    <2>2. n \in Members /\ ~Open(n)
      BY <2>1, SecondEraFacts DEF Open
    <2>3. choice[n] \in Members
      BY <1>1, <2>1, <2>2 DEF SecondEra, Decided, Longest
    <2> QED
      BY <2>1, <2>3, SecondEraFacts
  <1>6. ASSUME NEW n \in Node PROVE ~Crash(n)
    <2>1. crashes = 1
      BY <1>1, SlaveFacts DEF Frame
    <2> QED
      BY <2>1, Bounds DEF Crash, OneDeath
  <1>7. ASSUME NEW n \in Node, NEW t \in Node PROVE ~(Cut(n, t) \/ Return(n, t))
    <2>1. cut = {} /\ Cardinality(cut) = 0
      BY <1>1, FS_EmptySet DEF Frame
    <2>2. returns \in 0..MaxReturn /\ MaxReturn = 0 /\ MaxCut = 0
      BY <1>1, TypeParts DEF Rest, OneDeath
    <2> QED
      BY <2>1, <2>2 DEF Cut, Return
  <1>8. ASSUME TimePasses PROVE Goal
    <2>1. /\ UNCHANGED <<pc, ismaster, follows, log, fails, cutoff, remotes, todo, sent, choice, cut,
                        crashes>>
          /\ clock' = clock + 1 /\ clock \in Nat
      BY <1>1, <1>8, TypeParts DEF TimePasses, Rest
    <2>2. /\ Members' = Members
          /\ \A s : (Open(s)' <=> Open(s)) /\ (Sent(s)' <=> Sent(s)) /\ Length(s)' = Length(s)
          /\ \A s, x : Told(s, x)' <=> Told(s, x)
      BY <2>1 DEF Members, Open, Sent, Length, Told
    <2>3. \A v : Longest(v)' <=> Longest(v)
      BY <2>2, LongestStays
    <2>4. Frame'
      BY <1>1, <2>1 DEF Frame
    <2>5. Polling' /\ Decided' /\ Heard' /\ InTime' /\ MostIsKept'
      BY <1>1, <2>1, <2>2, <2>3 DEF SecondEra, Polling, Decided, Heard, InTime, MostIsKept
    <2>6. Paced'
      <3>1. ASSUME NEW s \in Members PROVE sent'[s].ts <= clock' + Offset[s]
        <4>1. sent[s].ts <= clock + Offset[s] /\ sent[s].ts \in Nat /\ Offset[s] \in Nat
          BY <1>1, <3>1, LogFacts, SecondEraFacts, Bounds DEF SecondEra, Paced
        <4> QED
          BY <2>1, <4>1
      <3>2. ASSUME NEW r \in Members, NEW k \in 0..FailOne,
                   cutoff[r] + k <= clock + Offset[r] + Skew + 1
            PROVE  cutoff'[r] + k <= clock' + Offset[r] + Skew + 1
        <4>1. cutoff[r] \in Nat /\ Offset[r] \in Nat
          BY <1>1, <3>2, TypeParts, SecondEraFacts, Bounds DEF Rest
        <4> QED
          BY <2>1, <3>2, <4>1, Bounds
      <3>3. clock' > 0
        BY <2>1
      <3> QED
        BY <1>1, <2>1, <2>2, <3>1, <3>2, <3>3 DEF SecondEra, Paced
    <2> QED
      BY <1>1, <2>1, <2>4, <2>5, <2>6 DEF SecondEra
  <1> HIDE DEF Goal
  <1> QED
    BY <1>2, <1>3, <1>4, <1>5, <1>6, <1>7, <1>8 DEF Next, SyncStep

-----------------------------------------------------------------------------
(* The theorems.                                                           *)

\* Every step keeps the invariant.
LEMMA NextEInv ==
  ASSUME OneDeath, ClocksAgree, EInv, [Next]_vars
  PROVE  EInv'
  <1>1. CASE Next
    <2>1. pc[FirstMaster] \in {"master", "down"}
      BY DEF EInv, Frame
    <2> QED
      BY <1>1, <2>1, FirstEraNext, SecondEraNext
  <1>2. CASE UNCHANGED vars
    <2>1. TypeInv'
      BY <1>2, NextType DEF EInv
    <2>2. /\ Members' = Members
          /\ \A s : (Open(s)' <=> Open(s)) /\ (Sent(s)' <=> Sent(s)) /\ Length(s)' = Length(s)
          /\ \A s, x : Told(s, x)' <=> Told(s, x)
      BY <1>2 DEF vars, Members, Open, Sent, Length, Told
    <2>3. \A v : Longest(v)' <=> Longest(v)
      BY <2>2, LongestStays
    <2>4. Frame'
      BY <1>2 DEF EInv, Frame, vars
    <2>5. FirstEra => FirstEra'
      BY <1>2, <2>2 DEF FirstEra, vars
    <2>6. (Polling => Polling') /\ (Paced => Paced')
      BY <1>2, <2>2 DEF Polling, Paced, vars
    <2>7. Decided => Decided'
      BY <1>2, <2>2, <2>3 DEF Decided, vars
    <2>8. (Heard => Heard') /\ (InTime => InTime')
      BY <1>2, <2>2 DEF Heard, InTime, vars
    <2>9. MostIsKept => MostIsKept'
      BY <1>2, <2>2, <2>3 DEF MostIsKept, vars
    <2>10. SecondEra => SecondEra'
      BY <1>2, <2>6, <2>7, <2>8, <2>9 DEF SecondEra, vars
    <2> QED
      BY <1>2, <2>1, <2>4, <2>5, <2>10 DEF EInv, vars
  <1> QED
    BY <1>1, <1>2

\* The invariant holds throughout, whatever the number of nodes and of writes.
LEMMA SpecEInv ==
  ASSUME OneDeath, ClocksAgree
  PROVE  Spec => []EInv
  <1>1. Init => EInv
    BY InitEInv
  <1>2. EInv /\ [Next]_vars => EInv'
    BY NextEInv
  <1> QED
    BY <1>1, <1>2, PTL DEF Spec

\* OneMaster: however the slaves' polls, HostUpdate and MasterUpdate interleave,
\* one death of whatever process never makes two masters, for any finite number
\* of slaves, any number of writes and any fail counts that are further apart
\* than the slaves.
THEOREM SpecOneMaster ==
  ASSUME OneDeath, ClocksAgree
  PROVE  Spec => []OneMaster
  <1>1. EInv => OneMaster
    <2> SUFFICES ASSUME EInv, NEW n \in Node, NEW r \in Node, ismaster[n], ismaster[r]
                 PROVE  n = r
      BY DEF OneMaster
    <2>1. TypeInv /\ Frame /\ pc[n] = "master" /\ pc[r] = "master"
      BY DEF EInv, Frame
    <2>2. CASE pc[FirstMaster] = "master"
      BY <2>1, <2>2, FirstEraFacts
    <2>3. CASE pc[FirstMaster] = "down"
      <3>1. n \in Members /\ r \in Members /\ ~Open(n) /\ ~Open(r)
        BY <2>1, <2>3, SecondEraFacts DEF Open
      <3>2. Longest(n) /\ Longest(r)
        BY <2>1, <2>3, <3>1, SecondEraFacts DEF SecondEra, Decided
      <3> QED
        BY <2>1, <3>2, LongestIsOne
    <2> QED
      BY <2>1, <2>2, <2>3 DEF Frame
  <1> QED
    BY <1>1, SpecEInv, PTL

\* LogsAgree: under the same conditions no two nodes differ in a transaction
\* both have, although a slave that has registered with the new master never
\* compares its log with the master's.
THEOREM SpecLogsAgree ==
  ASSUME OneDeath, ClocksAgree
  PROVE  Spec => []LogsAgree
  <1>1. EInv => LogsAgree
    <2> SUFFICES ASSUME EInv, NEW n \in Node, NEW r \in Node,
                        pc[n] \notin {"new", "down"}, pc[r] \notin {"new", "down"}
                 PROVE  \A i \in 1..Len(log[n]) : i <= Len(log[r]) => log[n][i] = log[r][i]
      BY DEF LogsAgree
    <2>1. TypeInv /\ Frame /\ Len(log[n]) \in Nat /\ Len(log[r]) \in Nat
      BY LogFacts DEF EInv
    <2>2. PICK w \in Node : Begins(log[n], log[w]) /\ Begins(log[r], log[w])
      <3>1. CASE pc[FirstMaster] = "master"
        <4>1. FirstMaster \in Node /\ log[FirstMaster] \in Seq(1..MaxCommit)
          BY <2>1, SlaveFacts, LogFacts
        <4>2. \A s \in Node : Begins(log[s], log[FirstMaster])
          BY <3>1, <4>1, FirstEraFacts, BeginsItself, SlaveFacts DEF FirstEra
        <4> QED
          BY <4>1, <4>2
      <3>2. CASE pc[FirstMaster] = "down"
        <4>1. n \in Members /\ r \in Members
          BY <3>2, SecondEraFacts
        <4>2. PICK w \in Members : Longest(w)
          BY <3>2, <4>1, SecondEraFacts DEF SecondEra, MostIsKept
        <4>3. w \in Node /\ Begins(log[n], log[w]) /\ Begins(log[r], log[w])
          BY <3>2, <4>1, <4>2, SecondEraFacts DEF SecondEra, MostIsKept
        <4> QED
          BY <4>3
      <3> QED
        BY <2>1, <3>1, <3>2 DEF Frame
    <2> QED
      BY <2>1, <2>2 DEF Begins
  <1> QED
    BY <1>1, SpecEInv, PTL

\* WinnerHasMost: under the same conditions MasterUpdate promotes only a slave
\* whose log is as long as that of any slave that runs, so all that one of them
\* has is kept.
THEOREM SpecWinnerHasMost ==
  ASSUME OneDeath, ClocksAgree
  PROVE  Spec => WinnerHasMost
  <1> DEFINE Most == \A n \in Node : (pc[n] # "down" /\ ~ismaster[n] /\ ismaster'[n]) =>
                       \A r \in Slaves : pc[r] \notin {"new", "down"} => Len(log[r]) <= Len(log[n])
  <1>1. EInv /\ [Next]_vars => [Most]_vars
    <2> SUFFICES ASSUME EInv, Next, NEW n \in Node, pc[n] # "down", ~ismaster[n], ismaster'[n],
                        NEW r \in Slaves, pc[r] \notin {"new", "down"}
                 PROVE  Len(log[r]) <= Len(log[n])
      OBVIOUS
    <2>1. TypeInv /\ Frame
      BY DEF EInv
    <2>2. Elect(n) /\ Best(n) = n
      <3>0. ismaster \in [Node -> BOOLEAN]
        BY <2>1, TypeParts DEF Rest
      <3>1. ASSUME NEW s \in Node, Elect(s) PROVE s = n /\ Best(n) = n
        <4>1. CASE Best(s) = s /\ Promoted(s)
          BY <3>0, <4>1 DEF Promoted
        <4>2. CASE UNCHANGED <<ismaster, split>>
          BY <4>2
        <4> QED
          BY <3>1, <4>1, <4>2 DEF Elect
      <3>2. ASSUME NEW s \in Node, Crash(s) PROVE FALSE
        BY <3>0, <3>2 DEF Crash
      <3>3. ASSUME NEW s \in Node, NEW t \in Node PROVE ~Return(s, t)
        BY <2>1, TypeParts DEF Return, Rest, OneDeath
      <3>4. ASSUME NEW s \in Node, NEW t \in Node, Cut(s, t) PROVE FALSE
        BY <3>4 DEF Cut
      <3>5. ASSUME NEW s \in Node,
                   Commit(s) \/ Register(s) \/ BecomeReady(s) \/ PollOK(s) \/ PollFails(s) \/ Tell(s)
                     \/ Join(s) \/ JoinFails(s)
            PROVE  FALSE
        <4>1. ismaster' = ismaster
          BY <3>5 DEF Commit, Register, BecomeReady, PollOK, PollFails, Tell, Join, JoinFails
        <4> QED
          BY <4>1
      <3>6. ASSUME TimePasses PROVE FALSE
        <4>1. ismaster' = ismaster
          BY <3>6 DEF TimePasses
        <4> QED
          BY <4>1
      <3> QED
        BY <3>1, <3>2, <3>3, <3>4, <3>5, <3>6 DEF Next, SyncStep
    <2>3. pc[FirstMaster] = "down"
      <3>1. CASE pc[FirstMaster] = "master"
        <4>1. n \in Slaves /\ follows[n] = FirstMaster /\ Failing(n)
          BY <2>1, <2>2, <3>1, FirstEraFacts, SlaveFacts DEF Elect, FirstEra
        <4>2. Reaches(n, FirstMaster) /\ Len(log[n]) <= Len(log[FirstMaster])
          BY <3>1, <4>1, FirstEraFacts, SlaveFacts
        <4>3. Len(log[n]) \in Nat /\ Len(log[FirstMaster]) \in Nat
          BY <2>1, LogFacts, SlaveFacts
        <4> QED
          BY <4>1, <4>2, <4>3 DEF Failing
      <3> QED
        BY <2>1, <3>1 DEF Frame
    <2>4. Longest(n) /\ n \in Members /\ r \in Members
      BY <2>2, <2>3, ElectFacts DEF Members
    <2>5. Begins(log[r], log[n])
      BY <2>3, <2>4, SecondEraFacts DEF SecondEra, MostIsKept
    <2> QED
      BY <2>5 DEF Begins
  <1>2. WinnerHasMost <=> [][Most]_vars
    BY DEF WinnerHasMost
  <1> QED
    BY <1>1, <1>2, SpecEInv, PTL DEF Spec
===============================================================================
