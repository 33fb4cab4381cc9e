---------------------------- MODULE SessionsProofs ----------------------------
(***************************************************************************)
(* Proofs about module Sessions, for any number of nodes, passwords,       *)
(* changes, sessions and restarts, any lifetime and any difference of the  *)
(* clocks.                                                                 *)
(***************************************************************************)
EXTENDS Sessions, SequenceTheorems, TLAPS

Phase == {"idle", "read", "put", "have"}
LoginTask == [op : {"login"}, pass : Pass, step : Phase, copy : Nat, since : Nat]
CheckTask == [op : {"check"}, session : Session, step : Phase, copy : Nat, since : Nat]
Task == {Idle} \cup LoginTask \cup CheckTask

\* The fields a handler has.
TasksAreWhole == task \in [Node -> Task]

\* A handler that answers has a version of the record.
AnswersFromCopy == \A n \in Node : task[n].step \in {"put", "have"} => task[n].copy # 0

\* The cache is not ahead of the database.
CacheIsBehind == \A n \in Node : entry[n] <= at[n]

\* A session was signed at the time of some clock when it was given.
SignedWhenBorn ==
  \A s \in sessions : s.born <= now /\ s.born <= s.signed /\ s.signed <= s.born + MaxSkew

\* Where no handler ran while the record was changed, the cache has the record of
\* the database, and a handler has the one there was when it began.
QuietIsCurrent ==
  \A n \in Node \ crowded :
    /\ n \in writing => task[n] = Idle
    /\ n \notin writing => entry[n] \in {0, at[n]}
    /\ task[n] # Idle => task[n].since = at[n]
    /\ task[n].step \in {"put", "have"} => task[n].copy = at[n]

IInv ==
  /\ TypeOK /\ TasksAreWhole /\ AnswersFromCopy /\ CacheIsBehind
  /\ SessionIsEarned /\ SignedWhenBorn /\ QuietIsCurrent

-----------------------------------------------------------------------------
LEMMA BusyHasOp ==
  ASSUME NEW t \in Task
  PROVE  /\ t.op \in {"none", "login", "check"} /\ t.step \in Phase
         /\ t.copy \in Nat /\ t.since \in Nat
         /\ t = Idle <=> t.op = "none"
         /\ t.op = "login" => t.pass \in Pass
         /\ t.op = "check" => t.session \in Session
         /\ t = Idle => t.step = "idle" /\ t.copy = 0 /\ t.since = 0
  <1>1. CASE t = Idle
    BY <1>1 DEF Idle, Phase
  <1>2. CASE t \in LoginTask
    BY <1>2 DEF LoginTask, Idle
  <1>3. CASE t \in CheckTask
    BY <1>3 DEF CheckTask, Idle
  <1> QED
    BY <1>1, <1>2, <1>3 DEF Task

-----------------------------------------------------------------------------
LEMMA InitIInv == Init => IInv
  <1> SUFFICES ASSUME Init PROVE IInv
    OBVIOUS
  <1>1. PICK p \in Pass, k \in {0, 1} : versions = << [pass |-> p, key |-> k] >>
    BY DEF Init
  <1>2. versions \in Seq(Record) /\ Len(versions) = 1
    BY <1>1, SessionsAssumption DEF Record
  <1>3. TypeOK
    BY <1>2, SessionsAssumption DEF Init, TypeOK, Idle, NoReset
  <1>4. TasksAreWhole /\ AnswersFromCopy
    BY DEF Init, TasksAreWhole, AnswersFromCopy, Task, Idle
  <1>5. SessionIsEarned /\ SignedWhenBorn /\ QuietIsCurrent /\ CacheIsBehind
    BY DEF Init, CacheIsBehind, SessionIsEarned, SignedWhenBorn, QuietIsCurrent, Idle
  <1> QED
    BY <1>3, <1>4, <1>5 DEF IInv

-----------------------------------------------------------------------------
(* Changes of the record.                                                  *)

\* The database is written: who is at work then is not in a quiet place.
LEMMA ApplyIsCrowded ==
  ASSUME TypeOK, TasksAreWhole, QuietIsCurrent, NEW n \in Node, NEW v, Apply(n, v),
         UNCHANGED <<entry, task>>
  PROVE  QuietIsCurrent'
  <1> SUFFICES ASSUME NEW m \in Node \ crowded'
               PROVE  /\ m \in writing' => task[m] = Idle
                      /\ m \notin writing' => entry[m] \in {0, at'[m]}
                      /\ task[m] # Idle => task[m].since = at'[m]
                      /\ task[m].step \in {"put", "have"} => task[m].copy = at'[m]
    BY DEF QuietIsCurrent
  <1>1. CASE m = n
    BY <1>1 DEF Apply, Idle
  <1>2. CASE m # n
    <2>1. m \notin crowded /\ at'[m] = at[m] /\ (m \in writing' <=> m \in writing)
      BY <1>2 DEF Apply, TypeOK
    <2> QED
      BY <2>1 DEF QuietIsCurrent
  <1> QED
    BY <1>1, <1>2

\* A change of the record on the master adds a version.
LEMMA CommitKeeps ==
  ASSUME IInv, NEW rec \in Record, Commit(rec),
         UNCHANGED <<now, skew, entry, task, sessions>>, reset' \in {reset, NoReset}
  PROVE  IInv'
  <1> USE DEF IInv
  <1>1. /\ versions' \in Seq(Record) /\ Len(versions') = Len(versions) + 1
        /\ \A k \in 1..Len(versions) : versions'[k] = versions[k]
    BY AppendProperties DEF Commit, TypeOK
  <1>2. Len(versions) \in 1..MaxChange /\ Master \in Node
    BY SessionsAssumption DEF Commit, TypeOK
  <1>3. at' = [at EXCEPT ![Master] = Len(versions) + 1] /\ writing' = writing \cup {Master}
        /\ crowded' \subseteq crowded \cup {Master}
    BY DEF Commit, Apply
  <1>4. TypeOK'
    <2>1. at' \in [Node -> 1..Len(versions')] /\ at'[Master] = Len(versions')
          /\ \A n \in Node : at[n] <= at'[n]
      BY <1>1, <1>2, <1>3 DEF TypeOK
    <2>2. \A n \in Node : task[n].copy \in 0..at'[n] /\ task[n].since \in 0..at'[n]
      BY <2>1 DEF TypeOK
    <2>3. entry \in [Node -> 0..Len(versions')]
      BY <1>1, <1>2 DEF TypeOK
    <2>4. (reset = NoReset \/ (reset.version \in 1..Len(versions) /\ reset.new \in Pass))'
      BY <1>1, <1>2 DEF TypeOK
    <2>5. Len(versions') \in 1..(MaxChange + 1)
      BY <1>1, <1>2, SessionsAssumption
    <2>6. writing' \subseteq Node /\ crowded' \subseteq Node
      BY <1>2, <1>3 DEF TypeOK
    <2> QED
      BY <1>1, <2>1, <2>2, <2>3, <2>4, <2>5, <2>6 DEF TypeOK
  <1>5. SessionIsEarned'
    <2> SUFFICES ASSUME NEW s \in sessions
                 PROVE  \E k \in 1..Len(versions') :
                          versions'[k].key = s.key /\ versions'[k].pass = s.by
      BY DEF SessionIsEarned
    <2>1. PICK k \in 1..Len(versions) : versions[k].key = s.key /\ versions[k].pass = s.by
      BY DEF SessionIsEarned
    <2> QED
      BY <1>1, <1>2, <2>1
  <1>6. QuietIsCurrent'
    BY <1>2, ApplyIsCrowded DEF Commit
  <1>7. TasksAreWhole' /\ AnswersFromCopy' /\ SignedWhenBorn'
    BY DEF TasksAreWhole, AnswersFromCopy, SignedWhenBorn
  <1>8. CacheIsBehind'
    BY <1>2, <1>3 DEF CacheIsBehind, TypeOK
  <1> QED
    BY <1>4, <1>5, <1>6, <1>7, <1>8

LEMMA RenewKeeps == IInv /\ Renew => IInv'
  <1> SUFFICES ASSUME IInv, Renew PROVE IInv'
    OBVIOUS
  <1>1. Stored \in Record /\ Len(versions) \in 1..MaxChange
    BY SessionsAssumption DEF IInv, TypeOK, Renew, Commit, Stored
  <1>2. [Stored EXCEPT !.key = Len(versions) + 1] \in Record
    BY <1>1, SessionsAssumption DEF Record
  <1> QED
    BY <1>2, CommitKeeps DEF Renew

LEMMA EndResetKeeps == IInv /\ EndReset => IInv'
  <1> SUFFICES ASSUME IInv, EndReset PROVE IInv'
    OBVIOUS
  <1>1. reset.version \in 1..Len(versions) /\ reset.new \in Pass
    BY DEF IInv, TypeOK, EndReset
  <1>2. versions[reset.version] \in Record
    BY <1>1 DEF IInv, TypeOK
  <1>3. [versions[reset.version] EXCEPT !.pass = reset.new] \in Record
    BY <1>1, <1>2 DEF Record
  <1> QED
    BY <1>3, CommitKeeps DEF EndReset

LEMMA FollowKeeps == ASSUME IInv, NEW n \in Node, Follow(n) PROVE IInv'
  <1> USE DEF IInv
  <1>1. at[n] + 1 \in 1..Len(versions) /\ n # Master
    BY DEF Follow, TypeOK
  <1>2. at' = [at EXCEPT ![n] = at[n] + 1] /\ writing' = writing \cup {n}
        /\ crowded' \subseteq crowded \cup {n}
    BY DEF Follow, Apply
  <1>3. TypeOK'
    <2>1. at' \in [Node -> 1..Len(versions)] /\ at'[Master] = Len(versions)
          /\ \A m \in Node : at[m] <= at'[m]
      BY <1>1, <1>2 DEF TypeOK
    <2>2. \A m \in Node : task[m].copy \in 0..at'[m] /\ task[m].since \in 0..at'[m]
      <3>1. \A m \in Node : at[m] \in Nat /\ at'[m] \in Nat
        BY <2>1 DEF TypeOK
      <3>2. \A m \in Node : task[m].copy \in 0..at[m] /\ task[m].since \in 0..at[m]
        BY DEF TypeOK
      <3> QED
        BY <2>1, <3>1, <3>2
    <2>3. writing' \subseteq Node /\ crowded' \subseteq Node
      BY <1>2 DEF TypeOK
    <2> QED
      BY <2>1, <2>2, <2>3 DEF TypeOK, Follow
  <1>4. QuietIsCurrent'
    BY ApplyIsCrowded DEF Follow
  <1>5. CacheIsBehind'
    BY <1>1, <1>2 DEF CacheIsBehind, TypeOK, Follow
  <1> QED
    BY <1>3, <1>4, <1>5 DEF Follow, TasksAreWhole, AnswersFromCopy, SessionIsEarned, SignedWhenBorn

-----------------------------------------------------------------------------
(* Steps that leave the record alone.                                      *)

LEMMA ForgetKeeps == ASSUME IInv, NEW n \in Node, Forget(n) PROVE IInv'
  <1> USE DEF IInv
  <1>1. entry' = [entry EXCEPT ![n] = 0] /\ writing' = writing \ {n}
    BY DEF Forget
  <1>2. TypeOK'
    <2>1. entry' \in [Node -> 0..Len(versions)] /\ writing' \subseteq Node
      BY <1>1 DEF TypeOK
    <2> QED
      BY <2>1 DEF TypeOK, Forget
  <1>3. QuietIsCurrent'
    BY <1>1 DEF QuietIsCurrent, Forget, TypeOK
  <1>4. CacheIsBehind'
    BY <1>1 DEF CacheIsBehind, Forget, TypeOK
  <1> QED
    BY <1>2, <1>3, <1>4 DEF Forget, TasksAreWhole, AnswersFromCopy, SessionIsEarned, SignedWhenBorn

LEMMA RestartKeeps == ASSUME IInv, NEW n \in Node, Restart(n) PROVE IInv'
  <1> USE DEF IInv
  <1>1. /\ entry' = [entry EXCEPT ![n] = 0] /\ writing' = writing \ {n}
        /\ crowded' = crowded \ {n} /\ task' = [task EXCEPT ![n] = Idle]
    BY DEF Restart
  <1>2. \A m \in Node : task'[m] = IF m = n THEN Idle ELSE task[m]
    BY <1>1 DEF TasksAreWhole
  <1>3. TypeOK'
    <2>1. /\ entry' \in [Node -> 0..Len(versions)]
          /\ writing' \subseteq Node /\ crowded' \subseteq Node
      BY <1>1 DEF TypeOK
    <2>2. \A m \in Node :
            /\ task'[m].op \in {"none", "login", "check"}
            /\ task'[m].step \in {"idle", "read", "put", "have"}
            /\ task'[m].copy \in 0..at[m] /\ task'[m].since \in 0..at[m]
            /\ task'[m].op = "login" => task'[m].pass \in Pass
            /\ task'[m].op = "check" => task'[m].session \in sessions
      <3> TAKE m \in Node
      <3>1. at[m] \in Nat
        BY DEF TypeOK
      <3>2. CASE m = n
        BY <1>2, <3>1, <3>2 DEF Idle
      <3>3. CASE m # n
        BY <1>2, <3>3 DEF TypeOK
      <3> QED
        BY <3>2, <3>3
    <2>3. (reset = NoReset \/ (reset.version \in 1..Len(versions) /\ reset.new \in Pass))'
      BY DEF TypeOK, Restart
    <2> QED
      BY <2>1, <2>2, <2>3 DEF TypeOK, Restart
  <1>4. TasksAreWhole'
    BY <1>1 DEF TasksAreWhole, Task
  <1>5. AnswersFromCopy'
    BY <1>2 DEF AnswersFromCopy, Idle
  <1>6. QuietIsCurrent'
    <2> SUFFICES ASSUME NEW m \in Node \ crowded'
                 PROVE  /\ m \in writing' => task'[m] = Idle
                        /\ m \notin writing' => entry'[m] \in {0, at[m]}
                        /\ task'[m] # Idle => task'[m].since = at[m]
                        /\ task'[m].step \in {"put", "have"} => task'[m].copy = at[m]
      BY DEF QuietIsCurrent, Restart
    <2>1. CASE m = n
      BY <1>1, <1>2, <2>1 DEF TypeOK, Idle
    <2>2. CASE m # n
      BY <1>1, <1>2, <2>2 DEF TypeOK, QuietIsCurrent
    <2> QED
      BY <2>1, <2>2
  <1>7. CacheIsBehind'
    BY <1>1 DEF CacheIsBehind, Restart, TypeOK
  <1> QED
    BY <1>3, <1>4, <1>5, <1>6, <1>7 DEF Restart, SessionIsEarned, SignedWhenBorn

\* A step of the handler of n which changes nothing but where that is.
LEMMA TaskKeeps ==
  ASSUME IInv, NEW n \in Node, NEW t \in Task, task' = [task EXCEPT ![n] = t],
         UNCHANGED <<now, skew, versions, at, writing, reset, sessions>>,
         entry' \in {entry, [entry EXCEPT ![n] = t.copy]},
         crowded' \in {crowded, crowded \cup {n}},
         t.copy \in 0..at[n], t.since \in 0..at[n],
         t.op = "check" => t.session \in sessions,
         t.step \in {"put", "have"} => t.copy # 0,
         n \notin crowded' =>
           /\ n \in writing => t = Idle
           /\ n \notin writing => entry'[n] \in {0, at[n]}
           /\ t # Idle => t.since = at[n]
           /\ t.step \in {"put", "have"} => t.copy = at[n]
  PROVE  IInv'
  <1> USE DEF IInv
  <1>1. \A m \in Node : task'[m] = IF m = n THEN t ELSE task[m]
    BY DEF TasksAreWhole
  <1>2. TypeOK'
    <2>1. entry' \in [Node -> 0..Len(versions)] /\ crowded' \subseteq Node
      <3>1. at[n] \in 1..Len(versions) /\ Len(versions) \in Nat
            /\ entry \in [Node -> 0..Len(versions)] /\ crowded \subseteq Node
        BY DEF TypeOK
      <3>2. t.copy \in 0..Len(versions)
        BY <3>1
      <3> QED
        BY <3>1, <3>2
    <2>2. \A m \in Node :
            /\ task'[m].op \in {"none", "login", "check"}
            /\ task'[m].step \in {"idle", "read", "put", "have"}
            /\ task'[m].copy \in 0..at[m] /\ task'[m].since \in 0..at[m]
            /\ task'[m].op = "login" => task'[m].pass \in Pass
            /\ task'[m].op = "check" => task'[m].session \in sessions
      <3> TAKE m \in Node
      <3>1. CASE m = n
        BY <1>1, <3>1, BusyHasOp DEF Phase
      <3>2. CASE m # n
        BY <1>1, <3>2 DEF TypeOK
      <3> QED
        BY <3>1, <3>2
    <2> QED
      BY <2>1, <2>2 DEF TypeOK
  <1>3. TasksAreWhole'
    BY DEF TasksAreWhole
  <1>4. AnswersFromCopy'
    BY <1>1 DEF AnswersFromCopy
  <1>5. QuietIsCurrent'
    <2> SUFFICES ASSUME NEW m \in Node \ crowded'
                 PROVE  /\ m \in writing => task'[m] = Idle
                        /\ m \notin writing => entry'[m] \in {0, at[m]}
                        /\ task'[m] # Idle => task'[m].since = at[m]
                        /\ task'[m].step \in {"put", "have"} => task'[m].copy = at[m]
      BY DEF QuietIsCurrent
    <2>1. CASE m = n
      BY <1>1, <2>1
    <2>2. CASE m # n
      <3>1. m \notin crowded /\ entry'[m] = entry[m]
        BY <2>2 DEF TypeOK
      <3> QED
        BY <1>1, <2>2, <3>1 DEF QuietIsCurrent
    <2> QED
      BY <2>1, <2>2
  <1>6. CacheIsBehind'
    <2> SUFFICES ASSUME NEW m \in Node PROVE entry'[m] <= at[m]
      BY DEF CacheIsBehind
    <2>1. entry[m] <= at[m] /\ entry \in [Node -> 0..Len(versions)] /\ at[n] \in Nat
      BY DEF CacheIsBehind, TypeOK
    <2> QED
      BY <2>1
  <1> QED
    BY <1>2, <1>3, <1>4, <1>5, <1>6 DEF SessionIsEarned, SignedWhenBorn

\* A handler begins with the entry of the cache, if there is one.
LEMMA BeginKeeps ==
  ASSUME IInv, NEW n \in Node, NEW t \in Task, t # Idle, Begin(n, t),
         t.copy = entry[n], t.since = at[n], t.step = First(n),
         t.op = "check" => t.session \in sessions
  PROVE  IInv'
  <1>1. at[n] \in Nat /\ entry[n] \in Nat
    BY DEF IInv, TypeOK
  <1>2. entry[n] \in 0..at[n] /\ at[n] \in 0..at[n]
    BY <1>1 DEF IInv, CacheIsBehind
  <1>3. t.step \in {"put", "have"} => t.copy # 0
    BY DEF First
  <1>4. n \notin crowded' => n \notin crowded /\ n \notin writing /\ entry[n] \in {0, at[n]}
    BY DEF Begin, IInv, QuietIsCurrent
  <1>5. /\ task' = [task EXCEPT ![n] = t] /\ crowded' \in {crowded, crowded \cup {n}}
        /\ UNCHANGED <<now, skew, versions, at, entry, writing, reset, sessions>>
    BY DEF Begin
  <1> QED
    BY <1>1, <1>2, <1>3, <1>4, <1>5, TaskKeeps

LEMMA LoginKeeps == ASSUME IInv, NEW n \in Node, Login(n) PROVE IInv'
  <1> USE DEF IInv
  <1>1. PICK p \in Pass : Begin(n, [op |-> "login", pass |-> p,
                 step |-> First(n), copy |-> entry[n], since |-> at[n]])
    BY DEF Login
  <1> DEFINE t == [op |-> "login", pass |-> p,
                   step |-> First(n), copy |-> entry[n], since |-> at[n]]
  <1>2. at[n] \in Nat /\ entry[n] \in Nat
    BY DEF TypeOK
  <1>3. t \in Task /\ t # Idle
    BY <1>2 DEF Task, LoginTask, Phase, First, Idle
  <1> QED
    BY <1>1, <1>2, <1>3, BeginKeeps

LEMMA PresentKeeps == ASSUME IInv, NEW n \in Node, Present(n) PROVE IInv'
  <1> USE DEF IInv
  <1>1. PICK s \in sessions : Begin(n, [op |-> "check", session |-> s,
                 step |-> First(n), copy |-> entry[n], since |-> at[n]])
    BY DEF Present
  <1> DEFINE t == [op |-> "check", session |-> s,
                   step |-> First(n), copy |-> entry[n], since |-> at[n]]
  <1>2. at[n] \in Nat /\ entry[n] \in Nat /\ s \in Session
    BY DEF TypeOK
  <1>3. t \in Task /\ t # Idle
    BY <1>2 DEF Task, CheckTask, Phase, First, Idle
  <1> QED
    BY <1>1, <1>2, <1>3, BeginKeeps

LEMMA ReadKeeps == ASSUME IInv, NEW n \in Node, Read(n) PROVE IInv'
  <1> USE DEF IInv
  <1> DEFINE t == [task[n] EXCEPT !.copy = at[n], !.step = "put"]
  <1>1. task[n] \in Task /\ task[n] # Idle /\ at[n] \in Nat \ {0} /\ task[n].step = "read"
    BY DEF Read, TasksAreWhole, TypeOK, Idle
  <1>3. task' = [task EXCEPT ![n] = t] /\ t = [task[n] EXCEPT !.copy = at[n], !.step = "put"]
    BY DEF Read
  <1> HIDE DEF t
  <1>2. /\ t \in Task /\ t # Idle /\ t.copy = at[n] /\ t.step = "put"
        /\ t.op = task[n].op /\ t.since = task[n].since
        /\ task[n].op = "check" => t.session = task[n].session
    <2>1. CASE task[n] \in LoginTask
      BY <1>1, <1>3, <2>1 DEF Task, LoginTask, Idle, Phase
    <2>2. CASE task[n] \in CheckTask
      BY <1>1, <1>3, <2>2 DEF Task, CheckTask, Idle, Phase
    <2> QED
      BY <1>1, <2>1, <2>2 DEF Task
  <1>4. t.copy \in 0..at[n] /\ t.since \in 0..at[n] /\ (t.op = "check" => t.session \in sessions)
    BY <1>1, <1>2 DEF TypeOK
  <1>5. n \notin crowded => n \notin writing /\ entry[n] \in {0, at[n]} /\ t.since = at[n]
    BY <1>1, <1>2 DEF QuietIsCurrent
  <1> QED
    BY <1>1, <1>2, <1>3, <1>4, <1>5, TaskKeeps DEF Read

LEMMA PutKeeps == ASSUME IInv, NEW n \in Node, Put(n) PROVE IInv'
  <1> USE DEF IInv
  <1> DEFINE t == [task[n] EXCEPT !.step = "have"]
  <1>1. /\ task[n] \in Task /\ task[n] # Idle /\ at[n] \in Nat \ {0}
        /\ task[n].step = "put" /\ task[n].copy \in Nat \ {0}
    BY BusyHasOp DEF Put, TasksAreWhole, TypeOK, Idle, AnswersFromCopy
  <1>2. t = [task[n] EXCEPT !.step = "have"]
    OBVIOUS
  <1> HIDE DEF t
  <1>3. /\ t \in Task /\ t # Idle /\ t.copy = task[n].copy /\ t.step = "have"
        /\ t.op = task[n].op /\ t.since = task[n].since
        /\ task[n].op = "check" => t.session = task[n].session
    <2>1. CASE task[n] \in LoginTask
      BY <1>1, <1>2, <2>1 DEF Task, LoginTask, Idle, Phase
    <2>2. CASE task[n] \in CheckTask
      BY <1>1, <1>2, <2>2 DEF Task, CheckTask, Idle, Phase
    <2> QED
      BY <1>1, <2>1, <2>2 DEF Task
  <1>4. task' = [task EXCEPT ![n] = t] /\ entry' = [entry EXCEPT ![n] = t.copy]
    BY <1>3 DEF Put, t
  <1>5. t.copy \in 0..at[n] /\ t.since \in 0..at[n] /\ (t.op = "check" => t.session \in sessions)
    BY <1>1, <1>3 DEF TypeOK
  <1>6. entry'[n] = t.copy
    BY <1>4 DEF TypeOK
  <1>7. n \notin crowded => n \notin writing /\ t.since = at[n] /\ t.copy = at[n]
    BY <1>1, <1>3 DEF QuietIsCurrent
  <1>8. UNCHANGED <<now, skew, versions, at, writing, crowded, reset, sessions>>
    BY DEF Put
  <1> QED
    BY <1>1, <1>3, <1>4, <1>5, <1>6, <1>7, <1>8, TaskKeeps

LEMMA IdleIsTask ==
  /\ Idle \in Task /\ Idle.copy = 0 /\ Idle.since = 0
  /\ Idle.step = "idle" /\ Idle.op = "none"
  BY DEF Task, Idle

\* A handler ends.
LEMMA EndKeeps ==
  ASSUME IInv, NEW n \in Node, task[n] # Idle, End(n),
         UNCHANGED <<now, skew, versions, at, entry, writing, crowded, reset, sessions>>
  PROVE  IInv'
  <1> DEFINE t == Idle
  <1>1. t \in Task /\ t.copy = 0 /\ t.since = 0 /\ t.step = "idle" /\ t.op = "none" /\ t = Idle
    BY IdleIsTask
  <1>2. at[n] \in Nat /\ task' = [task EXCEPT ![n] = t]
    BY DEF End, IInv, TypeOK
  <1>3. n \notin crowded => n \notin writing /\ entry[n] \in {0, at[n]}
    BY DEF IInv, QuietIsCurrent
  <1> HIDE DEF t
  <1>4. t.copy \in 0..at[n] /\ t.since \in 0..at[n]
    BY <1>1, <1>2
  <1> QED
    BY <1>1, <1>2, <1>3, <1>4, TaskKeeps

LEMMA CheckKeeps == ASSUME IInv, NEW n \in Node, Check(n) PROVE IInv'
  <1>1. task[n] # Idle
    BY DEF Check, Idle
  <1> QED
    BY <1>1, EndKeeps DEF Check

LEMMA GiveKeeps == ASSUME IInv, NEW n \in Node, Give(n) PROVE IInv'
  <1> USE DEF IInv
  <1> DEFINE s == [key |-> Copy(n).key, signed |-> Clock(n), by |-> task[n].pass, born |-> now]
  <1>1. Idle \in Task /\ Idle.copy = 0 /\ Idle.since = 0 /\ Idle.step = "idle" /\ Idle.op = "none"
    BY IdleIsTask
  <1>2. task[n] # Idle /\ task[n].step = "have" /\ task[n].op = "login" /\ at[n] \in Nat
    BY DEF Give, Idle, IInv, TypeOK
  <1>3. n \notin crowded => n \notin writing /\ entry[n] \in {0, at[n]}
    BY <1>2 DEF QuietIsCurrent
  <1>4. CASE sessions' = sessions
    BY <1>2, <1>4, EndKeeps DEF Give
  <1>5. CASE sessions' = sessions \cup {s} /\ task[n].pass = Copy(n).pass /\ Copy(n).key # 0
    <2>1. task[n].copy \in 1..Len(versions) /\ Copy(n) \in Record
      <3>1. task[n].copy \in 0..at[n] /\ task[n].copy # 0 /\ at[n] \in 1..Len(versions)
        BY <1>2 DEF TypeOK, AnswersFromCopy
      <3>2. task[n].copy \in 1..Len(versions) /\ versions \in Seq(Record)
        BY <3>1 DEF TypeOK
      <3> QED
        BY <3>2 DEF Copy
    <2>2. s \in Session /\ s.born = now /\ s.born <= s.signed /\ s.signed <= s.born + MaxSkew
      <3>1. now \in 0..MaxTime /\ skew[n] \in 0..MaxSkew /\ MaxTime \in Nat /\ MaxSkew \in Nat
        BY SessionsAssumption DEF TypeOK
      <3>2. Clock(n) \in 0..(MaxTime + MaxSkew) /\ now <= Clock(n) /\ Clock(n) <= now + MaxSkew
        BY <3>1 DEF Clock
      <3>3. Copy(n).key \in 1..(MaxChange + 1) /\ task[n].pass \in Pass
        BY <1>2, <1>5, <2>1, SessionsAssumption DEF Record, TypeOK
      <3> QED
        BY <3>1, <3>2, <3>3 DEF Session
    <2>3. TypeOK'
      <3>1. sessions' \subseteq Session
        BY <1>5, <2>2 DEF TypeOK
      <3>2. \A m \in Node : task'[m] = IF m = n THEN Idle ELSE task[m]
        BY DEF Give, End, TasksAreWhole
      <3>3. \A m \in Node :
              /\ task'[m].op \in {"none", "login", "check"}
              /\ task'[m].step \in {"idle", "read", "put", "have"}
              /\ task'[m].copy \in 0..at[m] /\ task'[m].since \in 0..at[m]
              /\ task'[m].op = "login" => task'[m].pass \in Pass
              /\ task'[m].op = "check" => task'[m].session \in sessions'
        <4> TAKE m \in Node
        <4>1. CASE m = n
          BY <1>1, <1>2, <3>2, <4>1
        <4>2. CASE m # n
          BY <1>5, <3>2, <4>2 DEF TypeOK
        <4> QED
          BY <4>1, <4>2
      <3> QED
        BY <3>1, <3>3 DEF TypeOK, Give
    <2>4. SessionIsEarned'
      <3> SUFFICES ASSUME NEW r \in sessions'
                   PROVE  \E k \in 1..Len(versions) :
                            versions[k].key = r.key /\ versions[k].pass = r.by
        BY DEF SessionIsEarned, Give
      <3>1. CASE r \in sessions
        BY <3>1 DEF SessionIsEarned
      <3>2. CASE r = s
        BY <1>5, <2>1, <3>2 DEF Copy
      <3> QED
        BY <1>5, <3>1, <3>2
    <2>5. SignedWhenBorn'
      BY <1>5, <2>2, SessionsAssumption DEF SignedWhenBorn, Give, TypeOK
    <2>6. TasksAreWhole' /\ AnswersFromCopy' /\ QuietIsCurrent' /\ CacheIsBehind'
      <3>1. \A m \in Node : task'[m] = IF m = n THEN Idle ELSE task[m]
        BY DEF Give, End, TasksAreWhole
      <3>2. TasksAreWhole'
        BY <1>1 DEF TasksAreWhole, Give, End
      <3>3. AnswersFromCopy'
        BY <1>1, <3>1 DEF AnswersFromCopy
      <3>4. QuietIsCurrent'
        BY <1>1, <1>3, <3>1 DEF QuietIsCurrent, Give
      <3>5. CacheIsBehind'
        BY DEF CacheIsBehind, Give
      <3> QED
        BY <3>2, <3>3, <3>4, <3>5
    <2> QED
      BY <2>3, <2>4, <2>5, <2>6
  <1> QED
    BY <1>4, <1>5 DEF Give

-----------------------------------------------------------------------------
LEMMA TickKeeps == IInv /\ Tick => IInv'
  <1> SUFFICES ASSUME IInv, Tick PROVE IInv'
    OBVIOUS
  <1> USE DEF IInv
  <1>1. now \in Nat /\ MaxTime \in Nat /\ Len(versions) \in Nat \ {0}
    BY SessionsAssumption DEF TypeOK
  <1>2. now' = now + 1 /\ now + Len(versions) <= MaxTime
    BY DEF Tick
  <1>3. now' \in 0..MaxTime
    BY <1>1, <1>2
  <1>4. TypeOK'
    BY <1>3 DEF TypeOK, Tick
  <1>5. SignedWhenBorn'
    <2> SUFFICES ASSUME NEW s \in sessions
                 PROVE  s.born <= now' /\ s.born <= s.signed /\ s.signed <= s.born + MaxSkew
      BY DEF SignedWhenBorn, Tick
    <2>1. s.born \in Nat /\ s.born <= now /\ s.born <= s.signed /\ s.signed <= s.born + MaxSkew
      BY SessionsAssumption DEF SignedWhenBorn, TypeOK, Session
    <2> QED
      BY <1>1, <1>2, <2>1
  <1> QED
    BY <1>4, <1>5 DEF Tick, TasksAreWhole, AnswersFromCopy, CacheIsBehind, SessionIsEarned, QuietIsCurrent

LEMMA BeginResetKeeps == IInv /\ BeginReset => IInv'
  <1> SUFFICES ASSUME IInv, BeginReset PROVE IInv'
    OBVIOUS
  <1> USE DEF IInv
  <1>1. PICK new \in Pass : reset' = [version |-> Len(versions), new |-> new]
    BY DEF BeginReset
  <1>2. reset'.version \in 1..Len(versions) /\ reset'.new \in Pass
    BY <1>1 DEF TypeOK
  <1>3. TypeOK'
    BY <1>2 DEF TypeOK, BeginReset
  <1> QED
    BY <1>3 DEF BeginReset, TasksAreWhole, AnswersFromCopy, CacheIsBehind, SessionIsEarned,
                SignedWhenBorn, QuietIsCurrent

LEMMA NextIInv == IInv /\ [Next]_vars => IInv'
  <1> SUFFICES ASSUME IInv, [Next]_vars PROVE IInv'
    OBVIOUS
  <1>1. CASE UNCHANGED vars
    BY <1>1 DEF vars, IInv, TypeOK, TasksAreWhole, AnswersFromCopy, CacheIsBehind,
                SessionIsEarned, SignedWhenBorn, QuietIsCurrent
  <1>2. CASE Tick \/ Renew \/ BeginReset \/ EndReset
    BY <1>2, TickKeeps, RenewKeeps, BeginResetKeeps, EndResetKeeps
  <1>3. ASSUME NEW n \in Node, Follow(n) \/ Forget(n) \/ Restart(n) PROVE IInv'
    BY <1>3, FollowKeeps, ForgetKeeps, RestartKeeps
  <1>4. ASSUME NEW n \in Node,
               Login(n) \/ Present(n) \/ Read(n) \/ Put(n) \/ Give(n) \/ Check(n)
        PROVE  IInv'
    BY <1>4, LoginKeeps, PresentKeeps, ReadKeeps, PutKeeps, GiveKeeps, CheckKeeps
  <1> QED
    BY <1>1, <1>2, <1>3, <1>4 DEF Next

\* IInv holds throughout.
THEOREM SpecIInv == Spec => []IInv
  BY InitIInv, NextIInv, PTL DEF Spec

-----------------------------------------------------------------------------
\* Type correctness of records, caches, handlers and sessions.
THEOREM SpecTypeOK == Spec => []TypeOK
  <1>1. IInv => TypeOK
    BY DEF IInv
  <1> QED
    BY <1>1, SpecIInv, PTL

\* GetSession gives a session for a password which the signkey's record had,
\* with any number of resets, new signkeys and restarts.
THEOREM SpecSessionIsEarned == Spec => []SessionIsEarned
  <1>1. IInv => SessionIsEarned
    BY DEF IInv
  <1> QED
    BY <1>1, SpecIInv, PTL

\* CheckSession: a new signkey ends sessions on each node that has the change,
\* unless a handler ran there while AddToCache had yet to delete the entry.
THEOREM SpecKeyEndsSessions == Spec => []KeyEndsSessions
  <1>1. IInv => KeyEndsSessions
    <2> SUFFICES ASSUME IInv, NEW n \in Node \ crowded, Accepted(n)
                 PROVE  \E k \in task[n].since..at[n] : task[n].session.key = versions[k].key
      BY DEF KeyEndsSessions
    <2>1. task[n].step = "have" /\ task[n].session.key = versions[task[n].copy].key
      BY DEF Accepted, Checking, Accepts, Copy
    <2>2. task[n] # Idle
      BY <2>1 DEF Idle
    <2>3. task[n].since = at[n] /\ task[n].copy = at[n] /\ at[n] \in Nat
      BY <2>1, <2>2 DEF IInv, QuietIsCurrent, TypeOK
    <2>4. at[n] \in task[n].since..at[n]
      BY <2>3
    <2> QED
      BY <2>1, <2>3, <2>4
  <1> QED
    BY <1>1, SpecIInv, PTL

\* CheckSession: a session lives for its lifetime, give or take the difference
\* of the clocks.
THEOREM SpecLivesItsLifetime == Spec => []LivesItsLifetime
  <1>1. IInv => LivesItsLifetime
    <2> SUFFICES ASSUME IInv, NEW n \in Node, Checking(n)
                 PROVE  LET s == task[n].session
                            age == now - s.born
                        IN /\ Accepts(n) => age <= Lifetime + MaxSkew
                           /\ (s.key = Copy(n).key /\ age >= MaxSkew /\ age + MaxSkew <= Lifetime)
                                => Accepts(n)
      BY DEF LivesItsLifetime
    <2> DEFINE s == task[n].session
    <2>1. s \in sessions
      BY DEF Checking, IInv, TypeOK
    <2>2. s.born \in Nat /\ s.signed \in Nat
      <3>1. s \in Session
        BY <2>1 DEF IInv, TypeOK
      <3> HIDE DEF s
      <3> QED
        BY <3>1, SessionsAssumption DEF Session
    <2>3. s.born <= now /\ s.born <= s.signed /\ s.signed <= s.born + MaxSkew
      BY <2>1 DEF IInv, SignedWhenBorn
    <2>4. now \in Nat /\ skew[n] \in Nat /\ skew[n] <= MaxSkew /\ MaxSkew \in Nat /\ Lifetime \in Nat
      BY SessionsAssumption DEF IInv, TypeOK
    <2>5. Clock(n) = now + skew[n]
      BY DEF Clock
    <2>6. Accepts(n) <=> (s.key = Copy(n).key /\ s.signed <= Clock(n) /\ Clock(n) - s.signed <= Lifetime)
      BY DEF Accepts
    <2> HIDE DEF s
    <2>7. s.signed <= Clock(n) /\ Clock(n) - s.signed <= Lifetime => now - s.born <= Lifetime + MaxSkew
      BY <2>2, <2>3, <2>4, <2>5
    <2>8. now - s.born >= MaxSkew /\ now - s.born + MaxSkew <= Lifetime
            => s.signed <= Clock(n) /\ Clock(n) - s.signed <= Lifetime
      BY <2>2, <2>3, <2>4, <2>5
    <2> QED
      BY <2>6, <2>7, <2>8 DEF s
  <1> QED
    BY <1>1, SpecIInv, PTL
=============================================================================
