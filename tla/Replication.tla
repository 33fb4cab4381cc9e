----------------------------- MODULE Replication -----------------------------
(***************************************************************************)
(* Log replication between one master and its slaves                       *)
(* (src/src/hrpc/SyncServer.cc, the handlers R_READONE, R_TRANSLOG,        *)
(* R_REGISTER and R_BUFFTRANS of RemoteEndpointService.hpp, the push of    *)
(* StoreTrans::Commit).                                                    *)
(*                                                                         *)
(* A slave compares its log with the node it was pointed at, catches up    *)
(* (SyncFirst), finds the master behind that node, gets ready, and then    *)
(* polls the master for ever (SyncFromMaster).  A slave that comes back    *)
(* with a log does not get over the comparison.  Processes die and come    *)
(* back, calls fail or lose their reply, and the machines in Lossy may     *)
(* lose the end of their log, or all of it, when they die (logdb->Write is *)
(* not synced; somebody empties the data directory).                       *)
(*                                                                         *)
(* Abstractions: a log entry is the time stamp of its transaction, and     *)
(* entry i of log[n] is the K_LOGNODE record with id i: commits of several *)
(* threads, and the gaps a crash leaves, are in module StoreTrans.  The    *)
(* host list R_REGISTER keeps and the election after 20 failed polls are   *)
(* not here: the master of this module is down for less than that.         *)
(***************************************************************************)
EXTENDS Integers, Sequences

CONSTANTS
  Node,       \* the processes
  Master,     \* the one whose configuration names no master
  Pointed,    \* Pointed[s]: the master of the configuration of s
  NoNode,     \* the empty string, where an address is expected
  Limit,      \* SYNCFIRST_CHUNK_SIZE, SYNCMASTER_CHUNK_SIZE
  Crashable,  \* the processes that may die
  Lossy,      \* those whose machine may lose the end of the log with it
  MaxTxn,     \* bound on the number of commits
  MaxDrop,    \* bound on the number of calls the network fails
  MaxCrash    \* bound on the number of crashes

Slaves == Node \ {Master}

ASSUME ReplicationAssumption ==
  /\ Master \in Node /\ NoNode \notin Node
  /\ Pointed \in [Slaves -> Node]
  /\ Crashable \subseteq Node /\ Lossy \subseteq Node
  /\ Limit \in Nat /\ MaxTxn \in Nat /\ MaxDrop \in Nat /\ MaxCrash \in Nat

VARIABLES
  log,        \* log[n]: the time stamps of the transactions in the log of n
  pc,         \* pc[n]: where the sync thread of n is
  ready,      \* ready[n]: SharedTable::is_ready, n answers calls
  master,     \* master[s]: SharedTable::master, the node s follows
  hops,       \* hops[s]: tolcount of SyncFirst
  chunk,      \* chunk[s]: the transactions of the reply that are not committed
  buffer,     \* buffer[s]: SharedTable::transactions, ids of the pushed ones
  lastslave,  \* SharedTable::lastslave of the master
  pushing,    \* ids whose Commit on the master has still to push
  goal,       \* goal[s]: the part it still has of the log Pointed[s] had when s started
  stamp, drops, crashes

vars == <<log, pc, ready, master, hops, chunk, buffer, lastslave, pushing,
          goal, stamp, drops, crashes>>

NoChunk == [txns |-> << >>, then |-> "down"]

Init ==
  /\ log = [n \in Node |-> << >>]
  /\ pc = [n \in Node |-> "down"]
  /\ ready = [n \in Node |-> FALSE]
  /\ master = [s \in Slaves |-> NoNode]
  /\ hops = [s \in Slaves |-> 0]
  /\ chunk = [s \in Slaves |-> NoChunk]
  /\ buffer = [s \in Slaves |-> {}]
  /\ lastslave = NoNode
  /\ pushing = {}
  /\ goal = [s \in Slaves |-> 0]
  /\ stamp = 0 /\ drops = 0 /\ crashes = 0

-----------------------------------------------------------------------------
(* The master.                                                             *)

\* Mutant of Commit: the is_master check of the Manage actions is dropped.
CommitAnywhere(n) ==
  /\ ready[n]
  /\ stamp < MaxTxn
  /\ stamp' = stamp + 1
  /\ log' = [log EXCEPT ![n] = Append(@, stamp + 1)]
  /\ pushing' = pushing \cup {Len(log[n]) + 1}
  /\ UNCHANGED <<pc, ready, master, hops, chunk, buffer, lastslave, goal, drops, crashes>>

\* Commit on the master: the transaction is logged and has to be pushed.
Commit(n) ==
  /\ n = Master
  /\ ready[n]
  /\ stamp < MaxTxn
  /\ stamp' = stamp + 1
  /\ log' = [log EXCEPT ![n] = Append(@, stamp + 1)]
  /\ pushing' = pushing \cup {Len(log[n]) + 1}
  /\ UNCHANGED <<pc, ready, master, hops, chunk, buffer, lastslave, goal, drops, crashes>>

\* R_BUFFTRANS to lastslave, if there is one, arrives and is answered.
Push(id) ==
  /\ id \in pushing
  /\ pushing' = pushing \ {id}
  /\ \/ /\ lastslave = NoNode
        /\ UNCHANGED buffer
     \/ /\ lastslave \in Slaves /\ ready[lastslave]
        /\ buffer' = [buffer EXCEPT ![lastslave] = @ \cup {id}]
  /\ UNCHANGED <<log, pc, ready, master, hops, chunk, lastslave, goal, stamp, drops, crashes>>

\* A call to n fails: n does not answer, or the network drops it.
CallFails(n) ==
  \/ ~ready[n] /\ UNCHANGED drops
  \/ drops < MaxDrop /\ drops' = drops + 1

\* The push fails, before or after it reached the slave, and Commit forgets the
\* slave.
PushFails(id) ==
  /\ id \in pushing
  /\ pushing' = pushing \ {id}
  /\ lastslave # NoNode
  /\ lastslave' = NoNode
  /\ CallFails(lastslave)
  /\ buffer' \in {buffer} \cup
       (IF ready[lastslave] THEN {[buffer EXCEPT ![lastslave] = @ \cup {id}]} ELSE {})
  /\ UNCHANGED <<log, pc, ready, master, hops, chunk, goal, stamp, crashes>>

-----------------------------------------------------------------------------
(* Start of a process.                                                     *)

\* main: a master is ready at once, a slave runs SyncFirst before.
Start(n) ==
  /\ pc[n] = "down"
  /\ pc' = [pc EXCEPT ![n] = IF n = Master THEN "master" ELSE "comparefirst"]
  /\ ready' = [ready EXCEPT ![n] = (n = Master)]
  /\ master' = [s \in Slaves |-> IF s = n THEN Pointed[s] ELSE master[s]]
  /\ goal' = [s \in Slaves |-> IF s = n THEN Len(log[Pointed[s]]) ELSE goal[s]]
  /\ UNCHANGED <<log, hops, chunk, buffer, lastslave, pushing, stamp, drops, crashes>>

\* The memory of n is lost, with what other nodes do not see of it.
LoseMemory(n) ==
  /\ pc' = [pc EXCEPT ![n] = "down"]
  /\ ready' = [ready EXCEPT ![n] = FALSE]
  /\ master' = [s \in Slaves |-> IF s = n THEN NoNode ELSE master[s]]
  /\ hops' = [s \in Slaves |-> IF s = n THEN 0 ELSE hops[s]]
  /\ chunk' = [s \in Slaves |-> IF s = n THEN NoChunk ELSE chunk[s]]
  /\ buffer' = [s \in Slaves |-> IF s = n THEN {} ELSE buffer[s]]
  /\ lastslave' = IF n = Master THEN NoNode ELSE lastslave
  /\ pushing' = IF n = Master THEN {} ELSE pushing

\* The process dies.  Its log stays, without its last entries if the machine
\* lost writes that were not synced.
Crash(n) ==
  /\ n \in Crashable /\ pc[n] # "down"
  /\ crashes < MaxCrash
  /\ crashes' = crashes + 1
  /\ \E k \in 0..Len(log[n]) :
       /\ n \in Lossy \/ k = Len(log[n])
       /\ log' = [log EXCEPT ![n] = SubSeq(@, 1, k)]
       /\ goal' = [s \in Slaves |-> IF Pointed[s] = n /\ k < goal[s] THEN k ELSE goal[s]]
  /\ LoseMemory(n)
  /\ UNCHANGED <<stamp, drops>>

\* An exception of SyncFirst ends the process.
Exits(s) == LoseMemory(s) /\ UNCHANGED <<log, goal, stamp, crashes>>

-----------------------------------------------------------------------------
(* The sync thread of a slave.                                             *)

\* Where the thread goes; the rest of the process is as it was.
GoTo(s, where) ==
  /\ pc' = [pc EXCEPT ![s] = where]
  /\ UNCHANGED <<log, ready, master, hops, chunk, buffer, pushing, goal, stamp, crashes>>

\* CompareLog: the last entry but one is at the other node too.  An empty log
\* asks nothing, and entry 0 is the fence every log begins with.
SameLog(s) ==
  LET mine == log[s]  other == log[master[s]]  last == Len(mine) - 1
  IN last > 0 => (last <= Len(other) /\ mine[last] = other[last])

\* SyncFirst compares the logs before main runs the io thread, which alone would
\* take the reply (HrpcClient with no_asio off): without a log nothing is asked,
\* with one the call neither returns nor fails.
CompareFirst(s) ==
  /\ pc[s] = "comparefirst" /\ log[s] = << >>
  /\ GoTo(s, "first")
  /\ UNCHANGED <<lastslave, drops>>

\* The comparison of SyncFromMaster succeeds; its call, too, waits for main.
Compare(s) ==
  /\ pc[s] = "comparemaster"
  /\ Len(log[s]) > 0 => ready[s] /\ ready[master[s]] /\ SameLog(s)
  /\ GoTo(s, "follow")
  /\ UNCHANGED <<lastslave, drops>>

\* The call fails or the logs differ: that ends the thread of SyncFromMaster, but
\* the node goes on serving.
CompareFails(s) ==
  /\ pc[s] = "comparemaster" /\ Len(log[s]) > 0 /\ ready[s]
  /\ \/ CallFails(master[s])
     \/ ready[master[s]] /\ ~SameLog(s) /\ UNCHANGED drops
  /\ GoTo(s, "dead") /\ UNCHANGED lastslave

\* Mutant of Found: the loop of ReadLog ends before the limit is exceeded.
FoundBelowLimit(s, t) ==
  LET from == Len(log[s])
      left == Len(log[t]) - from
  IN [j \in 1..(IF left > Limit THEN Limit ELSE left) |->
        [id |-> from + j, ts |-> log[t][from + j]]]

\* What R_TRANSLOG of s finds at t: at most Limit + 1 entries.
Found(s, t) ==
  LET from == Len(log[s])
      left == Len(log[t]) - from
  IN [j \in 1..(IF left > Limit THEN Limit + 1 ELSE left) |->
        [id |-> from + j, ts |-> log[t][from + j]]]

\* A slave that is level with the master becomes the one it pushes to.
NoteLevel(s) ==
  IF master[s] = Master /\ Len(log[s]) = Len(log[Master]) /\ lastslave = NoNode
  THEN s ELSE lastslave

\* Mutant of FetchFirst: SyncFirst takes one reply for all of them.
FetchFirstOnce(s) ==
  /\ pc[s] = "first"
  /\ ready[master[s]] /\ Len(log[s]) <= Len(log[master[s]])
  /\ LET found == Found(s, master[s])
     IN /\ pc' = [pc EXCEPT ![s] = IF found = << >> THEN "register" ELSE "apply"]
        /\ chunk' = [chunk EXCEPT ![s] = IF found = << >> THEN NoChunk
                                         ELSE [txns |-> found, then |-> "register"]]
  /\ lastslave' = NoteLevel(s)
  /\ UNCHANGED <<log, ready, master, hops, buffer, pushing, goal, stamp, drops, crashes>>

\* R_TRANSLOG in SyncFirst; a reply whose lastid is the counter of the other
\* node is the last.
FetchFirst(s) ==
  /\ pc[s] = "first"
  /\ ready[master[s]] /\ Len(log[s]) <= Len(log[master[s]])
  /\ LET found == Found(s, master[s])
         level == Len(log[s]) + Len(found) = Len(log[master[s]])
         then == IF level THEN "register" ELSE "first"
     IN /\ pc' = [pc EXCEPT ![s] = IF found = << >> THEN then ELSE "apply"]
        /\ chunk' = [chunk EXCEPT ![s] = IF found = << >> THEN NoChunk
                                         ELSE [txns |-> found, then |-> then]]
  /\ lastslave' = NoteLevel(s)
  /\ UNCHANGED <<log, ready, master, hops, buffer, pushing, goal, stamp, drops, crashes>>

\* R_TRANSLOG in the loop of SyncFromMaster.
Fetch(s) ==
  /\ pc[s] = "poll" /\ ready[s]
  /\ ready[master[s]] /\ Len(log[s]) <= Len(log[master[s]])
  /\ LET found == Found(s, master[s])
     IN /\ pc' = [pc EXCEPT ![s] = IF found = << >> THEN "follow" ELSE "apply"]
        /\ chunk' = [chunk EXCEPT ![s] = IF found = << >> THEN NoChunk
                                         ELSE [txns |-> found, then |-> "follow"]]
  /\ lastslave' = NoteLevel(s)
  /\ UNCHANGED <<log, ready, master, hops, buffer, pushing, goal, stamp, drops, crashes>>

\* R_TRANSLOG fails, perhaps after the handler ran, or the slave is ahead of the
\* other node: SyncFirst ends the process, SyncFromMaster tries again.
FetchFails(s) ==
  /\ pc[s] \in {"first", "poll"}
  /\ \/ CallFails(master[s])
     \/ ready[master[s]] /\ Len(log[s]) > Len(log[master[s]]) /\ UNCHANGED drops
  /\ \/ pc[s] = "first" /\ Exits(s)
     \/ /\ pc[s] = "poll" /\ ready[s] /\ GoTo(s, "follow")
        /\ lastslave' \in {lastslave} \cup (IF ready[master[s]] THEN {NoteLevel(s)} ELSE {})

\* The next transaction of the reply is committed; one that is not the next of
\* the log ends the loop.
Apply(s) ==
  /\ pc[s] = "apply"
  /\ LET t == Head(chunk[s].txns)
         inorder == t.id = Len(log[s]) + 1
         more == inorder /\ Len(chunk[s].txns) > 1
     IN /\ log' = IF inorder THEN [log EXCEPT ![s] = Append(@, t.ts)] ELSE log
        /\ pc' = [pc EXCEPT ![s] = IF more THEN @ ELSE chunk[s].then]
        /\ chunk' = [chunk EXCEPT ![s] =
                       IF more THEN [txns |-> Tail(@.txns), then |-> @.then] ELSE NoChunk]
  /\ UNCHANGED <<ready, master, hops, buffer, lastslave, pushing, goal, stamp, drops, crashes>>

\* Mutant of Register: the first node that answers is taken for the master.
RegisterAtFirst(s) ==
  /\ pc[s] = "register"
  /\ ready[master[s]]
  /\ pc' = [pc EXCEPT ![s] = "comparemaster"]
  /\ UNCHANGED <<log, ready, master, hops, chunk, buffer, lastslave, pushing, goal,
                 stamp, drops, crashes>>

\* R_REGISTER: the node asked is the master, or names the one it follows, which
\* is asked next; the third answer is one too many, whatever it says.
Register(s) ==
  /\ pc[s] = "register"
  /\ ready[master[s]]
  /\ IF hops[s] = 2 THEN Exits(s)
     ELSE \/ /\ master[s] = Master
             /\ GoTo(s, "comparemaster") /\ UNCHANGED lastslave
          \/ /\ master[s] # Master
             /\ master' = [master EXCEPT ![s] = master[@]]
             /\ hops' = [hops EXCEPT ![s] = @ + 1]
             /\ UNCHANGED <<log, pc, ready, chunk, buffer, lastslave, pushing, goal,
                            stamp, crashes>>
  /\ UNCHANGED drops

\* R_REGISTER of SyncFirst throws when it fails.
RegisterFails(s) ==
  /\ pc[s] = "register"
  /\ CallFails(master[s])
  /\ Exits(s)

\* The thread of SyncFromMaster has been started.
InSync(s) == \/ pc[s] \in {"comparemaster", "follow", "poll", "dead"}
             \/ pc[s] = "apply" /\ chunk[s].then = "follow"

\* main goes on while the thread of SyncFromMaster begins.
BecomeReady(s) ==
  /\ InSync(s) /\ ~ready[s]
  /\ ready' = [ready EXCEPT ![s] = TRUE]
  /\ UNCHANGED <<log, pc, master, hops, chunk, buffer, lastslave, pushing, goal,
                 stamp, drops, crashes>>

\* The head of the loop: transactions.Swap takes its argument by value, so the
\* pushed transactions are gone and none is committed.
Drain(s) ==
  /\ pc[s] = "follow"
  /\ pc' = [pc EXCEPT ![s] = "poll"]
  /\ buffer' = [buffer EXCEPT ![s] = {}]
  /\ UNCHANGED <<log, ready, master, hops, chunk, lastslave, pushing, goal,
                 stamp, drops, crashes>>

-----------------------------------------------------------------------------
SyncStep(s) ==
  \/ CompareFirst(s) \/ Compare(s) \/ CompareFails(s)
  \/ FetchFirst(s) \/ Fetch(s) \/ FetchFails(s) \/ Apply(s)
  \/ Register(s) \/ RegisterFails(s) \/ Drain(s)

Next ==
  \/ \E n \in Node : Commit(n) \/ Start(n) \/ Crash(n)
  \/ \E id \in 1..MaxTxn : Push(id) \/ PushFails(id)
  \/ \E s \in Slaves : SyncStep(s) \/ BecomeReady(s)

Spec == Init /\ [][Next]_vars

\* main gets to is_ready, and the sync thread loops for ever.  Nothing makes a
\* client write, a push arrive, or somebody start a process that is down.
FairSpec ==
  /\ Spec
  /\ \A s \in Slaves : WF_vars(SyncStep(s)) /\ WF_vars(BecomeReady(s))

-----------------------------------------------------------------------------
\* The entries, and the transactions of a reply.
Stamp == 1..MaxTxn
Transaction == [id : Nat, ts : Stamp]
Chunk == [txns : Seq(Transaction), then : {"down", "first", "register", "follow"}]

\* The kinds of values the state holds.
TypeOK ==
  /\ log \in [Node -> Seq(Stamp)]
  /\ pc \in [Node -> {"down", "master", "comparefirst", "first", "register",
                      "comparemaster", "follow", "poll", "apply", "dead"}]
  /\ ready \in [Node -> BOOLEAN]
  /\ master \in [Slaves -> Node \cup {NoNode}]
  /\ hops \in [Slaves -> 0..2]
  /\ chunk \in [Slaves -> Chunk]
  /\ buffer \in [Slaves -> SUBSET Nat]
  /\ lastslave \in Slaves \cup {NoNode}
  /\ pushing \in SUBSET Nat
  /\ goal \in [Slaves -> Nat]
  /\ stamp \in 0..MaxTxn /\ drops \in 0..MaxDrop /\ crashes \in 0..MaxCrash

RL == INSTANCE ReplicatedLog WITH
        Replicas <- Slaves, Entries <- Stamp,
        primary <- log[Master], replica <- [s \in Slaves |-> log[s]]

\* As long as the master's machine keeps its log, the log of every slave is the
\* beginning of the master's, through crashes, lost replies, slaves that lose
\* the end of theirs, and catching up from another slave.
SlaveLogIsPrefix ==
  Master \notin Lossy => \A s \in Slaves : RL!Begins(log[s], log[Master])

\* Seen from outside the slaves only ever copy the next entry of the master's
\* log: replication implements ReplicatedLog.
ReplicatesTheLog == RL!Spec

\* A slave that registered follows the master, also when it was pointed at
\* another slave ("see if the pointed machine is master or refers to a master").
FollowsMaster ==
  \A s \in Slaves : InSync(s) => master[s] = Master

\* A slave does not serve before it has what the node it was pointed at had when
\* it started, and did not lose (SyncFirst runs before is_ready is set).
ReadyHasCaughtUp == \A s \in Slaves : ready[s] => Len(log[s]) >= goal[s]

\* What the master pushes to a slave is in the slave's log when it leaves the
\* buffer, unless the slave died.
PushedIsApplied ==
  [][\A s \in Slaves : \A id \in buffer[s] :
       (id = Len(log[s]) + 1 /\ id \notin buffer'[s] /\ pc'[s] # "down") => Len(log'[s]) >= id]_vars

\* A comparison that succeeds says the slave has only what the other node has.
ComparisonIsRight ==
  [][\A s \in Slaves :
       (pc[s] = "comparemaster" /\ pc'[s] = "follow")
         => RL!Begins(log[s], log[master[s]]) \/ RL!Begins(log[master[s]], log[s])]_vars

\* The master and s are down a last time and run from then on.
StaysUp(s) == <>[](pc[Master] # "down" /\ pc[s] # "down")

\* Started with a log of its own, the process hangs in SyncFirst until it is killed.
Stuck(s) == pc[s] = "comparefirst" /\ log[s] # << >>

\* Every commit reaches, and stays with, every slave that stays up with the
\* master, did not hang at its start and whose sync thread lives.
EveryCommitReplicates ==
  \A i \in 1..MaxTxn : \A s \in Slaves :
    (StaysUp(s) /\ <>(Len(log[Master]) >= i))
      => <>[](Len(log[s]) >= i \/ pc[s] = "dead" \/ Stuck(s))

\* The same of every slave.
EverySlaveReplicates ==
  \A i \in 1..MaxTxn : \A s \in Slaves :
    (StaysUp(s) /\ <>(Len(log[Master]) >= i)) => <>[](Len(log[s]) >= i)

\* A slave that is started, a first time or again, gets to serve.
EverySlaveServes == \A s \in Slaves : StaysUp(s) => <>[]ready[s]
=============================================================================
