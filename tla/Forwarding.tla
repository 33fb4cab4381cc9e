------------------------------ MODULE Forwarding ------------------------------
(***************************************************************************)
(* Writes that are sent to a slave: its handler sends them on to the       *)
(* master and waits for the answer, and the master's handler, once the     *)
(* write is committed, sends it to the last slave (R_BUFFTRANS) and waits  *)
(* too.  Both wait in a thread of the pool of their node, and what they    *)
(* wait for needs a thread of the other pool.                              *)
(*                                                                         *)
(* A server closes a connection whose request it has read and not answered *)
(* for 300 seconds (timeout_content); the task goes on.  No step takes     *)
(* that long, so a connection is closed only when no handler can go on,    *)
(* and the oldest first.                                                   *)
(*                                                                         *)
(* Abstractions: roles are fixed and nodes ready; the steps of a handler   *)
(* between two waits are one step, and so are those of a task which does   *)
(* not wait (R_BUFFTRANS, R_TRANSLOG); of polls only the one that makes    *)
(* a slave the last slave; R_REGISTER is in module Election.               *)
(***************************************************************************)
EXTENDS Naturals, Sequences, FiniteSets

CONSTANTS
  Master,             \* the master
  Slave,              \* the slaves
  None,               \* no slave
  Threads,            \* Threads[n]: threads in the pool of node n
  MaxWrite, MaxDeath, MaxThrow  \* bounds

Node == Slave \cup {Master}

ASSUME ForwardingAssumption ==
  /\ Master \notin Slave /\ None \notin Node
  /\ IsFiniteSet(Slave)
  /\ Threads \in [Node -> Nat \ {0}]
  /\ {MaxWrite, MaxDeath, MaxThrow} \subseteq Nat

Write == 1..MaxWrite

VARIABLES
  at,         \* at[w]: the node write w was sent to, None before
  handler,    \* handler[w]: its handler there, which waits for the master if that is a slave
  service,    \* service[w]: the master's part
  target,     \* target[w]: the slave the master sends the write to
  logged,     \* the writes in the master's log, from which slaves get them
  committed,  \* those whose data the master has written
  threw,      \* those whose commit threw after its log was written
  told,       \* told[w]: what the client was told
  calls,      \* the calls between nodes, in the order they were made
  lastslave,  \* SharedTable::lastslave of the master
  dead        \* slaves that died

store == <<logged, committed, threw>>
vars == <<at, handler, service, target, store, told, calls, lastslave, dead>>

Call == [to : {"master", "slave"}, write : Write]
Ask(w) == [to |-> "master", write |-> w]   \* SendToMaster of the handler of w
Push(w) == [to |-> "slave", write |-> w]   \* SendToRemote of its commit

Init ==
  /\ at = [w \in Write |-> None]
  /\ handler = [w \in Write |-> "none"] /\ service = [w \in Write |-> "none"]
  /\ target = [w \in Write |-> None]
  /\ logged = {} /\ committed = {} /\ threw = {}
  /\ told = [w \in Write |-> "nothing"]
  /\ calls = << >> /\ lastslave = None /\ dead = {}

\* The call waits for an answer.
Pending(c) ==
  IF c.to = "master" THEN handler[c.write] = "waiting" ELSE service[c.write] = "pushing"

-----------------------------------------------------------------------------
\* The threads of the pool of n that wait.
Waiting(n) ==
  IF n = Master THEN {w \in Write : service[w] = "pushing"}
  ELSE {w \in Write : at[w] = n /\ handler[w] = "waiting"}

\* Mutant of Free: the last thread is not given to a task.
FreeButOne(n) == n \notin dead /\ Cardinality(Waiting(n)) + 1 < Threads[n]

\* A thread of the pool of n can take a task.
Free(n) == n \notin dead /\ Cardinality(Waiting(n)) < Threads[n]

\* A client sends a write to a node.  It waits for a thread of the pool.
Send(w, n) ==
  /\ at[w] = None /\ \A v \in 1..(w - 1) : at[v] # None
  /\ n \notin dead
  /\ at' = [at EXCEPT ![w] = n]
  /\ IF n = Master
     THEN service' = [service EXCEPT ![w] = "queued"] /\ UNCHANGED handler
     ELSE handler' = [handler EXCEPT ![w] = "queued"] /\ UNCHANGED service
  /\ UNCHANGED <<target, store, told, calls, lastslave, dead>>

\* A thread of the slave takes the write and sends it to the master.
Forward(w) ==
  /\ handler[w] = "queued" /\ Free(at[w])
  /\ handler' = [handler EXCEPT ![w] = "waiting"]
  /\ service' = [service EXCEPT ![w] = "queued"]
  /\ calls' = Append(calls, Ask(w))
  /\ UNCHANGED <<at, target, store, told, lastslave, dead>>

\* The answer of the master: to the client, or to the slave, if that still
\* waits for it.  A refusal keeps its reason for the clients of the master
\* alone: the endpoint catches LocalException, and services throw others.
Answer(w, result) ==
  /\ service' = [service EXCEPT ![w] = "done"]
  /\ IF at[w] = Master
     THEN told' = [told EXCEPT ![w] = result] /\ UNCHANGED handler
     ELSE IF handler[w] = "waiting"
     THEN /\ told' = [told EXCEPT ![w] = IF result = "refused" THEN "unknown" ELSE result]
          /\ handler' = [handler EXCEPT ![w] = "ended"]
     ELSE UNCHANGED <<told, handler>>

\* The commit of w throws after its log was written.
Throws(w) == Cardinality(threw) < MaxThrow /\ threw' = threw \cup {w}

\* AddToCache, the end of a commit: it may throw, and a committed write is answered
\* as if it were refused.
EndCommit(w) ==
  \/ Answer(w, "ok") /\ UNCHANGED threw
  \/ Answer(w, "unknown") /\ Throws(w)

\* A thread of the master takes the write: it is refused, or logged and committed
\* and, if there is a last slave, sent to it.  If the data cannot be written after
\* the log was, the write is answered as refused, too.
Serve(w) ==
  /\ service[w] = "queued" /\ Free(Master)
  /\ \/ /\ Answer(w, "refused")
        /\ UNCHANGED <<target, store, calls>>
     \/ /\ logged' = logged \cup {w} /\ Throws(w)
        /\ Answer(w, "refused")
        /\ UNCHANGED <<target, committed, calls>>
     \/ /\ lastslave = None
        /\ logged' = logged \cup {w} /\ committed' = committed \cup {w}
        /\ EndCommit(w)
        /\ UNCHANGED <<target, calls>>
     \/ /\ lastslave # None
        /\ logged' = logged \cup {w} /\ committed' = committed \cup {w}
        /\ service' = [service EXCEPT ![w] = "pushing"]
        /\ target' = [target EXCEPT ![w] = lastslave]
        /\ calls' = Append(calls, Push(w))
        /\ UNCHANGED <<threw, told, handler>>
  /\ UNCHANGED <<at, lastslave, dead>>

\* A thread of the last slave takes the push, and the master's handler ends.
PushServed(w) ==
  /\ service[w] = "pushing" /\ Free(target[w])
  /\ EndCommit(w)
  /\ UNCHANGED <<at, target, logged, committed, calls, lastslave, dead>>

\* Mutant of PushFails: an exception leaves Commit, and the handler.
PushFailsThrow(w) ==
  /\ service[w] = "pushing" /\ target[w] \in dead
  /\ lastslave' = None
  /\ Answer(w, "refused")
  /\ UNCHANGED <<at, target, store, calls, dead>>

\* The last slave cannot be reached: there is none until one polls in sync.
PushFails(w) ==
  /\ service[w] = "pushing" /\ target[w] \in dead
  /\ lastslave' = None
  /\ EndCommit(w)
  /\ UNCHANGED <<at, target, logged, committed, calls, dead>>

CanGoOn(w) ==
  \/ handler[w] = "queued" /\ Free(at[w])
  \/ service[w] = "queued" /\ Free(Master)
  \/ service[w] = "pushing" /\ (target[w] \in dead \/ Free(target[w]))

\* No handler can go on.
Stuck == \A w \in Write : ~CanGoOn(w)

\* Mutant of TimesOut: a connection without an answer stays open.
TimesOutNever == FALSE /\ UNCHANGED vars

\* A server closes the oldest connection without an answer, and the call fails.
TimesOut ==
  /\ Stuck
  /\ \E i \in DOMAIN calls :
       /\ Pending(calls[i]) /\ \A j \in 1..(i - 1) : ~Pending(calls[j])
       /\ LET w == calls[i].write IN
            \/ /\ calls[i].to = "master"
               /\ handler' = [handler EXCEPT ![w] = "ended"]
               /\ told' = [told EXCEPT ![w] = "failed"]
               /\ UNCHANGED <<service, lastslave, threw>>
            \/ /\ calls[i].to = "slave"
               /\ lastslave' = None
               /\ EndCommit(w)
  /\ UNCHANGED <<at, target, logged, committed, calls, dead>>

\* A poll of a slave that has all of the log (R_TRANSLOG).
PollInSync(s) ==
  /\ s \notin dead /\ Free(Master) /\ lastslave = None
  /\ lastslave' = s
  /\ UNCHANGED <<at, handler, service, target, store, told, calls, dead>>

\* A slave dies.  What its clients have not been told they are not told.
Die(s) ==
  /\ s \notin dead /\ Cardinality(dead) < MaxDeath
  /\ dead' = dead \cup {s}
  /\ LET lost == {w \in Write : at[w] = s /\ handler[w] \in {"queued", "waiting"}} IN
       /\ handler' = [w \in Write |-> IF w \in lost THEN "ended" ELSE handler[w]]
       /\ told' = [w \in Write |-> IF w \in lost THEN "failed" ELSE told[w]]
  /\ UNCHANGED <<at, service, target, store, calls, lastslave>>

Step(w) == Forward(w) \/ Serve(w) \/ PushServed(w) \/ PushFails(w)

Next ==
  \/ \E w \in Write : Step(w) \/ \E n \in Node : Send(w, n)
  \/ TimesOut
  \/ \E s \in Slave : PollInSync(s) \/ Die(s)

Spec == Init /\ [][Next]_vars

\* A task for which there is a thread is run, and so is the timer of a connection.
FairSpec == Spec /\ (\A w \in Write : WF_vars(Step(w))) /\ WF_vars(TimesOut)

-----------------------------------------------------------------------------
\* The kinds of values the state holds.
TypeOK ==
  /\ at \in [Write -> Node \cup {None}]
  /\ handler \in [Write -> {"none", "queued", "waiting", "ended"}]
  /\ service \in [Write -> {"none", "queued", "pushing", "done"}]
  /\ target \in [Write -> Slave \cup {None}]
  /\ logged \subseteq Write /\ committed \subseteq logged /\ threw \subseteq logged
  /\ told \in [Write -> {"nothing", "ok", "refused", "unknown", "failed"}]
  /\ calls \in Seq(Call)
  /\ lastslave \in Slave \cup {None}
  /\ dead \subseteq Slave

\* When no handler can go on and some call waits, it is because the pool of a
\* slave is full of handlers that wait for the master while the master waits
\* for that slave: there is no other way for the nodes to wait for each other.
StuckIsAJam ==
  (Stuck /\ \E i \in DOMAIN calls : Pending(calls[i])) =>
    \E w \in Write : /\ service[w] = "pushing" /\ target[w] \notin dead
                     /\ Cardinality(Waiting(target[w])) >= Threads[target[w]]

\* What a client is told is so: a write it was told of is logged and committed; one
\* that was refused is not, and no slave gets it, whatever became of a push, unless
\* its own commit threw after the log was written.
AnswersAreTrue ==
  \A w \in Write : /\ told[w] = "ok" => w \in committed
                   /\ told[w] \in {"refused", "unknown"} => w \notin logged \ threw

\* Every handler ends, on the slave and on the master, also those that wait for
\* each other: the timer of the oldest connection frees a thread.
EveryHandlerEnds ==
  \A w \in Write : /\ (handler[w] = "queued") ~> (handler[w] = "ended")
                   /\ (service[w] = "queued") ~> (service[w] = "done")

\* A write that a living node could not pass on is not done.  ForwardingFails.cfg
\* finds one that is.
FailedIsNotDone ==
  \A w \in Write : told[w] = "failed" /\ at[w] \notin dead => w \notin committed

\* What is refused is not done.  ForwardingFails.cfg finds a write that is refused
\* although it is committed, because the index could not take it.
RefusedIsNotDone ==
  \A w \in Write : told[w] \in {"refused", "unknown"} => w \notin logged

\* A client of a slave is told why its write was refused.  ForwardingFails.cfg
\* shows that it is not.
ReasonIsTold == \A w \in Write : told[w] # "unknown"
=============================================================================
