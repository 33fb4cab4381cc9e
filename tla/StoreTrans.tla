----------------------------- MODULE StoreTrans -----------------------------
(***************************************************************************)
(* The commit pipeline of one node (src/src/store/StoreTrans.cc) and the   *)
(* log reader it serves to the other nodes.                                *)
(*                                                                         *)
(* Requests run in a thread pool and commit concurrently.  Commit takes a  *)
(* log id from a shared counter, writes the log record, then writes the    *)
(* data: three separate critical sections, with a possible error after the *)
(* second and third, and a possible crash anywhere.  A log reader          *)
(* (R_TRANSLOG) reads the counter, scans the log on a snapshot and reads   *)
(* the counter again.                                                      *)
(*                                                                         *)
(* Abstractions: a transaction is the partial function from keys to values *)
(* of its items, with Absent for an item that has to_del set; the copy of  *)
(* a slave is the sequence of transactions it took from the replies, in    *)
(* order (loss of replies and slave restarts are in module Replication).   *)
(***************************************************************************)
EXTENDS Integers, Sequences, FiniteSets

CONSTANTS
  Workers,    \* threads that run a Manage or ResetPass action on the master
  Pollers,    \* slaves that poll this node with R_TRANSLOG
  Keys,       \* keys of the data store
  Values,     \* values of the data store
  Absent,     \* no value: the key is not in the store, or the item deletes it
  Items,      \* the transactions requests may commit: functions on sets of keys
  Exclusive,  \* TRUE: the callers reserved what they write (TempNameCache)
  Limit,      \* TransListT.limit of a poll
  MaxLog,     \* bound on the log counter
  MaxCrash,   \* bound on the number of crashes
  MaxFail     \* bound on the number of failed store writes

\* The transactions over Keys: an item for some of the keys.
Txn == UNION {[S -> Values \cup {Absent}] : S \in SUBSET Keys}

ASSUME ConstantsAssumption ==
  /\ Absent \notin Values
  /\ Items \subseteq {m \in Txn : DOMAIN m # {}}
  /\ Exclusive \in BOOLEAN
  /\ Limit \in Nat /\ MaxLog \in Nat /\ MaxCrash \in Nat /\ MaxFail \in Nat

VARIABLES
  logcounter, \* SharedTable::logcounter, in memory
  logdb,      \* K_LOGNODE records: a function from log ids to transactions
  maindb,     \* the data store
  task,       \* task[w]: the Commit call of thread w
  copy,       \* copy[p]: what poller p took over so far, in order
  poll,       \* poll[p]: the R_TRANSLOG call of poller p
  acked,      \* log ids of the Commit calls that returned to their caller
  crashes, fails

vars == <<logcounter, logdb, maindb, task, copy, poll, acked, crashes, fails>>

-----------------------------------------------------------------------------
NoItems == [k \in {} |-> Absent]
Idle == [pc |-> "idle", items |-> NoItems, id |-> 0]
NoPoll == [pc |-> "idle", seen |-> {}, run |-> 0, caughtup |-> FALSE]

Logged == DOMAIN logdb

\* The value of k in a store that applied the transactions of log in id order:
\* the one the last of them that has an item for k leaves.
Replayed(log, k) ==
  LET writers == {i \in DOMAIN log : k \in DOMAIN log[i]}
      last == {i \in writers : \A j \in writers : j <= i}
  IN IF last = {} THEN Absent ELSE log[CHOOSE i \in last : TRUE][k]

Init ==
  /\ logcounter = 0
  /\ logdb = [i \in {} |-> NoItems]
  /\ maindb = [k \in Keys |-> Absent]
  /\ task = [w \in Workers |-> Idle]
  /\ copy = [p \in Pollers |-> << >>]
  /\ poll = [p \in Pollers |-> NoPoll]
  /\ acked = {}
  /\ crashes = 0
  /\ fails = 0

-----------------------------------------------------------------------------
(* Commit, one action per step another thread can come between.            *)

\* Mutant of Begin: callers that do not reserve what they write.
BeginUnreserved(w, m) ==
  /\ task[w].pc = "idle"
  /\ task' = [task EXCEPT ![w] = [pc |-> "begun", items |-> m, id |-> 0]]
  /\ UNCHANGED <<logcounter, logdb, maindb, copy, poll, acked, crashes, fails>>

\* A request calls Commit.  An empty transaction returns at once, so only the
\* others are inputs.
Begin(w, m) ==
  /\ task[w].pc = "idle"
  /\ Exclusive => \A v \in Workers : DOMAIN task[v].items \cap DOMAIN m = {}
  /\ task' = [task EXCEPT ![w] = [pc |-> "begun", items |-> m, id |-> 0]]
  /\ UNCHANGED <<logcounter, logdb, maindb, copy, poll, acked, crashes, fails>>

\* Mutant of GetNext: the id after the last record written, not the counter's.
GetNextLastLogged(w) ==
  /\ task[w].pc = "begun"
  /\ \E last \in Logged \cup {0} :
       /\ last < MaxLog /\ \A i \in Logged : i <= last
       /\ logcounter' = last + 1
       /\ task' = [task EXCEPT ![w] = [@ EXCEPT !.pc = "numbered", !.id = last + 1]]
  /\ UNCHANGED <<logdb, maindb, copy, poll, acked, crashes, fails>>

\* trans->set_id(logcounter.GetNext()): atomic, but apart from the write.
GetNext(w) ==
  /\ task[w].pc = "begun"
  /\ logcounter < MaxLog
  /\ logcounter' = logcounter + 1
  /\ task' = [task EXCEPT ![w] = [@ EXCEPT !.pc = "numbered", !.id = logcounter + 1]]
  /\ UNCHANGED <<logdb, maindb, copy, poll, acked, crashes, fails>>

\* Mutant of WriteLog: the status of the write is not looked at.
WriteLogUnchecked(w) ==
  /\ task[w].pc = "numbered"
  /\ logdb' \in {logdb, [i \in Logged \cup {task[w].id} |->
                           IF i = task[w].id THEN task[w].items ELSE logdb[i]]}
  /\ task' = [task EXCEPT ![w].pc = "logged"]
  /\ UNCHANGED <<logcounter, maindb, copy, poll, acked, crashes, fails>>

\* logdb->Write succeeds.
WriteLog(w) ==
  /\ task[w].pc = "numbered"
  /\ logdb' = [i \in Logged \cup {task[w].id} |->
                 IF i = task[w].id THEN task[w].items ELSE logdb[i]]
  /\ task' = [task EXCEPT ![w].pc = "logged"]
  /\ UNCHANGED <<logcounter, maindb, copy, poll, acked, crashes, fails>>

\* maindb->Write succeeds: the batch is atomic.
WriteData(w) ==
  /\ task[w].pc = "logged"
  /\ maindb' = [k \in Keys |-> IF k \in DOMAIN task[w].items
                               THEN task[w].items[k] ELSE maindb[k]]
  /\ task' = [task EXCEPT ![w].pc = "stored"]
  /\ UNCHANGED <<logcounter, logdb, copy, poll, acked, crashes, fails>>

\* Commit returns, after the push to lastslave (module Replication) and
\* AddToCache (module RecordCache), which leave this state alone.
Return(w) ==
  /\ task[w].pc = "stored"
  /\ acked' = acked \cup {task[w].id}
  /\ task' = [task EXCEPT ![w] = Idle]
  /\ UNCHANGED <<logcounter, logdb, maindb, copy, poll, crashes, fails>>

\* A store write returns a bad status and Commit throws: before the log record
\* ("numbered") or before the data ("logged").  Nothing done so far is undone.
WriteFails(w) ==
  /\ task[w].pc \in {"numbered", "logged"}
  /\ fails < MaxFail
  /\ fails' = fails + 1
  /\ task' = [task EXCEPT ![w] = Idle]
  /\ UNCHANGED <<logcounter, logdb, maindb, copy, poll, acked, crashes>>

-----------------------------------------------------------------------------
(* R_TRANSLOG: the counter is read, the log is scanned, the counter is read *)
(* again.                                                                   *)

\* The handler's first look at the counter.  lastid of the request is what the
\* poller has; a poller ahead of the counter gets an error and keeps polling,
\* one level with it is told so at once.
PollBegin(p) ==
  /\ poll[p].pc = "idle"
  /\ Len(copy[p]) <= logcounter
  /\ LET level == Len(copy[p]) = logcounter
     IN poll' = [poll EXCEPT ![p] = [pc |-> IF level THEN "idle" ELSE "scan",
                                     seen |-> acked, run |-> 0, caughtup |-> level]]
  /\ UNCHANGED <<logcounter, logdb, maindb, task, copy, acked, crashes, fails>>

\* Mutant of PollScan: the loop of ReadLog breaks before the record that
\* exceeds the limit is added.
PollScanBreakEarly(p) ==
  /\ poll[p].pc = "scan"
  /\ \E n \in 0..Limit :
       /\ \A j \in 1..n : Len(copy[p]) + j \in Logged
       /\ n = Limit \/ Len(copy[p]) + n + 1 \notin Logged
       /\ poll' = [poll EXCEPT ![p] = [@ EXCEPT !.pc = "reply", !.run = n]]
  /\ UNCHANGED <<logcounter, logdb, maindb, task, copy, acked, crashes, fails>>

\* ReadLog iterates from lastid over a snapshot: run is the number of records
\* found one after the other, at most Limit + 1, up to the first missing id.
PollScan(p) ==
  /\ poll[p].pc = "scan"
  /\ \E n \in 0..(Limit + 1) :
       /\ \A j \in 1..n : Len(copy[p]) + j \in Logged
       /\ n = Limit + 1 \/ Len(copy[p]) + n + 1 \notin Logged
       /\ poll' = [poll EXCEPT ![p] = [@ EXCEPT !.pc = "reply", !.run = n]]
  /\ UNCHANGED <<logcounter, logdb, maindb, task, copy, acked, crashes, fails>>

\* Mutant of PollReply: a reply without records is taken for "in sync".
PollReplyEmptyIsSync(p) ==
  /\ poll[p].pc = "reply"
  /\ copy' = [copy EXCEPT ![p] = @ \o [j \in 1..poll[p].run |-> logdb[Len(@) + j]]]
  /\ poll' = [poll EXCEPT ![p] =
                [@ EXCEPT !.pc = "idle", !.run = 0, !.caughtup = (poll[p].run = 0)]]
  /\ UNCHANGED <<logcounter, logdb, maindb, task, acked, crashes, fails>>

\* currid is the counter at this moment.  The poller commits the records it
\* got, and is in sync if the last of them is currid.
PollReply(p) ==
  /\ poll[p].pc = "reply"
  /\ copy' = [copy EXCEPT ![p] = @ \o [j \in 1..poll[p].run |-> logdb[Len(@) + j]]]
  /\ poll' = [poll EXCEPT ![p] =
                [@ EXCEPT !.pc = "idle", !.run = 0,
                          !.caughtup = (Len(copy[p]) + poll[p].run = logcounter)]]
  /\ UNCHANGED <<logcounter, logdb, maindb, task, acked, crashes, fails>>

-----------------------------------------------------------------------------
\* Mutant of CrashRestart: the counter is not read back from the log.
CrashRestartAtZero ==
  /\ crashes < MaxCrash
  /\ crashes' = crashes + 1
  /\ logcounter' = 0
  /\ task' = [w \in Workers |-> Idle]
  /\ poll' = [p \in Pollers |-> NoPoll]
  /\ UNCHANGED <<logdb, maindb, copy, acked, fails>>

\* The process dies and comes back: the calls in progress are gone, the stores
\* are not, and the counter restarts at the largest id in the log (StoreLevel
\* Initialize, WorkServer init).  Nothing replays the log into the data.
CrashRestart ==
  /\ crashes < MaxCrash
  /\ crashes' = crashes + 1
  /\ \E last \in Logged \cup {0} : /\ \A i \in Logged : i <= last
                                   /\ logcounter' = last
  /\ task' = [w \in Workers |-> Idle]
  /\ poll' = [p \in Pollers |-> NoPoll]
  /\ UNCHANGED <<logdb, maindb, copy, acked, fails>>

CommitStep(w) ==
  \/ GetNext(w) \/ WriteLog(w) \/ WriteData(w) \/ Return(w)

PollStep(p) == PollBegin(p) \/ PollScan(p) \/ PollReply(p)

Next ==
  \/ \E w \in Workers : \/ \E m \in Items : Begin(w, m)
                        \/ CommitStep(w)
                        \/ WriteFails(w)
  \/ \E p \in Pollers : PollStep(p)
  \/ CrashRestart

Spec == Init /\ [][Next]_vars

\* A thread in Commit is never blocked, and a slave polls for ever (the loop of
\* SyncFromMaster); nothing forces a request, a failed write or a crash.
FairSpec ==
  /\ Spec
  /\ \A w \in Workers : WF_vars(CommitStep(w))
  /\ \A p \in Pollers : WF_vars(PollStep(p))

-----------------------------------------------------------------------------
\* The kinds of values the state holds.
TypeOK ==
  /\ logcounter \in Nat
  /\ Logged \subseteq Nat \ {0} /\ \A i \in Logged : logdb[i] \in Txn
  /\ maindb \in [Keys -> Values \cup {Absent}]
  /\ task \in [Workers -> [pc : {"idle", "begun", "numbered", "logged", "stored"},
                           items : Txn, id : Nat]]
  /\ copy \in [Pollers -> Seq(Txn)]
  /\ poll \in [Pollers -> [pc : {"idle", "scan", "reply"}, seen : SUBSET Nat,
                           run : Nat, caughtup : BOOLEAN]]
  /\ acked \in SUBSET Nat
  /\ crashes \in Nat /\ fails \in Nat

\* A log record is written once: no commit, in whatever order the threads reach
\* the log and also after a restart put the counter back, overwrites an id that
\* is in the log (logcounter.GetNext apart from logdb->Write; WorkServer init).
LogAppendOnly ==
  [][\A i \in Logged : i \in Logged' /\ logdb'[i] = logdb[i]]_vars

\* What a slave took over is the log of this node from the first id on, without
\* gaps, whatever the threads were doing while ReadLog scanned.
CopyIsPrefix ==
  \A p \in Pollers : \A i \in 1..Len(copy[p]) :
    i \in Logged /\ logdb[i] = copy[p][i]

\* A slave that is told it is in sync (lastid = currid, the exit of the loop of
\* SyncFirst) has every commit that had returned when its poll began.
CaughtUpHasAcked ==
  \A p \in Pollers : poll[p].caughtup => poll[p].seen \subseteq 1..Len(copy[p])

\* The ids that are not in the log and that no commit is about to write there.
Gap == ((1..logcounter) \ Logged) \ {task[w].id : w \in Workers}

\* The ids of the log are a sequence, but for those on their way to it ("write
\* log ensure id is sequentially generated").  A crash or a failed write breaks
\* it for ever.
LogHasNoGap == Gap = {}

\* Without crash or failed write it stays so.
GapsAreInFlight == (crashes = 0 /\ fails = 0) => LogHasNoGap

\* The part of the log whose data is written.
Applied == Logged \ {task[w].id : w \in {v \in Workers : task[v].pc = "logged"}}

\* Without crash or failed write and with callers that reserved what they
\* write, the data is the replay, in id order, of the log without the commits
\* between the two writes: what a slave computes from the log is what the
\* master serves.
DataFollowsLog ==
  (Exclusive /\ crashes = 0 /\ fails = 0) =>
    \A k \in Keys : maindb[k] = Replayed([i \in Applied |-> logdb[i]], k)

\* Once nothing is in progress and a slave has the whole log, the data it got
\* by applying the log in order is the data of the master.
SlaveDataMatches ==
  \A p \in Pollers :
    ((\A w \in Workers : task[w].pc = "idle") /\ Len(copy[p]) = logcounter) =>
      \A k \in Keys : Replayed(copy[p], k) = maindb[k]

\* Every commit that returned reaches every slave that keeps polling, unless
\* the log has a gap, at which ReadLog stops.
AckedIsReplicated ==
  \A i \in 1..MaxLog : \A p \in Pollers :
    (i \in acked) ~> (Len(copy[p]) >= i \/ ~LogHasNoGap)
=============================================================================
