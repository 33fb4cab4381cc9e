------------------------------- MODULE Shutdown -------------------------------
(***************************************************************************)
(* How the process stops (src/src/main/DefaultServer.cc).  The handler of  *)
(* SIGTERM runs on the one thread that runs io_whatever: it makes the      *)
(* process not ready, sleeps, waits for SharedTable::tmpcache to be empty  *)
(* and stops the servers and io_whatever.  While it runs nothing is        *)
(* received, and no call that HrpcClient makes through io_whatever comes   *)
(* back.  When main returns, the pool of threads is joined; the thread of  *)
(* SyncServer is not.                                                      *)
(*                                                                         *)
(* Abstractions: every write is about a name of its own (two about one     *)
(* name are the subject of module ManageData), and it is not refused; the  *)
(* other side of a call always answers.                                    *)
(***************************************************************************)
EXTENDS Naturals

CONSTANTS
  Worker,    \* threads of the pool
  MaxChunk   \* bound on the transactions in an answer to R_TRANSLOG

ASSUME ShutdownAssumption == MaxChunk \in Nat \ {0}

VARIABLES
  ismaster,  \* SharedTable::is_master; a slave has a sync thread
  level,     \* TRUE: SharedTable::lastslave of a master names a slave
  main,      \* what the io thread does; "signal" to "check" are the handler's
  pc,        \* pc[w]: what worker w does
  resets,    \* the workers with a request to reset a password
  late,      \* those that had received a request 500 ms after the signal and not
             \* got further
  sync,      \* what the sync thread of a slave does
  left,      \* the transactions it has still to commit
  tmpcache   \* SharedTable::tmpcache: names of workers, "slave" for the sync thread

ShutdownVars == <<ismaster, level, main, pc, resets, late, sync, left, tmpcache>>

\* What nothing here changes.
role == <<ismaster, level>>

ShutdownInit ==
  /\ ismaster \in BOOLEAN /\ level \in {FALSE, ismaster}
  /\ main = "run"
  /\ pc = [w \in Worker |-> "idle"]
  /\ resets = {} /\ late = {}
  /\ sync = IF ismaster THEN "none" ELSE "poll"
  /\ left = 0
  /\ tmpcache = {}

GoTo(w, step) == pc' = [pc EXCEPT ![w] = step]

-----------------------------------------------------------------------------
(* The threads of the pool.  The first and the last step of a request need *)
(* the io thread only to receive, and to bring back the answer to a call.  *)

Accept(w) ==
  /\ main = "run" /\ pc[w] = "idle"
  /\ GoTo(w, "accepted")
  /\ resets' \in {resets, resets \cup {w}}
  /\ UNCHANGED <<role, late, main, sync, left, tmpcache>>

\* The test of is_ready.  A slave's handler answers a query, or sends a write to
\* the master.
CheckReady(w) ==
  /\ pc[w] = "accepted"
  /\ \/ main # "run" /\ GoTo(w, "end")
     \/ main = "run" /\ ismaster /\ GoTo(w, "ready")
     \/ main = "run" /\ ~ismaster /\ \E step \in {"await", "end"} : GoTo(w, step)
  /\ UNCHANGED <<role, late, main, resets, sync, left, tmpcache>>

\* ReserveName, which ResetPassAction does not do.
Reserve(w) ==
  /\ pc[w] = "ready"
  /\ GoTo(w, "reserved")
  /\ tmpcache' = IF w \in resets THEN tmpcache ELSE tmpcache \cup {w}
  /\ UNCHANGED <<role, late, main, resets, sync, left>>

\* CommitLog.
Log(w) ==
  /\ pc[w] = "reserved"
  /\ GoTo(w, "logged")
  /\ UNCHANGED <<role, late, main, resets, sync, left, tmpcache>>

\* CommitData, and the call that sends the transaction to the last slave.
WriteData(w) ==
  /\ pc[w] = "logged"
  /\ GoTo(w, IF level THEN "await" ELSE "end")
  /\ UNCHANGED <<role, late, main, resets, sync, left, tmpcache>>

\* The answer to a call comes by the io thread.
Answered(w) ==
  /\ main = "run" /\ pc[w] = "await"
  /\ GoTo(w, "end")
  /\ UNCHANGED <<role, late, main, resets, sync, left, tmpcache>>

\* Mutant of End: the destructor of TempNameCache does nothing.
EndReserved(w) ==
  /\ pc[w] = "end"
  /\ GoTo(w, "idle")
  /\ resets' = resets \ {w}
  /\ UNCHANGED <<role, late, main, sync, left, tmpcache>>

\* The handler returns; the destructor of TempNameCache frees the name.
End(w) ==
  /\ pc[w] = "end"
  /\ GoTo(w, "idle")
  /\ tmpcache' = tmpcache \ {w}
  /\ resets' = resets \ {w}
  /\ UNCHANGED <<role, late, main, sync, left>>

-----------------------------------------------------------------------------
(* The sync thread of a slave: SyncFromMaster.                             *)

\* R_TRANSLOG is answered; the answer comes by the io thread.
Polled ==
  /\ main = "run" /\ sync = "poll"
  /\ left' \in 0..MaxChunk
  /\ sync' = IF left' = 0 THEN "poll" ELSE "have"
  /\ UNCHANGED <<role, late, main, pc, resets, tmpcache>>

\* Commit of one of the transactions: MultiTypeLock and CommitLog ...
SyncLock ==
  /\ main # "exited" /\ sync = "have"
  /\ tmpcache' = tmpcache \cup {"slave"}
  /\ sync' = "locked"
  /\ UNCHANGED <<role, late, main, pc, resets, left>>

SyncLog ==
  /\ main # "exited" /\ sync = "locked"
  /\ sync' = "logged"
  /\ UNCHANGED <<role, late, main, pc, resets, left, tmpcache>>

\* ... CommitData, and the lock is freed.  to_stop_sync is looked at before the
\* next poll only.
SyncWrite ==
  /\ main # "exited" /\ sync = "logged"
  /\ left' = left - 1
  /\ sync' = IF left' > 0 THEN "have" ELSE IF main = "stopped" THEN "none" ELSE "poll"
  /\ tmpcache' = tmpcache \ {"slave"}
  /\ UNCHANGED <<role, late, main, pc, resets>>

-----------------------------------------------------------------------------
(* The io thread: the handler of the signal, and main after it.            *)

\* SIGTERM arrives, is_ready is set to false.
Signal ==
  /\ main = "run"
  /\ main' = "signal"
  /\ UNCHANGED <<role, late, pc, resets, sync, left, tmpcache>>

\* The end of the sleep of 500 ms.
WakeUp ==
  /\ main = "signal"
  /\ late' = {w \in Worker : pc[w] \in {"accepted", "ready"}}
  /\ main' = "check"
  /\ UNCHANGED <<role, pc, resets, sync, left, tmpcache>>

\* Mutant of Stop: what is reserved is not waited for.
StopAtOnce ==
  /\ main = "check"
  /\ main' = "stopped"
  /\ UNCHANGED <<role, late, pc, resets, sync, left, tmpcache>>

\* AssocSize is 0: the servers and io_whatever stop, and main leaves the block
\* that owns the servers.
Stop ==
  /\ main = "check" /\ tmpcache = {}
  /\ main' = "stopped"
  /\ UNCHANGED <<role, late, pc, resets, sync, left, tmpcache>>

\* Mutant of Exit: the pool is not joined.
ExitAtOnce ==
  /\ main = "stopped"
  /\ main' = "exited"
  /\ UNCHANGED <<role, late, pc, resets, sync, left, tmpcache>>

\* The process ends when the threads of the pool have no more to do.
Exit ==
  /\ main = "stopped" /\ \A w \in Worker : pc[w] = "idle"
  /\ main' = "exited"
  /\ UNCHANGED <<role, late, pc, resets, sync, left, tmpcache>>

Handle(w) == CheckReady(w) \/ Reserve(w) \/ Log(w) \/ WriteData(w) \/ Answered(w) \/ End(w)
Sync == Polled \/ SyncLock \/ SyncLog \/ SyncWrite
Main == WakeUp \/ Stop \/ Exit

ShutdownNext == Signal \/ Main \/ Sync \/ \E w \in Worker : Accept(w) \/ Handle(w)

ShutdownSpec == ShutdownInit /\ [][ShutdownNext]_ShutdownVars

\* Threads go on, and signals need not come.
ShutdownFairSpec ==
  /\ ShutdownSpec
  /\ \A w \in Worker : WF_ShutdownVars(Handle(w))
  /\ WF_ShutdownVars(Sync) /\ WF_ShutdownVars(Main)

-----------------------------------------------------------------------------
\* The kinds of values the state holds.
ShutdownTypeOK ==
  /\ ismaster \in BOOLEAN /\ level \in BOOLEAN
  /\ main \in {"run", "signal", "check", "stopped", "exited"}
  /\ pc \in [Worker -> {"idle", "accepted", "ready", "reserved", "logged", "await", "end"}]
  /\ resets \subseteq Worker /\ late \subseteq Worker
  /\ sync \in {"none", "poll", "have", "locked", "logged"}
  /\ left \in 0..MaxChunk
  /\ tmpcache \subseteq Worker \cup {"slave"}

Stopped == main \in {"stopped", "exited"}

\* The request of w does not write, or no more.
Ended(w) == pc[w] \in {"idle", "accepted", "end"}

\* When a master's servers stop, the writes that were received have ended
\* ("confirm received writes ended"), but for those that had not reserved their
\* names when the handler of the signal woke up, and resets of passwords.
WritesHaveEnded ==
  (Stopped /\ ismaster) => \A w \in Worker \ (late \cup resets) : Ended(w)

\* So have the resets.
ResetsHaveEnded == (Stopped /\ ismaster) => \A w \in Worker \ late : Ended(w)

\* The process does not end between the two halves of a commit of the pool.
CommitsWhole == main = "exited" => \A w \in Worker : pc[w] # "logged"

\* Nor between those of the sync thread ("For clean shutdown").
SyncCommitsWhole == main = "exited" => sync # "logged"

\* A process that is told to end ends, unless a handler waits for the answer to a
\* call: the thread that has to bring it is the one that waits.
Exits == (main = "signal") ~> (main = "exited" \/ \E w \in Worker : pc[w] = "await")

\* A process that is told to end ends.
AlwaysExits == (main = "signal") ~> (main = "exited")
=============================================================================
