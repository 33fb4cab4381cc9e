------------------------------- MODULE Election -------------------------------
(***************************************************************************)
(* Which node is the master: registration of slaves, failure detection and *)
(* election (src/src/hrpc/RemoteKeeper.cc, the failure branch of           *)
(* SyncServer::SyncFromMaster, the handlers R_REGISTER and R_SETINFO).     *)
(*                                                                         *)
(* A slave whose polls fail FailOne times in a row tells every node it     *)
(* knows how long its log is; after FailTwo it compares what it was told   *)
(* since its first failure with its own log and either becomes the master  *)
(* or registers with the best node.  Nothing else is agreed on.            *)
(*                                                                         *)
(* Abstractions: nodes are numbers, ordered like their URLs; time is       *)
(* counted in intervals between polls, and every node has a clock of its   *)
(* own, which is ahead of the time by a constant; a poll that succeeds     *)
(* brings all that is missing, the chunks being in module Replication; the *)
(* list a master sends to the nodes it knows reaches those that can be     *)
(* reached in one step.  A process that died may be started again, with    *)
(* the master that whoever starts it names (--master), or as the master    *)
(* that it was.                                                            *)
(***************************************************************************)
EXTENDS Integers, Sequences, FiniteSets

CONSTANTS
  Node,         \* the processes, numbers ordered like their URLs
  FirstMaster,  \* the one whose configuration names no master
  FailOne,      \* SYNCMASTER_FAILCOUNT_ONE
  FailTwo,      \* SYNCMASTER_FAILCOUNT_TWO
  MaxRetries,   \* ELECTION_MAX_RETRIES
  Skew,         \* failed polls one slave may be ahead of another
  Offset,       \* Offset[n]: how far the clock of n is ahead, in intervals
  Calm,         \* TRUE: slaves start one by one, and nothing dies meanwhile
  MaxCommit, MaxCrash, MaxCut, MaxReturn, MaxTime   \* bounds

Slaves == Node \ {FirstMaster}

ASSUME ElectionAssumption ==
  /\ Node \subseteq Nat /\ IsFiniteSet(Node) /\ FirstMaster \in Node
  /\ 1 < FailOne /\ FailOne < FailTwo /\ MaxRetries > 0 /\ Skew > 0
  /\ {FailOne, FailTwo, MaxRetries, Skew} \subseteq Nat
  /\ {MaxCommit, MaxCrash, MaxCut, MaxReturn, MaxTime} \subseteq Nat
  /\ Offset \in [Node -> Nat]
  /\ Calm \in BOOLEAN

VARIABLES
  pc,       \* pc[n]: what n does; "new" before R_REGISTER, "down" when it died
  ismaster, \* ismaster[n]: SharedTable::is_master
  follows,  \* follows[n]: SharedTable::master
  log,      \* log[n]: the transactions in the log of n
  fails,    \* fails[n]: failcount
  cutoff,   \* cutoff[n]: faildetected
  remotes,  \* remotes[n]: SharedTable::remotes, [len, ts] of the nodes n knows
  todo,     \* todo[n]: the nodes HostUpdate of n has still to tell
  sent,     \* sent[n]: the [len, ts] of n it tells them
  choice,   \* choice[n]: newmaster, with which n tries to register
  tries,    \* tries[n]: retries
  cut,      \* the pairs <<n, t>> such that n cannot call t
  split,    \* there have been two masters
  clock,    \* the time, from 1 on: 0 is the time stamp of nothing
  commits, crashes, returns

vars == <<pc, ismaster, follows, log, fails, cutoff, remotes, todo, sent, choice, tries,
          cut, split, clock, commits, crashes, returns>>

Info == [len : Nat, ts : Nat]

Init ==
  /\ pc = [n \in Node |-> IF n = FirstMaster THEN "master" ELSE "new"]
  /\ ismaster = [n \in Node |-> n = FirstMaster]
  /\ follows = [n \in Node |-> FirstMaster]
  /\ log = [n \in Node |-> << >>]
  /\ fails = [n \in Node |-> 0] /\ cutoff = [n \in Node |-> 0]
  /\ remotes = [n \in Node |-> [r \in {} |-> [len |-> 0, ts |-> 0]]]
  /\ todo = [n \in Node |-> {}] /\ sent = [n \in Node |-> [len |-> 0, ts |-> 0]]
  /\ choice = [n \in Node |-> n] /\ tries = [n \in Node |-> 0]
  /\ cut = {} /\ split = FALSE
  /\ clock = 1 /\ commits = 0 /\ crashes = 0 /\ returns = 0

-----------------------------------------------------------------------------
\* t answers n: it runs, is ready, and n can call it.
Reaches(n, t) == pc[t] \notin {"new", "registered", "down"} /\ <<n, t>> \notin cut

\* What GetHosts of n says of n, by its own clock.
Self(n, time) == [len |-> Len(log[n]), ts |-> time + Offset[n]]

\* The map a with the entries of b, SharedPairMap::AddMany.
AddMany(a, b) ==
  [r \in DOMAIN a \cup DOMAIN b |-> IF r \in DOMAIN b THEN b[r] ELSE a[r]]

\* R_REGISTER of n at t.  A master notes n and sends its list to all the nodes
\* on it (HostUpdate); the others only answer.  A master's list replaces what
\* the receivers have.
Registered(n, t, info) ==
  LET list == AddMany(remotes[t], [r \in {n} |-> info])
  IN [r \in Node |->
        IF ~ismaster[t] THEN remotes[r]
        ELSE IF r = t THEN list
        ELSE IF r \in DOMAIN list /\ Reaches(t, r) THEN AddMany(remotes[r], list)
        ELSE remotes[r]]

\* A slave has registered and does not answer yet.
Starting == \E r \in Node : pc[r] = "registered"

\* CompareLog: the last entry but one is at t, too.
SameLog(n, t) ==
  LET last == Len(log[n]) - 1
  IN last > 0 => last <= Len(log[t]) /\ log[n][last] = log[t][last]

\* The log of n with what t has after it.
CaughtUp(n, t) == log[n] \o SubSeq(log[t], Len(log[n]) + 1, Len(log[t]))

\* SyncFirst: a slave has caught up with the node it was pointed at and registers
\* with the master, which is that node or the one it follows.  One that has a log
\* never gets there: it waits in CompareLog for a client that nothing serves yet
\* (CompareFirst of module Replication).
Register(n) ==
  LET t == follows[n]
      m == IF ismaster[t] THEN t ELSE follows[t]
      info == [len |-> Len(log[t]), ts |-> clock + Offset[n]]
  IN
  /\ pc[n] = "new"
  /\ Calm => ~Starting
  /\ log[n] = << >> /\ Reaches(n, t)
  /\ Reaches(n, m) /\ ismaster[m]
  /\ log' = [log EXCEPT ![n] = log[t]]
  /\ follows' = [follows EXCEPT ![n] = m]
  /\ pc' = [pc EXCEPT ![n] = "registered"]
  /\ LET told == Registered(n, m, info)
     IN remotes' = [told EXCEPT ![n] = AddMany(@, told[m])]
  /\ UNCHANGED <<ismaster, fails, cutoff, todo, sent, choice, tries, cut, clock, commits,
                 crashes, split, returns>>

\* is_ready is set and the loop of SyncFromMaster runs, unless the comparison
\* with the master failed, which ends its thread.
BecomeReady(n) ==
  LET m == follows[n] IN
  /\ pc[n] = "registered"
  /\ pc' = [pc EXCEPT ![n] = IF log[n] = << >> \/ (Reaches(n, m) /\ SameLog(n, m))
                             THEN "loop" ELSE "dead"]
  /\ UNCHANGED <<ismaster, follows, log, fails, cutoff, remotes, todo, sent, choice, tries,
                 cut, clock, commits, crashes, split, returns>>

\* A client writes to a master.
Commit(n) ==
  /\ pc[n] = "master" /\ commits < MaxCommit
  /\ commits' = commits + 1
  /\ log' = [log EXCEPT ![n] = Append(@, commits + 1)]
  /\ UNCHANGED <<pc, ismaster, follows, fails, cutoff, remotes, todo, sent, choice, tries,
                 cut, clock, crashes, split, returns>>

-----------------------------------------------------------------------------
(* The loop of SyncFromMaster.                                             *)

\* The poll succeeds: the log of the other node from the end of its own on.
PollOK(n) ==
  LET t == follows[n] IN
  /\ pc[n] = "loop"
  /\ Reaches(n, t) /\ Len(log[n]) <= Len(log[t])
  /\ log' = [log EXCEPT ![n] = CaughtUp(n, t)]
  /\ fails' = [fails EXCEPT ![n] = 0]
  /\ UNCHANGED <<pc, ismaster, follows, cutoff, remotes, todo, sent, choice, tries, cut,
                 clock, commits, crashes, split, returns>>

\* R_TRANSLOG of n fails: no answer, or "Remote Log Counter ahead".
Failing(n) == ~Reaches(n, follows[n]) \/ Len(log[n]) > Len(log[follows[n]])

\* The slaves poll at the same pace: of those that fail to poll the same node,
\* none is Skew failures ahead of another that is not past its election.
InStep(n) ==
  \A r \in Node : (/\ pc[r] \in {"loop", "tell"} /\ follows[r] = follows[n]
                   /\ Failing(r) /\ fails[r] < FailTwo)
                  => fails[n] - fails[r] < Skew

\* None that follows the same node has failed more often.
Leads(n) == \A r \in Node : follows[r] = follows[n] => fails[r] <= fails[n]

\* The poll fails.  The first failure sets the cutoff, another makes HostUpdate
\* begin; the one that makes MasterUpdate begin is Elect.  After that failcount
\* only counts, here up to FailTwo + 1.  An interval has passed when the slave
\* that leads fails again.  What comes first within an interval is not known: the
\* cutoff may be rounded up.
PollFails(n) ==
  /\ pc[n] = "loop" /\ fails[n] <= FailTwo /\ fails[n] # FailTwo - 1
  /\ Failing(n)
  /\ InStep(n)
  /\ fails' = [fails EXCEPT ![n] = @ + 1]
  /\ clock' = IF Leads(n) THEN clock + 1 ELSE clock
  /\ \/ /\ fails[n] = 0
        /\ \E late \in {0, 1} : cutoff' = [cutoff EXCEPT ![n] = clock' + Offset[n] + late]
        /\ UNCHANGED <<pc, todo, sent>>
     \/ /\ fails[n] = FailOne - 1
        /\ pc' = [pc EXCEPT ![n] = "tell"]
        /\ todo' = [todo EXCEPT ![n] = DOMAIN remotes[n]]
        /\ sent' = [sent EXCEPT ![n] = Self(n, clock')]
        /\ UNCHANGED cutoff
     \/ /\ fails[n] \notin {0, FailOne - 1}
        /\ UNCHANGED <<pc, todo, sent, cutoff>>
  /\ UNCHANGED <<ismaster, follows, log, remotes, choice, tries, cut, commits,
                 crashes, split, returns>>

\* HostUpdate: R_SETINFO to one node after the other; failures are ignored.
Tell(n) ==
  /\ pc[n] = "tell"
  /\ \/ /\ todo[n] = {}
        /\ pc' = [pc EXCEPT ![n] = "loop"]
        /\ UNCHANGED <<todo, remotes>>
     \/ \E r \in todo[n] :
          /\ todo' = [todo EXCEPT ![n] = @ \ {r}]
          /\ remotes' = IF Reaches(n, r)
                        THEN [remotes EXCEPT ![r] = AddMany(@, [q \in {n} |-> sent[n]])]
                        ELSE remotes
          /\ UNCHANGED pc
  /\ UNCHANGED <<ismaster, follows, log, fails, cutoff, sent, choice, tries, cut, clock,
                 commits, crashes, split, returns>>

\* The candidates of MasterUpdate: n, and the nodes whose time stamp, by their
\* clocks, is not before the cutoff, by the clock of n.
Candidates(n) ==
  {n} \cup {r \in DOMAIN remotes[n] : remotes[n][r].ts >= cutoff[n]}

\* The length of the log of r as far as n knows.
Known(n, r) == IF r = n THEN Len(log[n]) ELSE remotes[n][r].len

\* Mutant of Best: ties are not broken by the URL, every node prefers itself.
BestPrefersSelf(n) ==
  LET longest == {b \in Candidates(n) : \A r \in Candidates(n) : Known(n, r) <= Known(n, b)}
  IN IF n \in longest THEN n ELSE CHOOSE b \in longest : \A r \in longest : r <= b

\* Mutant of Best: a node always gives way to another with a log as long.
BestPrefersOther(n) ==
  LET longest == {b \in Candidates(n) : \A r \in Candidates(n) : Known(n, r) <= Known(n, b)}
  IN IF longest = {n} THEN n ELSE CHOOSE b \in longest \ {n} : TRUE

\* Mutant of Best: the comparison of the lengths is the wrong way round.
BestIsShortest(n) ==
  CHOOSE b \in Candidates(n) : \A r \in Candidates(n) :
    Known(n, r) > Known(n, b) \/ (Known(n, r) = Known(n, b) /\ r <= b)

\* The longest log wins, the larger URL among equals.
Best(n) ==
  CHOOSE b \in Candidates(n) : \A r \in Candidates(n) :
    Known(n, r) < Known(n, b) \/ (Known(n, r) = Known(n, b) /\ r <= b)

\* n is a master, be there another or not.
Promoted(n) ==
  /\ ismaster' = [ismaster EXCEPT ![n] = TRUE]
  /\ split' = (split \/ \E r \in Node \ {n} : ismaster[r])

\* The failure that makes MasterUpdate begin.
Elect(n) ==
  /\ pc[n] = "loop" /\ fails[n] = FailTwo - 1
  /\ Failing(n)
  /\ InStep(n)
  /\ fails' = [fails EXCEPT ![n] = FailTwo]
  /\ \/ /\ Best(n) = n
        /\ Promoted(n)
        /\ pc' = [pc EXCEPT ![n] = "master"]
        /\ UNCHANGED <<sent, choice, tries>>
     \/ /\ Best(n) # n
        /\ pc' = [pc EXCEPT ![n] = "register"]
        /\ sent' = [sent EXCEPT ![n] = Self(n, clock)]
        /\ choice' = [choice EXCEPT ![n] = Best(n)]
        /\ tries' = [tries EXCEPT ![n] = 0]
        /\ UNCHANGED <<ismaster, split>>
  /\ UNCHANGED <<follows, log, cutoff, remotes, todo, cut, clock, commits, crashes,
                 returns>>

\* R_REGISTER with the elected node succeeds, whether it is a master yet or not.
Join(n) ==
  /\ pc[n] = "register"
  /\ Reaches(n, choice[n])
  /\ remotes' = Registered(n, choice[n], sent[n])
  /\ follows' = [follows EXCEPT ![n] = choice[n]]
  /\ pc' = [pc EXCEPT ![n] = "loop"]
  /\ UNCHANGED <<ismaster, log, fails, cutoff, todo, sent, choice, tries, cut, clock,
                 commits, crashes, split, returns>>

\* It fails; after MaxRetries the slave goes on polling the node it followed,
\* and no number of further failures makes it elect again.
JoinFails(n) ==
  /\ pc[n] = "register"
  /\ ~Reaches(n, choice[n])
  /\ tries' = [tries EXCEPT ![n] = @ + 1]
  /\ pc' = [pc EXCEPT ![n] = IF tries[n] + 1 < MaxRetries THEN "register" ELSE "loop"]
  /\ UNCHANGED <<ismaster, follows, log, fails, cutoff, remotes, todo, sent, choice, cut,
                 clock, commits, crashes, split, returns>>

-----------------------------------------------------------------------------
\* A process dies.
Crash(n) ==
  /\ pc[n] # "down" /\ crashes < MaxCrash
  /\ Calm => ~Starting
  /\ crashes' = crashes + 1
  /\ pc' = [pc EXCEPT ![n] = "down"]
  /\ ismaster' = [ismaster EXCEPT ![n] = FALSE]
  /\ todo' = [todo EXCEPT ![n] = {}]
  /\ UNCHANGED <<follows, log, fails, cutoff, remotes, sent, choice, tries, cut, clock,
                 commits, split, returns>>

\* A process that died is started again, with node t named as its master.  The first
\* master may be started with its configuration, which names none.
Return(n, t) ==
  /\ pc[n] = "down" /\ returns < MaxReturn
  /\ returns' = returns + 1
  /\ follows' = [follows EXCEPT ![n] = t]
  /\ \/ /\ t = n /\ n = FirstMaster
        /\ pc' = [pc EXCEPT ![n] = "master"]
        /\ Promoted(n)
     \/ /\ t # n
        /\ pc' = [pc EXCEPT ![n] = "new"]
        /\ UNCHANGED <<ismaster, split>>
  /\ fails' = [fails EXCEPT ![n] = 0] /\ cutoff' = [cutoff EXCEPT ![n] = 0]
  /\ remotes' = [remotes EXCEPT ![n] = [r \in {} |-> [len |-> 0, ts |-> 0]]]
  /\ UNCHANGED <<log, todo, sent, choice, tries, cut, clock, commits, crashes>>

\* n can no longer call t.
Cut(n, t) ==
  /\ n # t /\ <<n, t>> \notin cut
  /\ Cardinality(cut) < MaxCut
  /\ cut' = cut \cup {<<n, t>>}
  /\ UNCHANGED <<pc, ismaster, follows, log, fails, cutoff, remotes, todo, sent, choice,
                 tries, clock, commits, crashes, split, returns>>

\* An interval in which every poll succeeds, or that polls take longer.
TimePasses ==
  /\ clock < MaxTime
  /\ clock' = clock + 1
  /\ UNCHANGED <<pc, ismaster, follows, log, fails, cutoff, remotes, todo, sent, choice,
                 tries, cut, commits, crashes, split, returns>>

SyncStep(n) ==
  \/ Register(n) \/ BecomeReady(n)
  \/ PollOK(n) \/ PollFails(n) \/ Tell(n)
  \/ Elect(n) \/ Join(n) \/ JoinFails(n)

Next ==
  \/ \E n \in Node : Commit(n) \/ Crash(n) \/ SyncStep(n)
  \/ \E n, t \in Node : Cut(n, t) \/ Return(n, t)
  \/ TimePasses

Spec == Init /\ [][Next]_vars

\* A slave that runs goes on; nothing makes clients write or processes die.
FairSpec == Spec /\ \A n \in Node : WF_vars(SyncStep(n))

-----------------------------------------------------------------------------
\* The kinds of values the state holds, within the bounds.
TypeOK ==
  /\ pc \in [Node -> {"new", "registered", "loop", "tell", "register", "master", "dead",
                      "down"}]
  /\ ismaster \in [Node -> BOOLEAN]
  /\ follows \in [Node -> Node] /\ choice \in [Node -> Node]
  /\ log \in [Node -> Seq(1..MaxCommit)]
  /\ fails \in [Node -> 0..(FailTwo + 1)] /\ tries \in [Node -> 0..MaxRetries]
  /\ cutoff \in [Node -> Nat] /\ clock \in Nat
  /\ \A n \in Node : /\ DOMAIN remotes[n] \subseteq Node
                     /\ \A r \in DOMAIN remotes[n] : remotes[n][r] \in Info
  /\ todo \in [Node -> SUBSET Node] /\ sent \in [Node -> Info]
  /\ cut \subseteq Node \X Node
  /\ commits \in 0..MaxCommit /\ crashes \in 0..MaxCrash /\ returns \in 0..MaxReturn
  /\ split \in BOOLEAN

\* Writes happen at one node: the election of MasterUpdate, which every slave
\* decides for itself from what HostUpdate of the others told it, never makes a
\* second master.
OneMaster == \A n, r \in Node : ismaster[n] /\ ismaster[r] => n = r

\* The slave that makes itself the master has all that any slave has that is
\* still running, so what any of them got before the master died is kept.
WinnerHasMost ==
  [][\A n \in Node : (pc[n] # "down" /\ ~ismaster[n] /\ ismaster'[n]) =>
       \A r \in Slaves : pc[r] \notin {"new", "down"} => Len(log[r]) <= Len(log[n])]_vars

\* As long as there have not been two masters, and no node that died has come back,
\* nodes agree on every transaction both have, although a slave never compares its
\* log with that of a master it elected.
LogsAgree ==
  \A n, r \in Node :
    (~split /\ returns = 0 /\ {pc[n], pc[r]} \cap {"new", "down"} = {}) =>
      \A i \in 1..Len(log[n]) : i <= Len(log[r]) => log[n][i] = log[r][i]

\* When there is no master and a slave is left, there is one again, or no slave
\* is left either.
MasterAlwaysComesBack ==
  (\A n \in Node : ~ismaster[n])
    ~> ((\E n \in Node : ismaster[n]) \/ (\A n \in Slaves : pc[n] \in {"new", "down"}))

\* n has elected a slave whose sync thread has ended; a clock that is ahead may
\* make it a candidate.
Misled(n) == pc[n] = "loop" /\ pc[choice[n]] = "dead"

\* With clocks that agree no slave does, after one death and with no link cut.
\* ElectionClocks.cfg, with Calm = FALSE, finds one that does.
NobodyIsMisled == \A n \in Node : ~Misled(n)

\* It is so after a first death, whenever it comes and whatever the clocks show, with
\* no link cut, if there is a slave whose sync thread lives and that has not elected
\* one whose sync thread does not.
MasterComesBack ==
  (\A n \in Node : ~ismaster[n])
    ~> \/ \E n \in Node : ismaster[n]
       \/ \A n \in Slaves : pc[n] \in {"new", "dead", "down"} \/ Misled(n)
       \/ crashes > 1 \/ cut # {}
=============================================================================
