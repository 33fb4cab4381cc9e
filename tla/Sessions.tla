------------------------------- MODULE Sessions -------------------------------
(***************************************************************************)
(* Sessions: CredServiceBase gives one for a password (GetSession) and     *)
(* checks it (CheckSession).  A session is the name of the user and the    *)
(* time, encoded with the signkey of its record; nothing of it is stored.  *)
(* Any node gives and checks sessions, by its own copy of the record, its  *)
(* own cache of it, and its own clock.  The master changes the password    *)
(* (ResetPassAction) and the signkey (PrepareData with the field SIGNKEY). *)
(*                                                                         *)
(* Abstractions: one user, so that the name in the session is right when   *)
(* the key is, and what another key decodes has no name at all; a signkey  *)
(* is the number of the change that made it; one handler at a time on a    *)
(* node, next to the change of a record there (two of them are in module   *)
(* RecordCache); a commit is done before the next one begins.              *)
(***************************************************************************)
EXTENDS Naturals, Sequences, FiniteSets

CONSTANTS
  Node, Master,
  Pass,         \* passwords
  Lifetime,     \* ZPDS_SESSION_LIFETIME_MS
  MaxSkew,      \* how far the clock of a node may be ahead
  MaxChange, MaxSession,  \* bounds
  MaxTime,      \* bound on the time and the changes together
  MaxBusy       \* bound on the handlers at a time

ASSUME SessionsAssumption ==
  /\ Master \in Node
  /\ {Lifetime, MaxSkew, MaxTime, MaxChange, MaxSession, MaxBusy} \subseteq Nat

VARIABLES
  now,       \* the time
  skew,      \* skew[n]: how far the clock of n is ahead of it
  versions,  \* the record on the master after each change
  at,        \* at[n]: the versions the database of n has had
  entry,     \* entry[n]: the version in the cache of n, 0 for none
  writing,   \* nodes where the record is changed, its entry not yet deleted
  crowded,   \* nodes where a handler ran while the record was being changed
  task,      \* task[n]: the handler on n
  reset,     \* ResetPassAction between its read and its commit
  sessions   \* the sessions that were given

vars == <<now, skew, versions, at, entry, writing, crowded, task, reset, sessions>>

\* key = 0: the record was made without a signkey.
Record == [pass : Pass, key : 0..(MaxChange + 1)]
\* What it was given for, and when, are not in the session itself.
Session == [key : 1..(MaxChange + 1), signed : 0..(MaxTime + MaxSkew),
            by : Pass, born : 0..MaxTime]

Idle == [op |-> "none", step |-> "idle", copy |-> 0, since |-> 0]
NoReset == [version |-> 0]

Clock(n) == now + skew[n]
Stored == versions[Len(versions)]

Init ==
  /\ now = 0
  /\ skew \in [Node -> 0..MaxSkew] /\ \E n \in Node : skew[n] = 0
  /\ \E p \in Pass, k \in {0, 1} : versions = << [pass |-> p, key |-> k] >>
  /\ at = [n \in Node |-> 1]
  /\ entry = [n \in Node |-> 0]
  /\ writing = {} /\ crowded = {}
  /\ task = [n \in Node |-> Idle]
  /\ reset = NoReset
  /\ sessions = {}

\* Time is told by nothing but the age of a session.
Tick ==
  /\ sessions # {}
  /\ now + Len(versions) <= MaxTime
  /\ now' = now + 1
  /\ UNCHANGED <<skew, versions, at, entry, writing, crowded, task, reset, sessions>>

-----------------------------------------------------------------------------
(* Changes of the record.                                                  *)

\* CommitData on node n, to version v; a handler may be under way.
Apply(n, v) ==
  /\ n \notin writing
  /\ at' = [at EXCEPT ![n] = v]
  /\ writing' = writing \cup {n}
  /\ crowded' = IF task[n] = Idle THEN crowded ELSE crowded \cup {n}

Commit(rec) ==
  /\ Len(versions) <= MaxChange /\ now + Len(versions) <= MaxTime
  /\ versions' = Append(versions, rec)
  /\ Apply(Master, Len(versions) + 1)

\* ManageDataAction with the field SIGNKEY, of a writer that is an admin.
Renew ==
  /\ Commit([Stored EXCEPT !.key = Len(versions) + 1])
  /\ UNCHANGED <<now, skew, entry, task, reset, sessions>>

\* ResetPassAction reads the record.  (Whether the caller may is left out.)
BeginReset ==
  /\ reset = NoReset
  /\ \E new \in Pass \ {Stored.pass} : reset' = [version |-> Len(versions), new |-> new]
  /\ UNCHANGED <<now, skew, versions, at, entry, writing, crowded, task, sessions>>

\* Its Commit writes the record as it was read, with the new password.
EndReset ==
  /\ reset # NoReset
  /\ Commit([versions[reset.version] EXCEPT !.pass = reset.new])
  /\ reset' = NoReset
  /\ UNCHANGED <<now, skew, entry, task, sessions>>

\* A slave commits the next change of the log.
Follow(n) ==
  /\ at[n] < Len(versions)
  /\ Apply(n, at[n] + 1)
  /\ UNCHANGED <<now, skew, versions, entry, task, reset, sessions>>

\* Mutant of Forget: the entry stays.
ForgetNothing(n) ==
  /\ n \in writing
  /\ writing' = writing \ {n}
  /\ UNCHANGED <<now, skew, versions, at, entry, crowded, task, reset, sessions>>

\* AddToCache: the entry is deleted.
Forget(n) ==
  /\ n \in writing
  /\ writing' = writing \ {n}
  /\ entry' = [entry EXCEPT ![n] = 0]
  /\ UNCHANGED <<now, skew, versions, at, crowded, task, reset, sessions>>

\* The process on n ends and starts again: the database stays.
Restart(n) ==
  /\ entry' = [entry EXCEPT ![n] = 0]
  /\ writing' = writing \ {n} /\ crowded' = crowded \ {n}
  /\ task' = [task EXCEPT ![n] = Idle]
  /\ reset' = IF n = Master THEN NoReset ELSE reset
  /\ UNCHANGED <<now, skew, versions, at, sessions>>

-----------------------------------------------------------------------------
(* Handlers.                                                               *)

\* The first step, after GetAssoc of the record.
First(n) == IF entry[n] = 0 THEN "read" ELSE "have"

\* GetSession or CheckSession begins.
Begin(n, request) ==
  /\ task[n] = Idle /\ Cardinality({m \in Node : task[m] # Idle}) < MaxBusy
  /\ task' = [task EXCEPT ![n] = request]
  /\ crowded' = IF n \in writing THEN crowded \cup {n} ELSE crowded
  /\ UNCHANGED <<now, skew, versions, at, entry, writing, reset, sessions>>

Login(n) ==
  \E p \in Pass : Begin(n, [op |-> "login", pass |-> p,
                            step |-> First(n), copy |-> entry[n], since |-> at[n]])

Present(n) ==
  \E s \in sessions : Begin(n, [op |-> "check", session |-> s,
                                step |-> First(n), copy |-> entry[n], since |-> at[n]])

\* GetOne.
Read(n) ==
  /\ task[n].step = "read"
  /\ task' = [task EXCEPT ![n].copy = at[n], ![n].step = "put"]
  /\ UNCHANGED <<now, skew, versions, at, entry, writing, crowded, reset, sessions>>

\* SetAssoc.
Put(n) ==
  /\ task[n].step = "put"
  /\ entry' = [entry EXCEPT ![n] = task[n].copy]
  /\ task' = [task EXCEPT ![n].step = "have"]
  /\ UNCHANGED <<now, skew, versions, at, writing, crowded, reset, sessions>>

Copy(n) == versions[task[n].copy]
End(n) == task' = [task EXCEPT ![n] = Idle]

\* Mutant of Give: the password is that of the cache, the signkey is read again.
GiveOfTwo(n) ==
  /\ task[n].step = "have" /\ task[n].op = "login"
  /\ LET key == versions[at[n]].key
     IN IF task[n].pass = Copy(n).pass /\ key # 0
        THEN /\ Cardinality(sessions) < MaxSession
             /\ sessions' = sessions \cup
                  {[key |-> key, signed |-> Clock(n), by |-> task[n].pass, born |-> now]}
        ELSE UNCHANGED sessions
  /\ End(n)
  /\ UNCHANGED <<now, skew, versions, at, entry, writing, crowded, reset>>

\* GetSession compares the password and encodes the time.  Without a signkey
\* CryptoTraits::Create throws.
Give(n) ==
  /\ task[n].step = "have" /\ task[n].op = "login"
  /\ IF task[n].pass = Copy(n).pass /\ Copy(n).key # 0
     THEN /\ Cardinality(sessions) < MaxSession
          /\ sessions' = sessions \cup
               {[key |-> Copy(n).key, signed |-> Clock(n), by |-> task[n].pass, born |-> now]}
     ELSE UNCHANGED sessions
  /\ End(n)
  /\ UNCHANGED <<now, skew, versions, at, entry, writing, crowded, reset>>

\* Mutant of Accepts: the age is not looked at.
AcceptsForever(n) ==
  LET s == task[n].session
  IN s.key = Copy(n).key /\ s.signed <= Clock(n)

\* CheckSession: the session decodes, is not from the future and not too old.
Accepts(n) ==
  LET s == task[n].session
  IN /\ s.key = Copy(n).key
     /\ s.signed <= Clock(n)
     /\ Clock(n) - s.signed <= Lifetime

\* Its answer.
Check(n) ==
  /\ task[n].step = "have" /\ task[n].op = "check"
  /\ End(n)
  /\ UNCHANGED <<now, skew, versions, at, entry, writing, crowded, reset, sessions>>

Next ==
  \/ Tick \/ Renew \/ BeginReset \/ EndReset
  \/ \E n \in Node :
       \/ Follow(n) \/ Forget(n) \/ Restart(n)
       \/ Login(n) \/ Present(n) \/ Read(n) \/ Put(n) \/ Give(n) \/ Check(n)

Spec == Init /\ [][Next]_vars

-----------------------------------------------------------------------------
\* The kinds of values the state holds.
TypeOK ==
  /\ now \in 0..MaxTime /\ skew \in [Node -> 0..MaxSkew]
  /\ versions \in Seq(Record) /\ Len(versions) \in 1..(MaxChange + 1)
  /\ at \in [Node -> 1..Len(versions)] /\ at[Master] = Len(versions)
  /\ entry \in [Node -> 0..Len(versions)]
  /\ writing \subseteq Node /\ crowded \subseteq Node
  /\ \A n \in Node :
       /\ task[n].op \in {"none", "login", "check"}
       /\ task[n].step \in {"idle", "read", "put", "have"}
       /\ task[n].copy \in 0..at[n] /\ task[n].since \in 0..at[n]
       /\ task[n].op = "login" => task[n].pass \in Pass
       /\ task[n].op = "check" => task[n].session \in sessions
  /\ reset = NoReset \/ (reset.version \in 1..Len(versions) /\ reset.new \in Pass)
  /\ sessions \subseteq Session

\* The handler of n is about to answer for a session.
Checking(n) == task[n].step = "have" /\ task[n].op = "check"
Accepted(n) == Checking(n) /\ Accepts(n)

\* A session goes with the password of its signkey: there was a record that had
\* both, although the two are read from the cache, which a change leaves behind.
SessionIsEarned ==
  \A s \in sessions : \E k \in 1..Len(versions) :
    versions[k].key = s.key /\ versions[k].pass = s.by

\* A new signkey ends the sessions of the old one, on every node as soon as it
\* has the change, unless a handler ran there while the record was changed.
KeyEndsSessions ==
  \A n \in Node \ crowded : Accepted(n) =>
    \E k \in task[n].since..at[n] : task[n].session.key = versions[k].key

\* Whatever node gave it and whatever node is asked, a session lives for its
\* lifetime, give or take what clocks differ, after a wait for the slower clock.
LivesItsLifetime ==
  \A n \in Node : Checking(n) =>
    LET s == task[n].session
        age == now - s.born
    IN /\ Accepts(n) => age <= Lifetime + MaxSkew
       /\ (s.key = Copy(n).key /\ age >= MaxSkew /\ age + MaxSkew <= Lifetime) => Accepts(n)

\* The code does not promise the following.
\* A session that was just given is accepted by every node that has its signkey.
FreshIsAccepted ==
  \A n \in Node : (Checking(n) /\ task[n].session.born = now
                     /\ task[n].session.key = Copy(n).key) => Accepts(n)

\* A reset of the password ends the sessions that the old one was given.
ResetEndsSessions ==
  \A n \in Node \ crowded : Accepted(n) =>
    \E k \in task[n].since..at[n] : task[n].session.by = versions[k].pass

\* A signkey that was replaced does not come back.
OldKeyIsGone == [][Stored.key <= Stored'.key]_versions
=============================================================================
