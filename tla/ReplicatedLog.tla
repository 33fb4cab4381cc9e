---------------------------- MODULE ReplicatedLog ----------------------------
(***************************************************************************)
(* What replication promises: one log that only grows, and replicas that   *)
(* hold a prefix of it.  A replica takes the entries over one at a time,   *)
(* in order, and may lose the end of what it has when its machine dies.    *)
(* Module Replication is shown to implement it.                            *)
(***************************************************************************)
EXTENDS Naturals, Sequences

CONSTANTS Replicas, Entries

VARIABLES
  primary,  \* the log
  replica   \* replica[r]: what r holds of it

rlvars == <<primary, replica>>

\* s is the beginning of t.
Begins(s, t) == Len(s) <= Len(t) /\ \A i \in 1..Len(s) : s[i] = t[i]

Init ==
  /\ primary = << >>
  /\ replica = [r \in Replicas |-> << >>]

Write(e) ==
  /\ primary' = Append(primary, e)
  /\ UNCHANGED replica

Copy(r) ==
  /\ Len(replica[r]) < Len(primary)
  /\ replica' = [replica EXCEPT ![r] = Append(@, primary[Len(@) + 1])]
  /\ UNCHANGED primary

LoseEnd(r) ==
  /\ \E k \in 0..Len(replica[r]) : replica' = [replica EXCEPT ![r] = SubSeq(@, 1, k)]
  /\ UNCHANGED primary

Next ==
  \/ \E e \in Entries : Write(e)
  \/ \E r \in Replicas : Copy(r) \/ LoseEnd(r)

Spec == Init /\ [][Next]_rlvars
=============================================================================
