------------------------------ MODULE RecordStore ------------------------------
(***************************************************************************)
(* What the Manage actions promise: one record for every name, and a       *)
(* request that is done has changed all the records it names, once and at  *)
(* the same time, and nothing a request before it changed is undone.       *)
(***************************************************************************)
EXTENDS Naturals

CONSTANTS Name, Request

VARIABLE changes   \* changes[n]: the requests the record n is made of, {} if there is none

Init == changes = [n \in Name |-> {}]

\* Request r is done: it changes the records of the names in S.
Write(r, S) ==
  /\ \A n \in Name : r \notin changes[n]
  /\ changes' = [n \in Name |-> IF n \in S THEN changes[n] \cup {r} ELSE changes[n]]

Next == \E r \in Request, S \in (SUBSET Name) \ {{}} : Write(r, S)

Spec == Init /\ [][Next]_changes
=============================================================================
