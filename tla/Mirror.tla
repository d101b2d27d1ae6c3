------------------------------- MODULE Mirror -------------------------------
(***************************************************************************)
(* What state traffic promises Home Assistant: the published value of an   *)
(* entity is one the entity has had, and never goes back to an older one.  *)
(* Values count the entity's changes.                                      *)
(***************************************************************************)
EXTENDS Naturals

CONSTANT Entities

VARIABLES
    cur,        \* what the entity of the leaf is
    pub         \* what Home Assistant shows for it, 0 before the first state

Init ==
    /\ cur = [e \in Entities |-> 1]
    /\ pub = [e \in Entities |-> 0]

Change(e) ==
    /\ cur' = [cur EXCEPT ![e] = @ + 1]
    /\ UNCHANGED pub

\* Values in between may be skipped.
Publish(e) ==
    /\ \E v \in pub[e] + 1 .. cur[e] : pub' = [pub EXCEPT ![e] = v]
    /\ UNCHANGED cur

Next == \E e \in Entities : Change(e) \/ Publish(e)

Spec == Init /\ [][Next]_<<cur, pub>>
=============================================================================
