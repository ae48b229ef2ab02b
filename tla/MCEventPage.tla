---------------------------- MODULE MCEventPage ----------------------------
(* An instance of EventPage for TLC. *)
EXTENDS EventPage

CONSTANTS s1, s2

Acts(mine, others, admins, faults, polls) ==
  [me |-> mine, other |-> others, admin |-> admins, fault |-> faults, polls |-> polls]

\* Who acts how often while the page is open, and how many polls overlap.
Actors == {Acts(2, 0, 0, 0, 1), Acts(1, 1, 0, 0, 1), Acts(1, 0, 0, 1, 1),
           Acts(0, 2, 0, 0, 2), Acts(0, 2, 0, 1, 1), Acts(0, 1, 1, 0, 1),
           Acts(1, 0, 1, 0, 1)}
=============================================================================
