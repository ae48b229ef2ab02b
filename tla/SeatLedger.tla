----------------------------- MODULE SeatLedger -----------------------------
(***************************************************************************)
(* What a slot promises, without counters, queues or locks: a set of       *)
(* booked reservations, never more than the seats there are and never two  *)
(* of the same user or team.  A booking is taken and given back one at a   *)
(* time.                                                                   *)
(***************************************************************************)
EXTENDS Integers, FiniteSets

CONSTANTS Request, KeyOf, Seats

VARIABLE booked

Init == booked = {}

Book(r) ==
    /\ r \notin booked
    /\ \A q \in booked : KeyOf[q] # KeyOf[r]
    /\ Cardinality(booked) < Seats
    /\ booked' = booked \cup {r}

Release(r) ==
    /\ r \in booked
    /\ booked' = booked \ {r}

Next == \E r \in Request : Book(r) \/ Release(r)

Spec == Init /\ [][Next]_booked
=============================================================================
