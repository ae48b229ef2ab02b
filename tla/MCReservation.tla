--------------------------- MODULE MCReservation ---------------------------
(***************************************************************************)
(* Small instances of Reservation.  r1 and r2 are requests of one user (or *)
(* team), a double click or an impatient retry; r3 is somebody else's.     *)
(***************************************************************************)
EXTENDS Reservation

CONSTANTS r1, r2, r3, c1, c2, b1, u1

Keys == [r \in Request |-> IF r = r3 THEN "theirs" ELSE "ours"]

\* Every DELETE names another reservation...
OneCancelEach == [c \in Canceller |-> IF c = c1 THEN r1 ELSE r3]
\* ... or two of them name the same one.
TwiceTheSame == [c \in Canceller |-> r1]
=============================================================================
