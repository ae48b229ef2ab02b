--------------------------- MODULE MCWaitingQueue ---------------------------
(***************************************************************************)
(* Small instances of WaitingQueue: every user has one tab, named after    *)
(* the user.                                                               *)
(***************************************************************************)
EXTENDS WaitingQueue

CONSTANTS ann, bob, eve

OwnTab == [t \in Tab |-> t]
=============================================================================
