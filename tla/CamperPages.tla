---------------------------- MODULE CamperPages ----------------------------
(***************************************************************************)
(* The pages of a camper that keep a copy of what the server has: the card *)
(* with the reminder of an event, and the list of reservations.  They are  *)
(* two routes of one tab and share nothing but the camper.                 *)
(***************************************************************************)
EXTENDS ReminderCard, MyReservations

CONSTANT Sittings    \* bounds: what may happen at each page
ASSUME SittingsAreBounds ==
  Sittings \subseteq [card : [visits : Nat, mine : Nat, others : Nat],
                      list : [page : Nat, elsewhere : Nat]]

PagesInit == Init /\ \E s \in Sittings : CardInit(s.card) /\ ListInit(s.list)

PagesNext ==
  \/ CardNext /\ UNCHANGED listVars
  \/ ListNext /\ UNCHANGED <<vars, cardVars>>

pageVars == <<vars, cardVars, listVars>>
PagesSpec == PagesInit /\ [][PagesNext]_pageVars
-----------------------------------------------------------------------------
PagesTypeOK == TypeOK /\ CardTypeOK /\ ListTypeOK
=============================================================================
