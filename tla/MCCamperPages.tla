--------------------------- MODULE MCCamperPages ---------------------------
(* An instance of CamperPages for TLC. *)
EXTENDS CamperPages, TLC

CONSTANTS b1, b2, b3, b4

\* Two of the camper's own, one of a teammate's, and one of a team that has the
\* number of the camper's team in another organization.
Bookings ==
  b1 :> [mine |-> TRUE,  unit |-> "TEAM",       org |-> "web", group |-> 1] @@
  b2 :> [mine |-> TRUE,  unit |-> "INDIVIDUAL", org |-> "web", group |-> 0] @@
  b3 :> [mine |-> FALSE, unit |-> "TEAM",       org |-> "web", group |-> 1] @@
  b4 :> [mine |-> FALSE, unit |-> "TEAM",       org |-> "web", group |-> 2]
Memberships == {[org |-> "web", group |-> 1], [org |-> "app", group |-> 2]}
From == b1 :> 1 @@ b2 :> 0 @@ b3 :> 2 @@ b4 :> 1
Until == b1 :> 1 @@ b2 :> 0 @@ b3 :> 2 @@ b4 :> 2

NoCard == [visits |-> 0, mine |-> 0, others |-> 5]
Unread == [visits |-> 0, mine |-> 0, others |-> 0]
OneCard == [visits |-> 2, mine |-> 2, others |-> 1]
NoList == [page |-> 0, elsewhere |-> 0]
OneList == [page |-> 3, elsewhere |-> 1]

\* The handlers in any overlap, or the card with another tab, or the list.
OneSitting == {[card |-> NoCard, list |-> NoList], [card |-> OneCard, list |-> NoList],
               [card |-> Unread, list |-> OneList]}

Symmetric == Permutations(Call) \cup Permutations(Removal)
=============================================================================
