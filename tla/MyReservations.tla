--------------------------- MODULE MyReservations ---------------------------
(***************************************************************************)
(* The page of a camper's reservations (ManageReservationPage.tsx) over    *)
(* the list the server answers (ReservationsService.findAllByUser) and the *)
(* cancellation (cancel, as a whole here; its steps are in Reservation).   *)
(* The page loads once, shows what it has by the clock of its last         *)
(* rendering, and marks a reservation cancelled when the server said so.   *)
(* Meanwhile the worker, other tabs and other members of the team act.     *)
(***************************************************************************)
EXTENDS Naturals, FiniteSets

CONSTANTS
  Booking,       \* the reservations that this camper's lists may hold
  NoBooking,
  Of,            \* whose each is: [mine, unit, org, group]
  Membership,    \* the camper's own organizations: [org, group]
  Starts, Ends,  \* when the event of each starts and ends
  Horizon        \* bound: the last moment

ASSUME BookingsAreFinite == IsFiniteSet(Booking) /\ NoBooking \notin Booking
ASSUME BookingsHaveEvents ==
  /\ Of \in [Booking -> [mine : BOOLEAN, unit : {"INDIVIDUAL", "TEAM"}, org : STRING, group : Nat]]
  /\ Membership \subseteq [org : STRING, group : Nat]
  /\ Starts \in [Booking -> Nat] /\ Ends \in [Booking -> Nat] /\ Horizon \in Nat

VARIABLES
  status,      \* reservation.status, "none" before there is a row
  jobs,        \* reservations whose job may still run: waiting, retried or redelivered
  revived,     \* history: reservations that a job confirmed after they were cancelled
  clock,
  fetch,       \* the request for the list: [at, data]
  shown,       \* the state `reservations' of the page, "none" where it has none
  seenAt,      \* the clock of the last rendering
  viewMode,
  target,      \* cancelTarget: what the modal asks about
  cancel,      \* the request the modal sent: [at, of, ok]; isCancelling while it runs
  strays,      \* cancellations the page was left with before their answer
  listActs,    \* bound: what may still happen to the page, and elsewhere
  apart        \* history: something else may have separated page and table

worker == <<jobs, revived>>
listVars == <<status, worker, clock, fetch, shown, seenAt, viewMode, target, cancel, strays, listActs, apart>>
pageState == <<fetch, shown, viewMode, target, cancel, strays>>

Status == {"none", "PENDING", "CONFIRMED", "CANCELLED"}
Nothing == [b \in Booking |-> "none"]
Quiet == [at |-> "none", of |-> NoBooking, ok |-> FALSE]

ListTypeOK ==
  /\ status \in [Booking -> Status]
  /\ jobs \subseteq Booking /\ revived \subseteq Booking
  /\ clock \in 0..Horizon
  /\ fetch \in [at : {"closed", "asked", "own", "answered", "done", "failed"}, data : [Booking -> Status]]
  /\ shown \in [Booking -> Status]
  /\ seenAt \in 0..clock
  /\ viewMode \in {"ticket", "grid"}
  /\ target \in Booking \cup {NoBooking}
  /\ cancel \in [at : {"none", "sent", "answered"}, of : Booking \cup {NoBooking}, ok : BOOLEAN]
  /\ strays \subseteq Booking
  /\ listActs \in [page : Nat, elsewhere : Nat]
  /\ apart \in BOOLEAN

ListInit(acts) ==
  /\ status \in [Booking -> IF acts.page = 0 THEN {"none"} ELSE {"PENDING", "CONFIRMED"}]
  /\ jobs = Booking
  /\ revived = {}
  /\ clock = 0 /\ seenAt = 0
  /\ fetch = [at |-> IF acts.page = 0 THEN "closed" ELSE "asked", data |-> Nothing]
  /\ shown = Nothing
  /\ viewMode = "ticket"
  /\ target = NoBooking
  /\ cancel = Quiet
  /\ strays = {}
  /\ listActs = acts
  /\ apart = FALSE

Spend(who) == /\ fetch.at # "closed"
              /\ listActs[who] > 0
              /\ listActs' = [listActs EXCEPT ![who] = @ - 1]
Rendered == seenAt' = clock
-----------------------------------------------------------------------------
(* The list: the camper's own reservations, then those of the teams. *)

OfMyTeams(b) ==
  /\ ~Of[b].mine
  /\ Of[b].unit = "TEAM"
  /\ \E m \in Membership : m.org = Of[b].org
  /\ \E m \in Membership : m.group = Of[b].group

Listable(b) == Of[b].mine \/ OfMyTeams(b)
Confirmed(among) ==
  [b \in Booking |-> IF b \in among /\ status[b] = "CONFIRMED" THEN "CONFIRMED" ELSE fetch.data[b]]

ListOwn ==
  /\ fetch.at = "asked"
  /\ fetch' = [at |-> "own", data |-> Confirmed({b \in Booking : Of[b].mine})]
  /\ apart' = (strays # {})
  /\ UNCHANGED <<status, clock, shown, seenAt, viewMode, target, cancel, strays, listActs, worker>>

ListTeams ==
  /\ fetch.at = "own"
  /\ fetch' = [at |-> "answered", data |-> Confirmed({b \in Booking : OfMyTeams(b)})]
  /\ UNCHANGED <<status, clock, shown, seenAt, viewMode, target, cancel, strays, listActs, apart, worker>>

ListShow ==
  /\ fetch.at = "answered"
  /\ shown' = fetch.data
  /\ fetch' = [at |-> "done", data |-> Nothing]
  /\ Rendered
  /\ UNCHANGED <<status, clock, viewMode, target, cancel, strays, listActs, apart, worker>>

\* The page then says that it could not load, and nothing more.
ListFails ==
  /\ fetch.at \in {"asked", "own", "answered"}
  /\ fetch' = [at |-> "failed", data |-> Nothing]
  /\ Rendered
  /\ UNCHANGED <<status, clock, shown, viewMode, target, cancel, strays, listActs, apart, worker>>
-----------------------------------------------------------------------------
(* What the page shows of it. *)

Listed == {b \in Booking : shown[b] # "none"}
Ended(b) == Ends[b] < seenAt
Active(b) == shown[b] = "CONFIRMED" /\ ~Ended(b)
Cancellable(b) == shown[b] \in {"CONFIRMED", "PENDING"} /\ ~Ended(b)
Badge(b) == IF shown[b] = "CONFIRMED" /\ Ended(b) THEN "ENDED" ELSE shown[b]

\* The active ones come first, the soonest of them first; then the latest of the others.
Before(a, b) ==
  \/ Active(a) /\ ~Active(b)
  \/ Active(a) /\ Active(b) /\ Starts[a] < Starts[b]
  \/ ~Active(a) /\ ~Active(b) /\ Starts[a] > Starts[b]

\* The featured ticket is the first of the sorted list that is active.
Upcoming ==
  IF \E b \in Listed : Active(b)
  THEN CHOOSE b \in Listed : Active(b) /\ \A a \in Listed : ~Before(a, b)
  ELSE NoBooking
ListReservations == Listed \ {Upcoming}
-----------------------------------------------------------------------------
(* The buttons and the modal. *)

\* Each of the three ways to show a reservation has a button where it is cancellable.
Click(b) ==
  /\ fetch.at = "done"
  /\ Cancellable(b)
  /\ Spend("page")
  /\ target' = b
  /\ Rendered
  /\ UNCHANGED <<status, clock, fetch, shown, viewMode, cancel, strays, apart, worker>>

FeaturedClick(b) == viewMode = "ticket" /\ b = Upcoming /\ Click(b)
TicketClick(b) == viewMode = "ticket" /\ b \in ListReservations /\ Click(b)
GridClick(b) == viewMode = "grid" /\ Click(b)

ViewModeToggle ==
  /\ fetch.at = "done"
  /\ Spend("page")
  /\ viewMode' = IF viewMode = "ticket" THEN "grid" ELSE "ticket"
  /\ Rendered
  /\ UNCHANGED <<status, clock, fetch, shown, target, cancel, strays, apart, worker>>

CancelClose ==
  /\ target # NoBooking /\ cancel.at = "none"
  /\ target' = NoBooking
  /\ Rendered
  /\ UNCHANGED <<status, clock, fetch, shown, viewMode, cancel, strays, listActs, apart, worker>>

\* The button of the modal is off while a request runs.
CancelConfirm ==
  /\ target # NoBooking /\ cancel.at = "none"
  /\ cancel' = [at |-> "sent", of |-> target, ok |-> FALSE]
  /\ Rendered
  /\ UNCHANGED <<status, clock, fetch, shown, viewMode, target, strays, listActs, apart, worker>>

\* Only the one who reserved may cancel, and once.
MayCancel(b) == Of[b].mine /\ status[b] \in {"PENDING", "CONFIRMED"}

CancelRow ==
  /\ cancel.at = "sent"
  /\ cancel' = [cancel EXCEPT !.at = "answered", !.ok = MayCancel(cancel.of)]
  /\ status' = IF MayCancel(cancel.of) THEN [status EXCEPT ![cancel.of] = "CANCELLED"] ELSE status
  /\ UNCHANGED <<clock, fetch, shown, seenAt, viewMode, target, strays, listActs, apart, worker>>

\* The call fails: before its transaction, or after it, at the stock or on the way back.
CancelFails ==
  /\ cancel.at = "sent"
  /\ Spend("elsewhere")
  /\ cancel' = [cancel EXCEPT !.at = "answered", !.ok = FALSE]
  /\ \/ UNCHANGED <<status, apart>>
     \/ /\ MayCancel(cancel.of)
        /\ status' = [status EXCEPT ![cancel.of] = "CANCELLED"]
        /\ apart' = TRUE
  /\ UNCHANGED <<clock, fetch, shown, seenAt, viewMode, target, strays, worker>>

\* Variant: the reservation is marked whatever the answer.
CancelShowAnyway ==
  /\ cancel.at = "answered"
  /\ shown' = [shown EXCEPT ![cancel.of] = "CANCELLED"]
  /\ target' = IF cancel.ok THEN NoBooking ELSE target
  /\ cancel' = Quiet
  /\ Rendered
  /\ UNCHANGED <<status, clock, fetch, viewMode, strays, listActs, apart, worker>>

\* The answer is about the reservation that was asked about, whatever the modal
\* asks about by now; a failure leaves the modal open.
CancelShow ==
  /\ cancel.at = "answered"
  /\ shown' = IF cancel.ok THEN [shown EXCEPT ![cancel.of] = "CANCELLED"] ELSE shown
  /\ target' = IF cancel.ok THEN NoBooking ELSE target
  /\ cancel' = Quiet
  /\ Rendered
  /\ UNCHANGED <<status, clock, fetch, viewMode, strays, listActs, apart, worker>>

\* The camper leaves the page and comes back: the state is gone, a request
\* that was sent runs on.
Revisit ==
  /\ fetch.at \in {"done", "failed"}
  /\ Spend("page")
  /\ fetch' = [at |-> "asked", data |-> Nothing]
  /\ shown' = Nothing
  /\ viewMode' = "ticket"
  /\ target' = NoBooking
  /\ cancel' = Quiet
  /\ strays' = IF cancel.at = "sent" THEN strays \cup {cancel.of} ELSE strays
  /\ Rendered
  /\ UNCHANGED <<status, clock, apart, worker>>
-----------------------------------------------------------------------------
(* What goes on elsewhere. *)

\* The list is read again only by the next visit.
Elsewhere(b, to) ==
  /\ Spend("elsewhere")
  /\ status' = [status EXCEPT ![b] = to]
  /\ apart' = (apart \/ fetch.at # "asked")
  /\ UNCHANGED <<clock, pageState, seenAt>>

\* A job writes its reservation by id, whatever the row says by now; it may run
\* again after a failed attempt, or when the worker stalled.
JobWrites(b, to) ==
  /\ b \in jobs
  /\ jobs' \in {jobs, jobs \ {b}}
  /\ revived' = IF status[b] = "CANCELLED" /\ to = "CONFIRMED" THEN revived \cup {b} ELSE revived
  /\ Elsewhere(b, to)

WorkerConfirms(b) == JobWrites(b, "CONFIRMED")
WorkerFails(b) == JobWrites(b, "CANCELLED")

CancelledElsewhere(b) ==
  /\ status[b] \in {"PENDING", "CONFIRMED"}
  /\ Elsewhere(b, "CANCELLED")
  /\ UNCHANGED worker

StrayEnds(b) ==
  /\ b \in strays
  /\ strays' = strays \ {b}
  /\ \/ MayCancel(b) /\ status' = [status EXCEPT ![b] = "CANCELLED"]
     \/ UNCHANGED status
  /\ apart' = (apart \/ fetch.at # "asked")
  /\ UNCHANGED <<clock, fetch, shown, seenAt, viewMode, target, cancel, listActs, worker>>

\* Time goes by without a rendering.
Tick ==
  /\ clock < Horizon
  /\ fetch.at # "closed"
  /\ clock' = clock + 1
  /\ UNCHANGED <<status, pageState, seenAt, listActs, apart, worker>>

ListNext ==
  \/ ListOwn \/ ListTeams \/ ListShow \/ ListFails
  \/ \E b \in Booking : FeaturedClick(b) \/ TicketClick(b) \/ GridClick(b)
  \/ ViewModeToggle \/ CancelClose \/ CancelConfirm
  \/ CancelRow \/ CancelFails \/ CancelShow \/ Revisit
  \/ \E b \in Booking : WorkerConfirms(b) \/ WorkerFails(b) \/ CancelledElsewhere(b) \/ StrayEnds(b)
  \/ Tick
-----------------------------------------------------------------------------
\* The page never says that a reservation is cancelled while the row stands,
\* whatever failed, was left behind or happened elsewhere, but for a row that
\* its own job confirmed after the cancellation (the worker writes by id and
\* does not look at the status); and when the page's own
\* calls alone touched the table since the list was read, and were answered,
\* every confirmed reservation it may list is shown, and shown as it is.
ListedStand ==
  /\ \A b \in Booking : Badge(b) = "CANCELLED" => status[b] = "CANCELLED" \/ b \in revived
  /\ fetch.at = "done" /\ cancel.at = "none" /\ ~apart =>
       \A b \in Booking :
         /\ Badge(b) \in {"CONFIRMED", "ENDED"} <=> Listable(b) /\ status[b] = "CONFIRMED"
         /\ Badge(b) # "PENDING"
=============================================================================
