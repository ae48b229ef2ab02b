----------------------------- MODULE EventPage -----------------------------
(***************************************************************************)
(* The page of an event and what it shows of the slots (EventDetail.tsx).  *)
(* The list of reservers comes from a cache in Redis that writers delete   *)
(* after they have written (event-slots.service.ts), the count from the    *)
(* counter of the free seats, the event and the reservation of the user    *)
(* from PostgreSQL.  Requests of the page overlap and are answered in any  *)
(* order; the last answer stays on the screen.                             *)
(*                                                                         *)
(* Reservations are those of module Reservation with the queries of one    *)
(* transaction in one step.  Titles, times, names of reservers and the     *)
(* waiting queue are left out: the user of the page may always press.      *)
(***************************************************************************)
EXTENDS SlotStock, SequencesExt

CONSTANTS
  Slot,                \* identities of slots
  MaxBookings,         \* bound: the reservations of a behaviour
  NoSlot, NoCache,
  Poll,                \* slots of concurrent polls
  Attempts,            \* attempts of a job
  Capacity, Sizes,     \* the capacity at first, and those an administrator may choose
  Opening,             \* the slots that are there from the beginning
  Budgets              \* bounds: how often each actor acts, how many polls run together

ASSUME PageNulls == /\ NoSlot \notin Slot /\ MaxBookings \in Nat /\ Opening \subseteq Slot
\* The user of the page, and anybody else; ids of reservations are serial.
Me == "me"
Other == "other"
Booking == 1..MaxBookings

ASSUME PageBounds == /\ Attempts \in Nat \ {0} /\ Capacity \in Sizes /\ Sizes \subseteq Nat \ {0}
                     /\ Budgets \subseteq [me : Nat, other : Nat, admin : Nat, fault : Nat,
                                     polls : Nat]

VARIABLES
  slot,         \* EventSlot, the rows
  stock,        \* slot:{id}:stock
  booking,      \* Reservation, and the capacity its job was given
  job,          \* the attempts each job has left
  tail,         \* what handlers still do after they have written
  deleting,     \* the slot whose reservations a DELETE has read
  cache,        \* event:{id}:reservers
  late,         \* history: the cache may hold what a writer replaced
  poll,         \* the polls under way
  fetch,        \* the other two requests of the page
  page,         \* the states `event', `myReservation' and `selectedSlotId'
  press,        \* what the button sent
  left          \* bound: how often each actor may still act

server == <<slot, stock, booking, job, tail, deleting>>
screen == <<page, press>>
vars == <<server, cache, late, poll, fetch, screen, left>>

Gone == [max |-> 0, count |-> 0]
Blank == [who |-> "nobody", slot |-> NoSlot, status |-> "NONE", cap |-> 0]
Resting == [at |-> "idle", data |-> <<>>, overtaken |-> FALSE, mine |-> {}]
Still == [what |-> "nothing", on |-> NoSlot]

Rows == {s \in Slot : slot[s] # Gone}
LiveOf(p, s) == {b \in Booking : booking[b].who = p /\ booking[b].slot = s
                                 /\ booking[b].status \in {"PENDING", "CONFIRMED"}}
Confirmed(s) == {b \in Booking : booking[b].slot = s /\ booking[b].status = "CONFIRMED"}
MyLive == UNION {LiveOf(Me, s) : s \in Rows}

\* findFirst without an order.
Mine == IF MyLive = {} THEN {{}} ELSE {{b} : b \in MyLive}

Spend(actor) == left[actor] > 0 /\ left' = [left EXCEPT ![actor] = @ - 1]

PageInit ==
  /\ slot = [s \in Slot |-> IF s \in Opening THEN [max |-> Capacity, count |-> 0] ELSE Gone]
  /\ stock = [s \in Slot |-> IF s \in Opening THEN Capacity ELSE NoKey]
  /\ booking = [b \in Booking |-> Blank]
  /\ job = [b \in Booking |-> 0]
  /\ tail = {}
  /\ deleting = NoSlot
  /\ cache = NoCache
  /\ late = FALSE
  /\ poll = [r \in Poll |-> Resting]
  /\ fetch = [event |-> "asked", rows |-> <<>>, mine |-> "asked", id |-> {}]
  /\ page = [loaded |-> FALSE, shown |-> <<>>, my |-> {}, selected |-> NoSlot]
  /\ press = Still
  /\ left \in Budgets
-----------------------------------------------------------------------------
(* The cache, and what is done to it after a change of the rows.           *)

\* Whoever has read the rows and not stored them yet is too late.
Overtake == poll' = [r \in Poll |-> IF poll[r].at = "store"
                                    THEN [poll[r] EXCEPT !.overtaken = TRUE] ELSE poll[r]]

Flush == cache' = NoCache /\ late' = FALSE /\ Overtake

\* A change that no flush follows.
Unflushed == late' = (late \/ cache # NoCache) /\ Overtake /\ UNCHANGED cache

Expire ==
  /\ cache # NoCache
  /\ cache' = NoCache
  /\ late' = FALSE
  /\ UNCHANGED <<server, poll, fetch, screen, left>>

Then(by, todo, s, max, count) ==
  tail' = tail \cup {[by |-> by, todo |-> todo, slot |-> s, max |-> max, count |-> count]}

Done(t) == tail' = (tail \ {t}) \cup
  IF Len(t.todo) = 1 THEN {} ELSE {[t EXCEPT !.todo = Tail(@)]}

Restock(t) ==
  /\ Head(t.todo) = "restock"
  /\ stock' = [stock EXCEPT ![t.slot] = Incremented(@, t.max)]
  /\ Done(t)
  /\ UNCHANGED <<slot, booking, job, deleting, cache, late, poll, fetch, screen, left>>

InitStock(t) ==
  /\ Head(t.todo) = "init"
  /\ stock' = [stock EXCEPT ![t.slot] = Initialised(t.max, t.count)]
  /\ Done(t)
  /\ UNCHANGED <<slot, booking, job, deleting, cache, late, poll, fetch, screen, left>>

Invalidate(t) ==
  /\ Head(t.todo) = "flush"
  /\ Flush
  /\ Done(t)
  /\ UNCHANGED <<slot, stock, booking, job, deleting, fetch, screen, left>>

\* The process stops; a job that had its row confirmed is run again, and a call
\* of the button fails.
Dies(t) ==
  /\ Spend("fault")
  /\ tail' = tail \ {t}
  /\ job' = IF t.by[1] = "job" /\ t.todo = <<"flush">>
            THEN [job EXCEPT ![t.by[2]] = Attempts] ELSE job
  /\ Unflushed
  /\ press' = IF t.by = <<"cancel", press.on>> THEN Still ELSE press
  /\ UNCHANGED <<slot, stock, booking, deleting, fetch, page>>
-----------------------------------------------------------------------------
(* ReservationsService.apply and cancel, ReservationsProcessor.process      *)

MayApply(p, s) == s \in Rows /\ LiveOf(p, s) = {} /\ CanDecrement(stock[s])

Apply(p, s) ==
  /\ MayApply(p, s)
  /\ \E b \in Booking :
       /\ booking[b] = Blank /\ \A a \in 1..(b - 1) : booking[a] # Blank
       /\ booking' = [booking EXCEPT ![b] = [who |-> p, slot |-> s, status |-> "PENDING",
                                               cap |-> slot[s].max]]
       /\ job' = [job EXCEPT ![b] = Attempts]
  /\ stock' = [stock EXCEPT ![s] = Decremented(@)]
  /\ UNCHANGED <<slot, tail, deleting>>

\* Variant: the reservers are not flushed when one cancels.
CancelUnflushed(b) ==
  LET s == booking[b].slot
  IN /\ booking[b].status \in {"PENDING", "CONFIRMED"}
     /\ slot' = [slot EXCEPT ![s].count = @ - 1]
     /\ booking' = [booking EXCEPT ![b].status = "CANCELLED"]
     /\ Then(<<"cancel", b>>, <<"restock">>, s, slot[s].max, 0)
     /\ UNCHANGED <<stock, job, deleting>>

Cancel(b) ==
  LET s == booking[b].slot
  IN /\ booking[b].status \in {"PENDING", "CONFIRMED"}
     /\ slot' = [slot EXCEPT ![s].count = @ - 1]
     /\ booking' = [booking EXCEPT ![b].status = "CANCELLED"]
     /\ Then(<<"cancel", b>>, <<"restock", "flush">>, s, slot[s].max, 0)
     /\ UNCHANGED <<stock, job, deleting>>

JobReady(b) == job[b] > 0 /\ \A t \in tail : t.by # <<"job", b>>

\* The worker does not ask whether the row is still PENDING.
Confirm(b) ==
  LET s == booking[b].slot
  IN /\ JobReady(b)
     /\ LiveOf(booking[b].who, s) \subseteq {b}
     /\ slot[s].count < slot[s].max
     /\ slot' = [slot EXCEPT ![s].count = @ + 1]
     /\ booking' = [booking EXCEPT ![b].status = "CONFIRMED"]
     /\ job' = [job EXCEPT ![b] = 0]
     /\ Then(<<"job", b>>, <<"flush">>, s, slot[s].max, 0)
     /\ UNCHANGED <<stock, deleting, cache, late, poll, fetch, screen, left>>

\* A duplicate, no seat, a lost race for the version or a failing query.
JobFails(b) ==
  LET s == booking[b].slot
  IN /\ JobReady(b)
     /\ booking' = [booking EXCEPT ![b].status = "CANCELLED"]
     /\ job' = [job EXCEPT ![b] = @ - 1]
     /\ Then(<<"job", b>>, <<"restock">>, s, booking[b].cap, 0)
     /\ IF booking[b].status = "CONFIRMED" THEN Unflushed ELSE UNCHANGED <<cache, late, poll>>
     /\ UNCHANGED <<slot, stock, deleting, fetch, screen, left>>

OtherApplies(s) ==
  /\ Spend("other")
  /\ Apply(Other, s)
  /\ UNCHANGED <<cache, late, poll, fetch, screen>>

OtherCancels(b) ==
  /\ Spend("other")
  /\ booking[b].who = Other
  /\ Cancel(b)
  /\ UNCHANGED <<cache, late, poll, fetch, screen>>
-----------------------------------------------------------------------------
(* EventSlotsService.create, update and delete, one administrator at a time *)

AdminFree == deleting = NoSlot /\ \A t \in tail : t.by # <<"admin", 0>>

CreateSlot(s, m) ==
  /\ Spend("admin") /\ AdminFree
  /\ s \notin Rows /\ stock[s] = NoKey
  /\ slot' = [slot EXCEPT ![s] = [max |-> m, count |-> 0]]
  /\ Then(<<"admin", 0>>, <<"init", "flush">>, s, m, 0)
  /\ UNCHANGED <<stock, booking, job, deleting, cache, late, poll, fetch, screen>>

ResizeSlot(s, m) ==
  /\ Spend("admin") /\ AdminFree
  /\ s \in Rows /\ m >= slot[s].count
  /\ slot' = [slot EXCEPT ![s].max = m]
  /\ Then(<<"admin", 0>>, <<"init", "flush">>, s, m, slot[s].count)
  /\ UNCHANGED <<stock, booking, job, deleting, cache, late, poll, fetch, screen>>

DeleteRead(s) ==
  /\ Spend("admin") /\ AdminFree
  /\ s \in Rows /\ Confirmed(s) = {}
  /\ deleting' = s
  /\ UNCHANGED <<slot, stock, booking, job, tail, cache, late, poll, fetch, screen>>

\* Variant: the reservations go with their slot.
DeleteCascades(s) == TRUE

\* The foreign key of Reservation: a row of any status keeps its slot.
Deletable(s) == \A b \in Booking : booking[b].slot # s

DeleteSlot ==
  /\ deleting # NoSlot
  /\ IF Deletable(deleting)
     THEN /\ slot' = [slot EXCEPT ![deleting] = Gone]
          /\ Then(<<"admin", 0>>, <<"flush">>, deleting, 0, 0)
     ELSE UNCHANGED <<slot, tail>>
  /\ deleting' = NoSlot
  /\ UNCHANGED <<stock, booking, job, cache, late, poll, fetch, screen, left>>
-----------------------------------------------------------------------------
(* A poll: the controller asks for the availability and for the reservation *)
(* of the user together.                                                    *)

PollTo(r, at, data) == poll' = [poll EXCEPT ![r].at = at, ![r].data = data]

PollBegin(r) ==
  /\ page.loaded
  /\ poll[r].at = "idle"
  /\ Cardinality({q \in Poll : poll[q].at # "idle"}) < left["polls"]
  /\ IF cache # NoCache THEN PollTo(r, "stock", cache) ELSE PollTo(r, "rows", <<>>)
  /\ UNCHANGED <<server, cache, late, fetch, screen, left>>

\* An event without slots is not found, and the poll fails.
PollRows(r) ==
  /\ poll[r].at = "rows"
  /\ IF Rows = {} THEN poll' = [poll EXCEPT ![r] = Resting]
     ELSE PollTo(r, "store", [s \in Rows |-> [max |-> slot[s].max, who |-> Confirmed(s)]])
  /\ UNCHANGED <<server, cache, late, fetch, screen, left>>

PollStore(r) ==
  /\ poll[r].at = "store"
  /\ cache' = poll[r].data
  /\ late' = poll[r].overtaken
  /\ poll' = [poll EXCEPT ![r].at = "stock", ![r].overtaken = FALSE]
  /\ UNCHANGED <<server, fetch, screen, left>>

\* Variant: more free seats than the cached capacity has.
CountUnclamped(max, s) == max - (IF stock[s] = NoKey THEN 0 ELSE stock[s])

\* A counter that is not there counts as 0.
CurrentCount(max, s) == Max({0, max - (IF stock[s] = NoKey THEN 0 ELSE stock[s])})

PollStock(r) ==
  /\ poll[r].at = "stock"
  /\ \E mine \in Mine :
       poll' = [poll EXCEPT ![r].at = "answered", ![r].mine = mine,
         ![r].data = [s \in DOMAIN @ |-> [count |-> CurrentCount(@[s].max, s), who |-> @[s].who]]]
  /\ UNCHANGED <<server, cache, late, fetch, screen, left>>

\* Variant: whether the reservers changed is not looked at.
PollShowCount(r) ==
  LET new == poll[r].data
  IN /\ poll[r].at = "answered"
     /\ page' = [page EXCEPT !.my = poll[r].mine,
          !.shown = [s \in DOMAIN @ |-> IF s \in DOMAIN new /\ @[s].count # new[s].count
             THEN [max |-> @[s].max, count |-> new[s].count, who |-> new[s].who] ELSE @[s]]]
     /\ poll' = [poll EXCEPT ![r] = Resting]
     /\ UNCHANGED <<server, cache, late, fetch, press, left>>

\* A poll changes the count and the reservers of slots that are shown already.
PollShow(r) ==
  LET new == poll[r].data
  IN /\ poll[r].at = "answered"
     /\ page' = [page EXCEPT !.my = poll[r].mine,
          !.shown = [s \in DOMAIN @ |-> IF s \in DOMAIN new
             THEN [max |-> @[s].max, count |-> new[s].count, who |-> new[s].who] ELSE @[s]]]
     /\ poll' = [poll EXCEPT ![r] = Resting]
     /\ UNCHANGED <<server, cache, late, fetch, press, left>>

PollFails(r) ==
  /\ Spend("fault")
  /\ poll[r].at # "idle"
  /\ poll' = [poll EXCEPT ![r] = Resting]
  /\ UNCHANGED <<server, cache, late, fetch, screen>>
-----------------------------------------------------------------------------
(* fetchEvent and fetchMyReservation *)

EventRead ==
  /\ fetch.event = "asked"
  /\ fetch' = [fetch EXCEPT !.event = "answered",
       !.rows = [s \in Rows |-> [max |-> slot[s].max, count |-> slot[s].count,
                                 who |-> Confirmed(s)]]]
  /\ UNCHANGED <<server, cache, late, poll, screen, left>>

EventShow ==
  /\ fetch.event = "answered"
  /\ page' = [page EXCEPT !.loaded = TRUE, !.shown = fetch.rows]
  /\ fetch' = [fetch EXCEPT !.event = "idle", !.rows = <<>>]
  /\ UNCHANGED <<server, cache, late, poll, press, left>>

EventFails ==
  /\ Spend("fault")
  /\ fetch.event # "idle"
  /\ fetch' = [fetch EXCEPT !.event = "idle", !.rows = <<>>]
  /\ UNCHANGED <<server, cache, late, poll, screen>>

MineRead ==
  /\ fetch.mine = "asked"
  /\ \E mine \in Mine : fetch' = [fetch EXCEPT !.mine = "answered", !.id = mine]
  /\ UNCHANGED <<server, cache, late, poll, screen, left>>

MineShow ==
  /\ fetch.mine = "answered"
  /\ page' = [page EXCEPT !.my = fetch.id]
  /\ fetch' = [fetch EXCEPT !.mine = "idle", !.id = {}]
  /\ UNCHANGED <<server, cache, late, poll, press, left>>

\* A failure is taken for no reservation.
MineFails ==
  /\ Spend("fault")
  /\ fetch.mine # "idle"
  /\ page' = [page EXCEPT !.my = {}]
  /\ fetch' = [fetch EXCEPT !.mine = "idle", !.id = {}]
  /\ UNCHANGED <<server, cache, late, poll, press>>
-----------------------------------------------------------------------------
(* The user: a slot is selected, the button reserves or cancels.           *)

Select(s) ==
  /\ left["me"] > 0
  /\ page.selected # s
  /\ \A b \in page.my : booking[b].slot # s
  /\ s \in DOMAIN page.shown /\ page.shown[s].max # page.shown[s].count
  /\ page' = [page EXCEPT !.selected = s]
  /\ UNCHANGED <<server, cache, late, poll, fetch, press, left>>

Press ==
  /\ Spend("me")
  /\ press = Still
  /\ \/ page.my # {} /\ press' = [what |-> "cancel", on |-> CHOOSE b \in page.my : TRUE]
     \/ /\ page.my = {} /\ page.selected # NoSlot
        /\ press' = [what |-> "reserve", on |-> page.selected]
  /\ UNCHANGED <<server, cache, late, poll, fetch, page>>

PressReserves ==
  /\ press.what = "reserve"
  /\ Apply(Me, press.on)
  /\ press' = [press EXCEPT !.what = "reserved"]
  /\ UNCHANGED <<cache, late, poll, fetch, page, left>>

\* The handler answers when it has restocked and flushed.
PressCancels ==
  /\ press.what = "cancel"
  /\ Cancel(press.on)
  /\ press' = [press EXCEPT !.what = "cancelled"]
  /\ UNCHANGED <<cache, late, poll, fetch, page, left>>

\* The call is refused, or its answer is lost.
PressFails ==
  /\ \/ press.what = "reserve" /\ ~MayApply(Me, press.on) /\ UNCHANGED left
     \/ /\ press.what = "cancel" /\ booking[press.on].status = "CANCELLED"
        /\ UNCHANGED left
     \/ press.what # "nothing" /\ Spend("fault")
  /\ press' = Still
  /\ UNCHANGED <<server, cache, late, poll, fetch, page>>

Refetch(mine) ==
  /\ fetch.event = "idle"
  /\ mine => fetch.mine = "idle"
  /\ fetch' = [fetch EXCEPT !.event = "asked", !.mine = IF mine THEN "asked" ELSE @]

PressAnswered ==
  /\ \/ /\ press.what = "reserved"
        /\ page' = [page EXCEPT !.selected = NoSlot]
        /\ Refetch(TRUE)
     \/ /\ press.what = "cancelled"
        /\ \A t \in tail : t.by # <<"cancel", press.on>>
        /\ page' = [page EXCEPT !.my = {}]
        /\ Refetch(FALSE)
  /\ press' = Still
  /\ UNCHANGED <<server, cache, late, poll, left>>
-----------------------------------------------------------------------------
Work(t) == Restock(t) \/ InitStock(t) \/ Invalidate(t)
JobRuns(b) == Confirm(b) \/ JobFails(b)
PollRuns(r) == PollBegin(r) \/ PollRows(r) \/ PollStore(r) \/ PollStock(r) \/ PollShow(r)
PressRuns == PressReserves \/ PressCancels \/ PressFails \/ PressAnswered

PageNext ==
  \/ Expire
  \/ \E t \in tail : Work(t) \/ Dies(t)
  \/ \E b \in Booking : JobRuns(b) \/ OtherCancels(b)
  \/ \E s \in Slot : OtherApplies(s) \/ DeleteRead(s) \/ Select(s)
  \/ \E s \in Slot, m \in Sizes : CreateSlot(s, m) \/ ResizeSlot(s, m)
  \/ DeleteSlot
  \/ \E r \in Poll : PollRuns(r) \/ PollFails(r)
  \/ EventRead \/ EventShow \/ EventFails \/ MineRead \/ MineShow \/ MineFails
  \/ Press \/ PressRuns

\* Handlers and workers go on; the tab is visible, so it polls; the cache
\* expires after 60 seconds.
Fairness ==
  /\ WF_vars(Expire) /\ WF_vars(DeleteSlot) /\ WF_vars(PressRuns)
  /\ WF_vars(\E t \in tail : Work(t))
  /\ \A b \in Booking : WF_vars(JobRuns(b))
  /\ \A r \in Poll : WF_vars(PollRuns(r))
  /\ WF_vars(EventRead \/ EventShow) /\ WF_vars(MineRead \/ MineShow)

PageSpec == PageInit /\ [][PageNext]_vars /\ Fairness
-----------------------------------------------------------------------------
PageTypeOK ==
  /\ slot \in [Slot -> [max : Sizes \cup {0}, count : Int]]
  /\ stock \in [Slot -> Stock]
  /\ booking \in [Booking -> [who : {Me, Other, "nobody"}, slot : Slot \cup {NoSlot},
                             status : {"NONE", "PENDING", "CONFIRMED", "CANCELLED"},
                             cap : Sizes \cup {0}]]
  /\ job \in [Booking -> 0..Attempts]
  /\ deleting \in Slot \cup {NoSlot}
  /\ late \in BOOLEAN
  /\ press.what \in {"nothing", "reserve", "reserved", "cancel", "cancelled"}
  /\ page.my \in SUBSET Booking /\ Cardinality(page.my) <= 1
  /\ DOMAIN page.shown \subseteq Slot
  /\ \A r \in Poll : poll[r].at = "answered" =>
       \A s \in DOMAIN poll[r].data : poll[r].data[s].count \in Nat

\* The cached reservers are those of the rows once every writer has flushed,
\* however readers and writers overlap (event-slots.service.ts:50-159), unless
\* a reader stored after a flush what it had read before it, a writer died before
\* its flush, or the job of a reservation that was confirmed failed when it ran
\* again, which nothing flushes.
CacheMatchesRows ==
  cache # NoCache /\ ~late /\ (\A t \in tail : "flush" \notin ToSet(t.todo)) =>
    cache = [s \in Rows |-> [max |-> slot[s].max, who |-> Confirmed(s)]]

\* No live reservation is left without its slot, although a slot is deleted
\* after a look at its confirmed reservations only, and some time after it
\* (event-slots.service.ts:269-289).
BookingsKeepTheirSlot ==
  \A b \in Booking : booking[b].status \in {"PENDING", "CONFIRMED"} => booking[b].slot \in Rows

\* What the page shows of the slots that are still there is what the server says.
Agrees ==
  /\ page.my \in Mine
  /\ \A s \in DOMAIN page.shown \cap Rows :
       /\ page.shown[s].who = Confirmed(s)
       /\ page.shown[s].count = CurrentCount(slot[s].max, s)

\* When nobody acts any more the page catches up, whatever was answered late,
\* lost or stored stale on the way, unless it never loaded.
PageCatchesUp == <>[](page.loaded => Agrees)
=============================================================================
