-------------------------- MODULE EventPageProofs --------------------------
(***************************************************************************)
(* What holds of the slots of an event, their cache and the page, for any  *)
(* number of slots, reservations and overlapping polls.                    *)
(*                                                                         *)
(* A row outlives its reservations because the foreign key counts those of *)
(* any status.  The cache is right because whoever changes the rows has    *)
(* its flush still to do, and the flush overtakes all who have read before *)
(* it: the same is said of the polls that are about to store.              *)
(***************************************************************************)
EXTENDS EventPage, FiniteSetTheorems, TLAPS

\* What a request reads of the rows and stores in the cache.
View == [s \in Rows |-> [max |-> slot[s].max, who |-> Confirmed(s)]]

\* A cached list: for some of the slots a capacity and the reservers.
CachedList(v) ==
  DOMAIN v \subseteq Slot /\ \A s \in DOMAIN v : v[s].max \in Int

\* What a handler may have left to do.
Plans == {<<"restock">>, <<"restock", "flush">>, <<"init", "flush">>, <<"flush">>}
Author == {"cancel", "job", "admin"} \X Nat
Leftover == [by : Author, todo : Plans, slot : Slot, max : Int, count : Int]

\* An answer to the question which reservation the user has.
MineAnswer == {{}} \cup {{b} : b \in Booking}

PollOK(q) ==
  /\ q \in [at : {q.at}, data : {q.data}, overtaken : BOOLEAN, mine : MineAnswer]
  /\ q.at \in {"store", "stock"} => CachedList(q.data)
  /\ q.at = "answered" => \A s \in DOMAIN q.data : q.data[s].count \in Nat

FetchOK ==
  /\ fetch \in [event : {fetch.event}, rows : {fetch.rows}, mine : {fetch.mine},
               id : MineAnswer]
  /\ DOMAIN fetch.rows \subseteq Slot

ScreenOK ==
  /\ page \in [loaded : BOOLEAN, shown : {page.shown}, my : MineAnswer,
              selected : {page.selected}]
  /\ DOMAIN page.shown \subseteq Slot
  /\ press \in [what : {"nothing", "reserve", "reserved", "cancel", "cancelled"},
               on : {press.on}]
  /\ press.what = "cancel" => press.on \in Booking

RowsOK ==
  /\ slot \in [Slot -> [max : Sizes \cup {0}, count : Int]]
  /\ \A s \in Slot : slot[s] = Gone \/ slot[s].max \in Sizes
  /\ booking \in [Booking -> [who : {Me, Other, "nobody"}, slot : Slot \cup {NoSlot},
                             status : {"NONE", "PENDING", "CONFIRMED", "CANCELLED"},
                             cap : Sizes \cup {0}]]
  /\ job \in [Booking -> 0..Attempts]
  /\ deleting \in Slot \cup {NoSlot}

StockOK == stock \in [Slot -> Stock]

\* A job, and a handler of a job, has its reservation.
WorkOK ==
  /\ tail \subseteq Leftover
  /\ \A t \in tail : t.by[1] = "job" =>
       t.by[2] \in Booking /\ booking[t.by[2]].status # "NONE"
  /\ \A b \in Booking : job[b] > 0 => booking[b].status # "NONE"

CacheOK ==
  /\ late \in BOOLEAN
  /\ cache # NoCache => CachedList(cache)
  /\ poll = [r \in Poll |-> poll[r]]
  /\ \A r \in Poll : PollOK(poll[r])

\* A reservation of any status keeps its slot.
Referenced ==
  \A b \in Booking : booking[b].status # "NONE" => booking[b].slot \in Rows

\* Without a flush to come, neither the cache nor a poll that is about to
\* store holds anything else than the rows, unless a flush passed it by.
Current ==
  (\A t \in tail : t.todo = <<"restock">>) =>
    /\ cache # NoCache /\ ~late => cache = View
    /\ \A r \in Poll : poll[r].at = "store" /\ ~poll[r].overtaken => poll[r].data = View

PageInv == RowsOK /\ StockOK /\ WorkOK /\ Referenced /\ CacheOK /\ FetchOK /\ ScreenOK
-----------------------------------------------------------------------------
\* What a handler has left when a step of its plan is done is again a plan.
LEMMA PlansShrink ==
  ASSUME NEW t \in Leftover, Len(t.todo) # 1
  PROVE  /\ [t EXCEPT !.todo = Tail(@)] \in Leftover
         /\ [t EXCEPT !.todo = Tail(@)].todo = <<"flush">>
         /\ [t EXCEPT !.todo = Tail(@)].by = t.by
<1>1. t.todo \in {<<"restock", "flush">>, <<"init", "flush">>}
  BY DEF Leftover, Plans
<1>2. Tail(<<"restock", "flush">>) = <<"flush">> /\ Tail(<<"init", "flush">>) = <<"flush">>
  OBVIOUS
<1>3. Tail(t.todo) = <<"flush">>
  BY <1>1, <1>2
<1>4. QED
  BY <1>3 DEF Leftover, Plans

\* What the end of a plan's step leaves of the handlers.
LEMMA DoneKeeps ==
  ASSUME NEW t \in tail, tail \subseteq Leftover, Done(t)
  PROVE  /\ tail' \subseteq Leftover
         /\ \A u \in tail' : \E v \in tail : u.by = v.by
         /\ Len(t.todo) # 1 => \E u \in tail' : u.todo = <<"flush">>
<1>1. CASE Len(t.todo) = 1
  BY <1>1 DEF Done
<1>2. CASE Len(t.todo) # 1
  BY <1>2, PlansShrink DEF Done
<1>3. QED
  BY <1>1, <1>2

\* A question for the reservation of the user is answered with one at most.
LEMMA MineAnswers == Mine \subseteq MineAnswer
<1>1. MyLive \subseteq Booking
  BY DEF MyLive, LiveOf
<1>2. QED
  BY <1>1 DEF Mine, MineAnswer

LEMMA MineAnswerSmall ==
  ASSUME NEW m \in MineAnswer
  PROVE  m \subseteq Booking /\ Cardinality(m) <= 1
<1>1. CASE m = {}
  BY <1>1, FS_EmptySet
<1>2. ASSUME NEW b \in Booking, m = {b} PROVE m \subseteq Booking /\ Cardinality(m) <= 1
  BY <1>2, FS_Singleton
<1>3. QED
  BY <1>1, <1>2 DEF MineAnswer

\* The count that is shown is never negative.
LEMMA CountIsNatural ==
  ASSUME StockOK, NEW s \in Slot, NEW m \in Int
  PROVE  CurrentCount(m, s) \in Nat
<1> DEFINE d == m - (IF stock[s] = NoKey THEN 0 ELSE stock[s])
<1>1. d \in Int
  BY DEF StockOK, Stock
<1>2. \E x \in {0, d} : \A y \in {0, d} : x >= y
  <2>1. CASE d >= 0  BY <2>1, <1>1
  <2>2. CASE ~(d >= 0) BY <2>2, <1>1
  <2>3. QED BY <2>1, <2>2
<1>3. Max({0, d}) \in {0, d} /\ \A y \in {0, d} : Max({0, d}) >= y
  BY <1>2 DEF Max
<1>4. QED
  BY <1>1, <1>3 DEF CurrentCount
-----------------------------------------------------------------------------
\* The rows, what handlers have left, and that reservations keep their slots.
Server == RowsOK /\ StockOK /\ WorkOK /\ Referenced

LEMMA ApplyKeeps ==
  ASSUME Server, NEW p \in {Me, Other}, NEW s, Apply(p, s)
  PROVE  Server'
<1>1. s \in Slot /\ slot[s] # Gone /\ stock[s] \in Int
  BY DEF Apply, MayApply, Rows, Server, StockOK, Stock, CanDecrement
<1>2. PICK b \in Booking :
        /\ booking[b] = Blank
        /\ booking' = [booking EXCEPT ![b] = [who |-> p, slot |-> s, status |-> "PENDING",
                                                cap |-> slot[s].max]]
        /\ job' = [job EXCEPT ![b] = Attempts]
  BY DEF Apply
<1>3. RowsOK'
  BY <1>1, <1>2, PageBounds DEF Apply, Server, RowsOK
<1>4. StockOK'
  BY <1>1 DEF Apply, Server, StockOK, Stock, Decremented
<1>5. WorkOK'
  BY <1>2, PageBounds DEF Apply, Server, WorkOK, RowsOK
<1>6. Referenced'
  BY <1>1, <1>2 DEF Apply, Server, Referenced, Rows, RowsOK
<1>7. QED
  BY <1>3, <1>4, <1>5, <1>6 DEF Server

LEMMA CancelKeeps ==
  ASSUME Server, NEW b \in Booking, Cancel(b)
  PROVE  Server'
<1> DEFINE s == booking[b].slot
<1>1. s \in Slot /\ slot[s].max \in Sizes /\ booking[b].status # "NONE"
  BY DEF Cancel, Server, Referenced, RowsOK, Rows
<1>2. RowsOK'
  <2>1. slot' \in [Slot -> [max : Sizes \cup {0}, count : Int]]
    BY <1>1 DEF Cancel, Server, RowsOK
  <2>2. \A r \in Slot : slot'[r] = Gone \/ slot'[r].max \in Sizes
    BY <1>1 DEF Cancel, Server, RowsOK
  <2>3. QED
    BY <2>1, <2>2 DEF Cancel, Server, RowsOK
<1>3. StockOK'
  BY DEF Cancel, Server, StockOK
<1>4. WorkOK'
  BY <1>1, PageBounds DEF Cancel, Then, Server, WorkOK, RowsOK, Leftover, Plans, Author, Booking
<1>5. Referenced'
  BY <1>1, PageBounds DEF Cancel, Server, Referenced, Rows, RowsOK, Gone
<1>6. QED
  BY <1>2, <1>3, <1>4, <1>5 DEF Server

\* A job runs only on a reservation, and one that has its slot.
LEMMA JobHasSlot ==
  ASSUME Server, NEW b \in Booking, JobReady(b)
  PROVE  /\ booking[b].status # "NONE"
         /\ booking[b].slot \in Slot
         /\ slot[booking[b].slot].max \in Sizes
  BY DEF JobReady, Server, WorkOK, Referenced, RowsOK, Rows

LEMMA ConfirmKeeps ==
  ASSUME Server, NEW b \in Booking, Confirm(b)
  PROVE  Server'
<1> DEFINE s == booking[b].slot
<1>1. s \in Slot /\ slot[s].max \in Sizes /\ booking[b].status # "NONE"
  BY JobHasSlot DEF Confirm
<1>2. RowsOK'
  BY <1>1, PageBounds DEF Confirm, Server, RowsOK, Gone
<1>3. StockOK'
  BY DEF Confirm, Server, StockOK
<1>4. WorkOK'
  BY <1>1, PageBounds
  DEF Confirm, Then, Server, WorkOK, RowsOK, Leftover, Plans, Author, Booking
<1>5. Referenced'
  BY <1>1, PageBounds DEF Confirm, Server, Referenced, Rows, RowsOK, Gone
<1>6. QED
  BY <1>2, <1>3, <1>4, <1>5 DEF Server

LEMMA JobFailsKeeps ==
  ASSUME Server, NEW b \in Booking, JobFails(b)
  PROVE  Server'
<1> DEFINE s == booking[b].slot
<1>1. s \in Slot /\ slot[s].max \in Sizes /\ booking[b].status # "NONE"
  BY JobHasSlot DEF JobFails
<1>2. RowsOK'
  BY <1>1, PageBounds DEF JobFails, JobReady, Server, RowsOK
<1>3. StockOK'
  BY DEF JobFails, Server, StockOK
<1>4. WorkOK'
  BY <1>1, PageBounds
  DEF JobFails, JobReady, Then, Server, WorkOK, RowsOK, Leftover, Plans, Author, Booking
<1>5. Referenced'
  BY <1>1 DEF JobFails, Server, Referenced, Rows, RowsOK
<1>6. QED
  BY <1>2, <1>3, <1>4, <1>5 DEF Server

LEMMA WorkKeeps ==
  ASSUME Server, NEW t \in tail, Work(t)
  PROVE  Server'
<1>1. /\ t \in Leftover /\ tail' \subseteq Leftover
      /\ \A u \in tail' : \E v \in tail : u.by = v.by
  BY DoneKeeps DEF Work, Restock, InitStock, Invalidate, Server, WorkOK
<1>2. StockOK'
  <2>1. CASE Restock(t)
    BY <2>1, <1>1 DEF Restock, Incremented, Server, StockOK, Stock, Leftover
  <2>2. CASE InitStock(t)
    BY <2>2, <1>1 DEF InitStock, Initialised, Server, StockOK, Stock, Leftover
  <2>3. CASE Invalidate(t)
    BY <2>3 DEF Invalidate, Server, StockOK
  <2>4. QED
    BY <2>1, <2>2, <2>3 DEF Work
<1>3. UNCHANGED <<slot, booking, job, deleting>>
  BY DEF Work, Restock, InitStock, Invalidate
<1>4. RowsOK' /\ Referenced'
  BY <1>3 DEF Server, RowsOK, Referenced, Rows
<1>5. WorkOK'
  BY <1>1, <1>3 DEF Server, WorkOK
<1>6. QED
  BY <1>2, <1>4, <1>5 DEF Server

LEMMA DiesKeeps ==
  ASSUME Server, NEW t \in tail, Dies(t)
  PROVE  Server'
<1>1. RowsOK'
  BY PageBounds, Attempts \in 0..Attempts DEF Dies, Server, RowsOK
<1>2. StockOK' /\ Referenced'
  BY DEF Dies, Server, StockOK, Referenced, Rows
<1>3. WorkOK'
  BY DEF Dies, Server, WorkOK, RowsOK
<1>4. QED
  BY <1>1, <1>2, <1>3 DEF Server

\* The administrator's handlers.
LEMMA AdminKeeps ==
  ASSUME Server
  PROVE  /\ \A s \in Slot, m \in Sizes : CreateSlot(s, m) \/ ResizeSlot(s, m) => Server'
         /\ \A s \in Slot : DeleteRead(s) => Server'
         /\ DeleteSlot => Server'
<1> USE DEF Server
<1>1. ASSUME NEW s \in Slot, NEW m \in Sizes, CreateSlot(s, m) PROVE Server'
  <2>1. m \in Nat \ {0} /\ slot[s] = Gone
    BY <1>1, PageBounds DEF CreateSlot, Rows
  <2>2. RowsOK' /\ StockOK'
    BY <1>1 DEF CreateSlot, RowsOK, StockOK
  <2>3. WorkOK'
    BY <1>1, <2>1 DEF CreateSlot, Then, WorkOK, Leftover, Plans, Author
  <2>4. Referenced'
    BY <1>1, <2>1 DEF CreateSlot, Referenced, Rows, RowsOK, Gone
  <2>5. QED
    BY <2>2, <2>3, <2>4
<1>2. ASSUME NEW s \in Slot, NEW m \in Sizes, ResizeSlot(s, m) PROVE Server'
  <2>1. m \in Nat \ {0} /\ slot[s] # Gone
    BY <1>2, PageBounds DEF ResizeSlot, Rows
  <2>2. RowsOK' /\ StockOK'
    BY <1>2 DEF ResizeSlot, RowsOK, StockOK
  <2>3. WorkOK'
    BY <1>2, <2>1 DEF ResizeSlot, Then, WorkOK, Leftover, Plans, Author, RowsOK
  <2>4. Referenced'
    BY <1>2, <2>1 DEF ResizeSlot, Referenced, Rows, RowsOK, Gone
  <2>5. QED
    BY <2>2, <2>3, <2>4
<1>3. ASSUME NEW s \in Slot, DeleteRead(s) PROVE Server'
  BY <1>3 DEF DeleteRead, RowsOK, StockOK, WorkOK, Referenced, Rows
<1>4. ASSUME DeleteSlot PROVE Server'
  <2>1. RowsOK' /\ StockOK'
    BY <1>4 DEF DeleteSlot, RowsOK, StockOK, Gone
  <2>2. WorkOK'
    BY <1>4 DEF DeleteSlot, Then, WorkOK, RowsOK, Leftover, Plans, Author
  <2>3. Referenced'
    BY <1>4 DEF DeleteSlot, Deletable, Referenced, Rows, RowsOK
  <2>4. QED
    BY <2>1, <2>2, <2>3
<1>5. QED
  BY <1>1, <1>2, <1>3, <1>4

LEMMA ServerStep == Server /\ ScreenOK /\ [PageNext]_vars => Server'
<1> SUFFICES ASSUME Server, ScreenOK, [PageNext]_vars PROVE Server'
  OBVIOUS
<1>1. ASSUME UNCHANGED server PROVE Server'
  BY <1>1 DEF server, Server, RowsOK, StockOK, WorkOK, Referenced, Rows
<1>2. ASSUME NEW t \in tail, Work(t) \/ Dies(t) PROVE Server'
  BY <1>2, WorkKeeps, DiesKeeps
<1>3. ASSUME NEW b \in Booking, JobRuns(b) \/ OtherCancels(b) PROVE Server'
  BY <1>3, ConfirmKeeps, JobFailsKeeps, CancelKeeps DEF JobRuns, OtherCancels
<1>4. ASSUME NEW s \in Slot, OtherApplies(s) \/ DeleteRead(s) \/ Select(s) PROVE Server'
  BY <1>1, <1>4, ApplyKeeps, AdminKeeps DEF OtherApplies, Select
<1>5. CASE PressReserves
  BY <1>5, ApplyKeeps DEF PressReserves
<1>6. CASE PressCancels
  BY <1>6, CancelKeeps DEF PressCancels, ScreenOK
<1>7. ASSUME NEW r \in Poll, PollRuns(r) \/ PollFails(r) PROVE Server'
  BY <1>1, <1>7
  DEF PollRuns, PollBegin, PollRows, PollStore, PollStock, PollShow, PollFails
<1>8. CASE Expire \/ EventRead \/ EventShow \/ EventFails \/ MineRead \/ MineShow \/ MineFails
           \/ Press \/ PressFails \/ PressAnswered \/ UNCHANGED vars
  BY <1>1, <1>8
  DEF Expire, EventRead, EventShow, EventFails, MineRead, MineShow, MineFails, Press,
      PressFails, PressAnswered, vars
<1>9. QED
  BY <1>2, <1>3, <1>4, <1>5, <1>6, <1>7, <1>8, AdminKeeps DEF PageNext, PressRuns
-----------------------------------------------------------------------------
\* The page: what it asked for, what it shows, and what the button sent.
LEMMA ScreenStep ==
  CacheOK /\ FetchOK /\ ScreenOK /\ [PageNext]_vars => FetchOK' /\ ScreenOK'
<1> SUFFICES ASSUME CacheOK, FetchOK, ScreenOK, [PageNext]_vars PROVE FetchOK' /\ ScreenOK'
  OBVIOUS
<1> DEFINE Goal == FetchOK /\ ScreenOK
<1>1. ASSUME UNCHANGED <<fetch, screen>> PROVE Goal'
  BY <1>1 DEF screen, FetchOK, ScreenOK
<1>2. ASSUME NEW t \in tail, Work(t) \/ Dies(t) PROVE Goal'
  <2>1. CASE Work(t)
    BY <1>1, <2>1 DEF Work, Restock, InitStock, Invalidate
  <2>2. CASE Dies(t)
    BY <2>2 DEF Dies, FetchOK, ScreenOK, Still
  <2>3. QED
    BY <1>2, <2>1, <2>2
<1>3. ASSUME NEW b \in Booking, JobRuns(b) \/ OtherCancels(b) PROVE Goal'
  BY <1>1, <1>3 DEF JobRuns, Confirm, JobFails, OtherCancels, screen
<1>4. ASSUME NEW s \in Slot, OtherApplies(s) \/ DeleteRead(s) \/ Select(s) PROVE Goal'
  <2>1. CASE Select(s)
    BY <2>1 DEF Select, FetchOK, ScreenOK
  <2>2. QED
    BY <1>1, <1>4, <2>1 DEF OtherApplies, DeleteRead
<1>5. ASSUME NEW s \in Slot, NEW m \in Sizes, CreateSlot(s, m) \/ ResizeSlot(s, m) PROVE Goal'
  BY <1>1, <1>5 DEF CreateSlot, ResizeSlot
<1>6. ASSUME NEW r \in Poll, PollRuns(r) \/ PollFails(r) PROVE Goal'
  <2>1. CASE PollShow(r)
    <3>1. poll[r].mine \in MineAnswer
      BY DEF CacheOK, PollOK
    <3>2. QED
      BY <2>1, <3>1 DEF PollShow, FetchOK, ScreenOK
  <2>2. QED
    BY <1>1, <1>6, <2>1 DEF PollRuns, PollBegin, PollRows, PollStore, PollStock, PollFails
<1>7. CASE EventRead \/ EventShow \/ EventFails \/ MineRead \/ MineShow \/ MineFails
  <2>1. Rows \subseteq Slot /\ {} \in MineAnswer /\ DOMAIN <<>> = {}
    BY DEF Rows, MineAnswer
  <2>2. CASE EventRead
    BY <2>1, <2>2 DEF EventRead, screen, FetchOK, ScreenOK
  <2>3. CASE EventShow
    BY <2>1, <2>3 DEF EventShow, FetchOK, ScreenOK
  <2>4. CASE EventFails
    BY <2>1, <2>4 DEF EventFails, screen, FetchOK, ScreenOK
  <2>5. CASE MineRead
    BY <2>5, MineAnswers DEF MineRead, screen, FetchOK, ScreenOK
  <2>6. CASE MineShow
    BY <2>1, <2>6 DEF MineShow, FetchOK, ScreenOK
  <2>7. CASE MineFails
    BY <2>1, <2>7 DEF MineFails, FetchOK, ScreenOK
  <2>8. QED
    BY <1>7, <2>2, <2>3, <2>4, <2>5, <2>6, <2>7
<1>8. CASE Press \/ PressRuns
  <2>1. CASE Press
    <3>1. PICK what \in {"cancel", "reserve"}, on \in page.my \cup {page.selected} :
            press' = [what |-> what, on |-> on] /\ (what = "cancel" => on \in page.my)
      BY <2>1 DEF Press
    <3>2. page.my \subseteq Booking
      BY MineAnswerSmall DEF ScreenOK
    <3>3. FetchOK' /\ page' = page
      BY <2>1 DEF Press, FetchOK
    <3>4. QED
      BY <3>1, <3>2, <3>3 DEF ScreenOK
  <2>2. CASE PressReserves
    BY <2>2 DEF PressReserves, FetchOK, ScreenOK
  <2>3. CASE PressCancels
    BY <2>3 DEF PressCancels, FetchOK, ScreenOK
  <2>4. CASE PressFails
    BY <2>4 DEF PressFails, FetchOK, ScreenOK, Still
  <2>5. CASE PressAnswered
    <3>1. {} \in MineAnswer
      BY DEF MineAnswer
    <3>2. FetchOK'
      BY <2>5 DEF PressAnswered, Refetch, FetchOK
    <3>3. ScreenOK'
      BY <2>5, <3>1 DEF PressAnswered, ScreenOK, Still
    <3>4. QED
      BY <3>2, <3>3
  <2>6. QED
    BY <1>8, <2>1, <2>2, <2>3, <2>4, <2>5 DEF PressRuns
<1>9. CASE Expire \/ DeleteSlot \/ UNCHANGED vars
  BY <1>1, <1>9 DEF Expire, DeleteSlot, vars
<1>10. QED
  BY <1>2, <1>3, <1>4, <1>5, <1>6, <1>7, <1>8, <1>9 DEF PageNext
-----------------------------------------------------------------------------
\* The cache and the polls.
LEMMA PollUpdate ==
  ASSUME CacheOK, NEW r \in Poll, NEW q, PollOK(q), poll' = [poll EXCEPT ![r] = q]
  PROVE  poll' = [x \in Poll |-> poll'[x]] /\ \A x \in Poll : PollOK(poll'[x])
<1>1. poll' = [x \in Poll |-> IF x = r THEN q ELSE poll[x]]
  BY DEF CacheOK
<1>2. QED
  BY <1>1 DEF CacheOK

LEMMA OvertakenPoll ==
  ASSUME NEW q, PollOK(q), NEW p, p = [q EXCEPT !.overtaken = TRUE]
  PROVE  PollOK(p)
  BY DEF PollOK

LEMMA OvertakeKeeps ==
  ASSUME CacheOK, Overtake
  PROVE  poll' = [r \in Poll |-> poll'[r]] /\ \A r \in Poll : PollOK(poll'[r])
<1>1. \A r \in Poll : PollOK(poll[r]) /\ PollOK([poll[r] EXCEPT !.overtaken = TRUE])
  BY OvertakenPoll DEF CacheOK
<1>2. poll' = [r \in Poll |-> IF poll[r].at = "store"
                              THEN [poll[r] EXCEPT !.overtaken = TRUE] ELSE poll[r]]
  BY DEF Overtake
<1>3. QED
  BY <1>1, <1>2

\* A step that flushes, or one that no flush follows.
LEMMA FlushKeeps ==
  ASSUME CacheOK, Flush \/ Unflushed
  PROVE  CacheOK'
  BY OvertakeKeeps DEF Flush, Unflushed, CacheOK

LEMMA CacheStep ==
  RowsOK /\ StockOK /\ CacheOK /\ [PageNext]_vars => CacheOK'
<1> SUFFICES ASSUME RowsOK, StockOK, CacheOK, [PageNext]_vars PROVE CacheOK'
  OBVIOUS
<1>1. ASSUME UNCHANGED <<cache, late, poll>> PROVE CacheOK'
  BY <1>1 DEF CacheOK, PollOK
<1>2. ASSUME NEW t \in tail, Work(t) \/ Dies(t) PROVE CacheOK'
  BY <1>1, <1>2, FlushKeeps DEF Work, Restock, InitStock, Invalidate, Dies
<1>3. ASSUME NEW b \in Booking, JobRuns(b) \/ OtherCancels(b) PROVE CacheOK'
  BY <1>1, <1>3, FlushKeeps DEF JobRuns, Confirm, JobFails, OtherCancels
<1>4. ASSUME NEW s \in Slot, OtherApplies(s) \/ DeleteRead(s) \/ Select(s) PROVE CacheOK'
  BY <1>1, <1>4 DEF OtherApplies, DeleteRead, Select
<1>5. ASSUME NEW s \in Slot, NEW m \in Sizes, CreateSlot(s, m) \/ ResizeSlot(s, m)
      PROVE  CacheOK'
  BY <1>1, <1>5 DEF CreateSlot, ResizeSlot
<1>6. ASSUME NEW r \in Poll, PollRuns(r) \/ PollFails(r) PROVE CacheOK'
  <2> DEFINE q == poll[r]
  <2>0. PollOK(q)
    BY DEF CacheOK
  <2>1. ASSUME NEW at, NEW data, PollTo(r, at, data), UNCHANGED <<cache, late>>,
               at \in {"store", "stock"} => CachedList(data), at # "answered"
        PROVE  CacheOK'
    <3>1. PollOK(poll'[r])
      BY <2>0, <2>1 DEF PollTo, CacheOK, PollOK
    <3>2. QED
      BY <2>1, <3>1 DEF PollTo, CacheOK
  <2>2. CASE PollBegin(r)
    BY <2>1, <2>2 DEF PollBegin, CacheOK
  <2>3. PollOK(Resting)
    BY DEF PollOK, Resting, MineAnswer
  <2>4. CASE PollRows(r)
    <3>1. CachedList(View)
      <4>1. \A s \in Rows : s \in Slot /\ slot[s].max \in Int
        <5>1. \A s \in Rows : s \in Slot /\ slot[s].max \in Sizes \cup {0}
          BY DEF Rows, RowsOK
        <5>2. Sizes \cup {0} \subseteq Int
          BY PageBounds
        <5>3. QED
          BY <5>1, <5>2
      <4>2. QED
        BY <4>1 DEF View, CachedList
    <3>2. CASE Rows = {}
      BY <2>3, <2>4, <3>2, PollUpdate DEF PollRows, CacheOK
    <3>3. QED
      BY <2>1, <2>4, <3>1, <3>2 DEF PollRows, View
  <2>5. CASE PollStore(r)
    <3>1. CachedList(q.data) /\ q.overtaken \in BOOLEAN
      BY <2>0, <2>5 DEF PollStore, PollOK
    <3>2. PollOK(poll'[r])
      BY <2>0, <2>5, <3>1 DEF PollStore, CacheOK, PollOK
    <3>3. QED
      BY <2>5, <3>1, <3>2 DEF PollStore, CacheOK
  <2>6. CASE PollStock(r)
    <3> DEFINE data == [s \in DOMAIN q.data |->
                          [count |-> CurrentCount(q.data[s].max, s), who |-> q.data[s].who]]
    <3>1. PICK mine \in Mine :
            poll' = [poll EXCEPT ![r].at = "answered", ![r].mine = mine, ![r].data =
              [s \in DOMAIN @ |-> [count |-> CurrentCount(@[s].max, s), who |-> @[s].who]]]
      BY <2>6 DEF PollStock
    <3>2. poll' = [poll EXCEPT ![r].at = "answered", ![r].mine = mine, ![r].data = data]
      BY <3>1
    <3>3. CachedList(q.data)
      BY <2>0, <2>6 DEF PollStock, PollOK
    <3>4. \A s \in DOMAIN data : data[s].count \in Nat
      BY <3>3, CountIsNatural DEF CachedList
    <3> HIDE DEF data
    <3>5. PollOK(poll'[r])
      BY <2>0, <3>2, <3>4, MineAnswers DEF CacheOK, PollOK
    <3>6. QED
      BY <2>6, <3>2, <3>5 DEF PollStock, CacheOK
  <2>7. CASE PollShow(r) \/ PollFails(r)
    BY <2>3, <2>7, PollUpdate DEF PollShow, PollFails, CacheOK
  <2>8. QED
    BY <1>6, <2>2, <2>4, <2>5, <2>6, <2>7 DEF PollRuns
<1>7. CASE Expire
  BY <1>7 DEF Expire, CacheOK, PollOK
<1>8. CASE DeleteSlot \/ EventRead \/ EventShow \/ EventFails \/ MineRead \/ MineShow
           \/ MineFails \/ Press \/ PressRuns \/ UNCHANGED vars
  BY <1>1, <1>8
  DEF DeleteSlot, EventRead, EventShow, EventFails, MineRead, MineShow, MineFails, Press,
      PressRuns, PressReserves, PressCancels, PressFails, PressAnswered, vars
<1>9. QED
  BY <1>2, <1>3, <1>4, <1>5, <1>6, <1>7, <1>8 DEF PageNext
-----------------------------------------------------------------------------
\* A change of the rows leaves a flush to be done.
LEMMA FlushToCome ==
  ASSUME \E t \in tail' : t.todo # <<"restock">>
  PROVE  Current'
  BY DEF Current

LEMMA ThenFlushes ==
  ASSUME NEW by, NEW todo \in {<<"flush">>, <<"init", "flush">>, <<"restock", "flush">>},
         NEW s, NEW max, NEW count, Then(by, todo, s, max, count)
  PROVE  Current'
<1> DEFINE t == [by |-> by, todo |-> todo, slot |-> s, max |-> max, count |-> count]
<1>1. t \in tail' /\ t.todo = todo
  BY DEF Then
<1>2. todo # <<"restock">>
  <2>1. <<"flush">> # <<"restock">>
    OBVIOUS
  <2>2. <<"init", "flush">> # <<"restock">> /\ <<"restock", "flush">> # <<"restock">>
    OBVIOUS
  <2>3. QED
    BY <2>1, <2>2
<1>3. QED
  BY <1>1, <1>2, FlushToCome

\* After a flush, or a change that announces itself as one that is not
\* flushed, there is nothing in the cache, or it is late, and every poll that
\* has read is overtaken.
LEMMA FlushCurrent ==
  ASSUME CacheOK, Flush \/ Unflushed
  PROVE  Current'
<1>1. \A r \in Poll : poll'[r].at = "store" => poll'[r].overtaken
  <2>1. \A r \in Poll : PollOK(poll[r])
    BY DEF CacheOK
  <2>2. ASSUME NEW r \in Poll, poll[r].at = "store" PROVE poll'[r].overtaken
    BY <2>1, <2>2 DEF Flush, Unflushed, Overtake, PollOK
  <2>3. ASSUME NEW r \in Poll, poll[r].at # "store" PROVE poll'[r].at # "store"
    BY <2>3 DEF Flush, Unflushed, Overtake
  <2>4. QED
    BY <2>2, <2>3
<1>2. cache' = NoCache \/ late'
  BY DEF Flush, Unflushed
<1>3. QED
  BY <1>1, <1>2 DEF Current

\* A step that touches neither the rows nor the reservers, nor the cache.
LEMMA SameCurrent ==
  ASSUME Current, View' = View, UNCHANGED <<cache, late, poll>>,
         (\A t \in tail' : t.todo = <<"restock">>) => \A t \in tail : t.todo = <<"restock">>
  PROVE  Current'
  BY DEF Current

\* Only whose reservation is confirmed is among the reservers.
LEMMA SameView ==
  ASSUME slot' = slot, NEW b \in Booking, RowsOK, NEW new,
         booking' = [booking EXCEPT ![b] = new],
         booking[b].status # "CONFIRMED", new.status # "CONFIRMED"
  PROVE  View' = View
<1>1. \A s \in Slot : Confirmed(s)' = Confirmed(s)
  BY DEF Confirmed, RowsOK
<1>2. Rows' = Rows /\ Rows \subseteq Slot
  BY DEF Rows
<1>3. QED
  BY <1>1, <1>2 DEF View

LEMMA ApplyCurrent ==
  ASSUME Server, Current, NEW p, NEW s, Apply(p, s), UNCHANGED <<cache, late, poll>>
  PROVE  Current'
<1>1. View' = View
  <2>1. PICK b \in Booking :
          /\ booking[b] = Blank
          /\ booking' = [booking EXCEPT ![b] = [who |-> p, slot |-> s, status |-> "PENDING",
                                                  cap |-> slot[s].max]]
    BY DEF Apply
  <2>2. QED
    <3>1. booking[b].status # "CONFIRMED" /\ Blank.status # "CONFIRMED"
      BY <2>1 DEF Blank
    <3>2. [who |-> p, slot |-> s, status |-> "PENDING", cap |-> slot[s].max].status # "CONFIRMED"
      OBVIOUS
    <3>3. slot' = slot /\ RowsOK
      BY DEF Apply, Server
    <3>4. QED
      BY <2>1, <3>1, <3>2, <3>3, SameView
<1>2. QED
  BY <1>1, SameCurrent DEF Apply

LEMMA CurrentStep ==
  Server /\ CacheOK /\ Current /\ [PageNext]_vars => Current'
<1> SUFFICES ASSUME Server, CacheOK, Current, [PageNext]_vars PROVE Current'
  OBVIOUS
<1>1. ASSUME UNCHANGED <<slot, booking, tail, cache, late, poll>> PROVE Current'
  BY <1>1, SameCurrent DEF View, Rows, Confirmed
<1>2. ASSUME NEW t \in tail, Work(t) \/ Dies(t) PROVE Current'
  <2>1. CASE Restock(t) \/ InitStock(t)
    <3>1. View' = View /\ UNCHANGED <<cache, late, poll>> /\ Done(t)
      BY <2>1 DEF Restock, InitStock, View, Rows, Confirmed
    <3>2. CASE Len(t.todo) # 1
      BY <3>1, <3>2, DoneKeeps, FlushToCome DEF Server, WorkOK
    <3>3. CASE Len(t.todo) = 1
      <4>1. t.todo = <<"restock">> /\ tail' = tail \ {t}
        BY <2>1, <3>1, <3>3 DEF Done, Restock, InitStock, Server, WorkOK, Leftover, Plans
      <4>2. QED
        BY <3>1, <4>1, SameCurrent
    <3>4. QED
      BY <3>2, <3>3
  <2>2. CASE Invalidate(t) \/ Dies(t)
    BY <2>2, FlushCurrent DEF Invalidate, Dies
  <2>3. QED
    BY <1>2, <2>1, <2>2 DEF Work
<1>3. ASSUME NEW b \in Booking, Cancel(b) PROVE Current'
  BY <1>3, ThenFlushes DEF Cancel
<1>4. ASSUME NEW b \in Booking, Confirm(b) PROVE Current'
  BY <1>4, ThenFlushes DEF Confirm
<1>5. ASSUME NEW b \in Booking, JobFails(b) PROVE Current'
  <2>1. CASE booking[b].status = "CONFIRMED"
    BY <1>5, <2>1, FlushCurrent DEF JobFails
  <2>2. CASE booking[b].status # "CONFIRMED"
    <3>1. View' = View
      <4>1. booking' = [booking EXCEPT ![b] = [@ EXCEPT !.status = "CANCELLED"]]
        BY <1>5 DEF JobFails
      <4>2. [booking[b] EXCEPT !.status = "CANCELLED"].status # "CONFIRMED"
        BY DEF Server, RowsOK
      <4>3. QED
        BY <1>5, <2>2, <4>1, <4>2, SameView DEF JobFails, Server
    <3>2. UNCHANGED <<cache, late, poll>> /\ tail \subseteq tail'
      BY <1>5, <2>2 DEF JobFails, Then
    <3>3. QED
      BY <3>1, <3>2, SameCurrent
  <2>3. QED
    BY <2>1, <2>2
<1>6. ASSUME NEW s \in Slot, NEW m \in Sizes, CreateSlot(s, m) \/ ResizeSlot(s, m)
      PROVE  Current'
  BY <1>6, ThenFlushes DEF CreateSlot, ResizeSlot
<1>7. CASE DeleteSlot
  <2>1. CASE Deletable(deleting)
    BY <1>7, <2>1, ThenFlushes DEF DeleteSlot
  <2>2. CASE ~Deletable(deleting)
    BY <1>1, <1>7, <2>2 DEF DeleteSlot
  <2>3. QED
    BY <2>1, <2>2
<1>8. ASSUME NEW r \in Poll, PollRuns(r) \/ PollFails(r) PROVE Current'
  <2>1. View' = View /\ tail' = tail
    BY <1>8 DEF PollRuns, PollBegin, PollRows, PollStore, PollStock, PollShow, PollFails,
       server, View, Rows, Confirmed
  <2>2. poll = [x \in Poll |-> poll[x]] /\ PollOK(poll[r])
    BY DEF CacheOK
  <2>3. CASE PollBegin(r)
    BY <2>1, <2>2, <2>3 DEF PollBegin, PollTo, Current, PollOK
  <2>4. CASE PollRows(r)
    <3>1. Resting.at # "store"
      BY DEF Resting
    <3>2. CASE Rows = {}
      BY <2>1, <2>2, <2>4, <3>1, <3>2 DEF PollRows, Current
    <3>3. CASE Rows # {}
      <4>1. PollTo(r, "store", View)
        BY <2>4, <3>3 DEF PollRows, View
      <4>2. poll'[r].data = View /\ \A x \in Poll \ {r} : poll'[x] = poll[x]
        BY <2>2, <4>1 DEF PollTo, PollOK
      <4>3. QED
        BY <2>1, <2>4, <4>2 DEF PollRows, Current
    <3>4. QED
      BY <3>2, <3>3
  <2>5. CASE PollStore(r)
    <3>1. poll'[r].at # "store" /\ \A x \in Poll \ {r} : poll'[x] = poll[x]
      BY <2>2, <2>5 DEF PollStore, PollOK
    <3>2. QED
      BY <2>1, <2>5, <3>1 DEF PollStore, Current
  <2>6. CASE PollStock(r)
    <3>1. poll'[r].at # "store" /\ \A x \in Poll \ {r} : poll'[x] = poll[x]
      BY <2>2, <2>6 DEF PollStock, PollOK
    <3>2. QED
      BY <2>1, <2>6, <3>1 DEF PollStock, Current
  <2>7. CASE PollShow(r) \/ PollFails(r)
    <3>1. poll'[r].at # "store" /\ \A x \in Poll \ {r} : poll'[x] = poll[x]
      BY <2>2, <2>7 DEF PollShow, PollFails, Resting
    <3>2. QED
      BY <2>1, <2>7, <3>1 DEF PollShow, PollFails, Current
  <2>8. QED
    BY <1>8, <2>3, <2>4, <2>5, <2>6, <2>7 DEF PollRuns
<1>9. CASE Expire
  BY <1>9 DEF Expire, server, Current, View, Rows, Confirmed
<1>10. ASSUME NEW s \in Slot, OtherApplies(s) \/ DeleteRead(s) \/ Select(s) PROVE Current'
  BY <1>1, <1>10, ApplyCurrent DEF OtherApplies, DeleteRead, Select, server
<1>11. CASE PressReserves
  BY <1>11, ApplyCurrent DEF PressReserves
<1>12. CASE PressCancels
  BY <1>12, ThenFlushes DEF PressCancels, Cancel
<1>13. CASE EventRead \/ EventShow \/ EventFails \/ MineRead \/ MineShow \/ MineFails
            \/ Press \/ PressFails \/ PressAnswered \/ UNCHANGED vars
  BY <1>1, <1>13
  DEF EventRead, EventShow, EventFails, MineRead, MineShow, MineFails, Press, PressFails,
      PressAnswered, vars, server
<1>14. QED
  BY <1>2, <1>3, <1>4, <1>5, <1>6, <1>7, <1>8, <1>9, <1>10, <1>11, <1>12, <1>13
  DEF PageNext, PressRuns, JobRuns, OtherCancels
-----------------------------------------------------------------------------
\* The first state: one row for each slot of the opening, nothing asked yet.
LEMMA PageInitInv == PageInit => PageInv /\ Current
<1> SUFFICES ASSUME PageInit PROVE PageInv /\ Current
  OBVIOUS
<1>1. Capacity \in Sizes /\ Capacity \in Nat \ {0} /\ Attempts \in Nat \ {0}
  BY PageBounds
<1>2. RowsOK
  BY <1>1 DEF PageInit, RowsOK, Gone, Blank
<1>3. StockOK
  BY <1>1 DEF PageInit, StockOK, Stock
<1>4. WorkOK
  BY DEF PageInit, WorkOK
<1>5. Referenced
  BY DEF PageInit, Referenced, Blank
<1>6. PollOK(Resting) /\ Resting.at = "idle"
  BY DEF PollOK, Resting, MineAnswer
<1>7. CacheOK
  BY <1>6 DEF PageInit, CacheOK
<1>8. FetchOK /\ ScreenOK
  BY DEF PageInit, FetchOK, ScreenOK, MineAnswer, Still
<1>9. Current
  BY <1>6 DEF PageInit, Current
<1>10. QED
  BY <1>2, <1>3, <1>4, <1>5, <1>7, <1>8, <1>9 DEF PageInv

\* The inductive invariant: what the rows, the stock and the work under way
\* have to do with each other, and when the cache and a read of it are current.
THEOREM PageInvariant == PageSpec => [](PageInv /\ Current)
<1>1. PageInit => PageInv /\ Current
  BY PageInitInv
<1>2. PageInv /\ Current /\ [PageNext]_vars => (PageInv /\ Current)'
  BY ServerStep, ScreenStep, CacheStep, CurrentStep DEF PageInv, Server
<1>3. QED
  BY <1>1, <1>2, PTL DEF PageSpec

\* Every variable keeps its type, the page shows one reservation of the user
\* at most, and no poll answers a negative count, for any number of slots,
\* reservations and polls.
THEOREM PageTypeCorrect == PageSpec => []PageTypeOK
<1>1. PageInv => PageTypeOK
  <2> SUFFICES ASSUME PageInv PROVE PageTypeOK
    OBVIOUS
  <2>1. page.my \in MineAnswer
    BY DEF PageInv, ScreenOK
  <2>2. page.my \in SUBSET Booking /\ Cardinality(page.my) <= 1
    BY <2>1, MineAnswerSmall
  <2>3. \A r \in Poll : poll[r].at = "answered" =>
          \A s \in DOMAIN poll[r].data : poll[r].data[s].count \in Nat
    BY DEF PageInv, CacheOK, PollOK
  <2>4. press.what \in {"nothing", "reserve", "reserved", "cancel", "cancelled"}
    BY DEF PageInv, ScreenOK
  <2>5. QED
    BY <2>2, <2>3, <2>4 DEF PageInv, RowsOK, StockOK, CacheOK, ScreenOK, PageTypeOK
<1>2. QED
  BY <1>1, PageInvariant, PTL

\* A slot is deleted only when no reservation of any status refers to it, so
\* no live one loses its slot, however much time passes after the look at the
\* confirmed ones (event-slots.service.ts:269-289).
THEOREM BookingsKeepTheirSlotHolds == PageSpec => []BookingsKeepTheirSlot
<1>1. PageInv => BookingsKeepTheirSlot
  BY DEF PageInv, Referenced, BookingsKeepTheirSlot
<1>2. QED
  BY <1>1, PageInvariant, PTL

\* When every writer has flushed, the cached capacities and reservers are
\* those of the rows, for any number of readers that overlap the writers
\* (event-slots.service.ts:50-159).
THEOREM CacheMatchesRowsHolds == PageSpec => []CacheMatchesRows
<1>1. PageInv /\ Current => CacheMatchesRows
  <2> SUFFICES ASSUME PageInv, Current, cache # NoCache, ~late,
                      \A t \in tail : "flush" \notin ToSet(t.todo)
               PROVE  cache = View
    BY DEF CacheMatchesRows, View
  <2>1. ASSUME NEW t \in tail PROVE t.todo = <<"restock">>
    <3>1. t.todo \in Plans
      BY DEF PageInv, WorkOK, Leftover
    <3>2. /\ "flush" \in ToSet(<<"flush">>)
          /\ "flush" \in ToSet(<<"restock", "flush">>)
          /\ "flush" \in ToSet(<<"init", "flush">>)
      BY DEF ToSet
    <3>3. QED
      BY <3>1, <3>2 DEF Plans
  <2>2. QED
    BY <2>1 DEF Current
<1>2. QED
  BY <1>1, PageInvariant, PTL
=============================================================================
