---------------------------- MODULE Reservation ----------------------------
(***************************************************************************)
(* Seats of one event slot: the HTTP handlers that take and give back a    *)
(* seat (ReservationsService), the BullMQ worker that confirms it          *)
(* (ReservationsProcessor), and whoever overwrites the Redis counter       *)
(* (slot creation, StockSyncService at start-up, EventSlotsService.update).*)
(*                                                                         *)
(* PostgreSQL runs at READ COMMITTED: every SELECT of a transaction is a   *)
(* step of its own, and the writes of a transaction, which hold their row  *)
(* locks until the commit, are one step.  A Redis command is one step.     *)
(*                                                                         *)
(* A request that creates a row gives the row its own name, so r names the *)
(* POST request, its Reservation row and its BullMQ job.                   *)
(***************************************************************************)
EXTENDS SlotStock, FiniteSets

CONSTANTS
    Request,        \* POST /reservations calls for this slot
    KeyOf,          \* what a request may hold one of: its user, or its team
    Canceller,      \* DELETE /reservations/:id calls
    TargetOf,       \* the reservation each of them names
    CancelFrom,     \* the statuses under which a page offers to cancel
    Boot,           \* start-ups of a server container
    Update,         \* PATCH calls of an organizer on the slot
    Capacity,       \* maxCapacity of the slot as created
    NewCapacity,    \* capacities an organizer may ask for
    LargestCapacity,
    MaxAttempts,    \* attempts of a job (reservations.module.ts)
    MaxStalls,      \* stalls a job survives (BullMQ's maxStalledCount)
    Concurrency,    \* jobs in progress at once, over all containers
    Fault,          \* the kinds of failure that may happen...
    MaxFaults       \* ... and how many of them do (a bound of the model)

Status == {"NONE", "PENDING", "CONFIRMED", "CANCELLED"}   \* NONE: no row yet
FaultKind == {"create", "add", "database", "cache", "redis", "stall", "crash"}

ASSUME ReservationAssumption ==
    /\ IsFiniteSet(Request) /\ IsFiniteSet(Canceller)
    /\ TargetOf \in [Canceller -> Request]
    /\ CancelFrom \subseteq {"PENDING", "CONFIRMED"}
    /\ LargestCapacity \in Nat
    /\ Capacity \in 1..LargestCapacity
    /\ NewCapacity \subseteq 1..LargestCapacity
    /\ MaxAttempts \in Nat \ {0}
    /\ MaxStalls \in Nat
    /\ Concurrency \in Nat \ {0}
    /\ Fault \subseteq FaultKind
    /\ MaxFaults \in Nat
    /\ Boot \cap Update = {}

Creator == "create"     \* the call that made the slot, as a writer of the counter
ASSUME CreatorAssumption == Creator \notin Boot \cup Update
Setter == Boot \cup Update \cup {Creator}

VARIABLES
    maxCapacity, currentCount, version,     \* the EventSlot row
    stock,                                  \* Redis, slot:{id}:stock
    status,                                 \* status of each Reservation row
    apply,                                  \* where each POST handler stands
    capOf,                                  \* the maxCapacity it read, and puts in the job
    job,                                    \* where each job stands
    attempts, stalls,                       \* failed attempts and stalls of each job
    seenVersion, seenMax,                   \* the slot as the job's transaction read it
    cancel,                                 \* where each DELETE handler stands
    cancelVersion, cancelMax,               \* the slot as its transaction read it
    setter,                                 \* where each writer of the counter stands
    snapMax, snapCount,                     \* the slot as that writer knows it
    faults                                  \* failures so far

slotVars == <<maxCapacity, currentCount, version>>
applyVars == <<apply, capOf>>
jobVars == <<job, attempts, stalls, seenVersion, seenMax>>
cancelVars == <<cancel, cancelVersion, cancelMax>>
setterVars == <<setter, snapMax, snapCount>>
vars == <<slotVars, stock, status, applyVars, jobVars, cancelVars, setterVars, faults>>

ApplyPhase == {"idle", "read", "checked", "held", "created", "compensate",
               "done", "rejected", "failed", "crashed"}
JobPhase == {"none", "wait", "read", "checked", "confirmed", "failing", "undone",
             "completed", "failed"}
InProgress == {"read", "checked", "confirmed", "failing", "undone"}
CancelPhase == {"idle", "read", "ready", "committed", "done", "rejected", "crashed"}
SetterPhase == {"idle", "write", "set", "done", "rejected"}

Live == {"PENDING", "CONFIRMED"}

\* Another row of the same user or team counts against a request while it is live.
HasOther(r) == \E q \in Request \ {r} : KeyOf[q] = KeyOf[r] /\ status[q] \in Live

\* A failure of the given kind happens now.
Fails(kind) == kind \in Fault /\ faults < MaxFaults /\ faults' = faults + 1

Goto(pc, p, from, to) == pc[p] = from /\ pc' = [pc EXCEPT ![p] = to]

Init ==
    /\ maxCapacity = Capacity /\ currentCount = 0 /\ version = 0
    /\ stock = NoKey
    /\ status = [r \in Request |-> "NONE"]
    /\ apply = [r \in Request |-> "idle"]
    /\ capOf = [r \in Request |-> 0]
    /\ job = [r \in Request |-> "none"]
    /\ attempts = [r \in Request |-> 0]
    /\ stalls = [r \in Request |-> 0]
    /\ seenVersion = [r \in Request |-> 0]
    /\ seenMax = [r \in Request |-> 0]
    /\ cancel = [c \in Canceller |-> "idle"]
    /\ cancelVersion = [c \in Canceller |-> 0]
    /\ cancelMax = [c \in Canceller |-> 0]
    /\ setter = [p \in Setter |-> IF p = Creator THEN "set" ELSE "idle"]
    /\ snapMax = [p \in Setter |-> IF p = Creator THEN Capacity ELSE 0]
    /\ snapCount = [p \in Setter |-> 0]
    /\ faults = 0
-----------------------------------------------------------------------------
(***************************************************************************)
(* ReservationsService.apply                                               *)
(***************************************************************************)

\* Reads the slot, then checks period, organization, track and team.  None of
\* those checks depends on the state kept here, so either answer is possible.
ApplyRead(r) ==
    /\ \/ Goto(apply, r, "idle", "read") /\ capOf' = [capOf EXCEPT ![r] = maxCapacity]
       \/ Goto(apply, r, "idle", "rejected") /\ UNCHANGED capOf
    /\ UNCHANGED <<slotVars, stock, status, jobVars, cancelVars, setterVars, faults>>

ApplyCheckDuplicate(r) ==
    /\ Goto(apply, r, "read", IF HasOther(r) THEN "rejected" ELSE "checked")
    /\ UNCHANGED <<slotVars, stock, status, capOf, jobVars, cancelVars, setterVars, faults>>

ApplyDecrement(r) ==
    /\ \/ CanDecrement(stock) /\ stock' = Decremented(stock) /\ Goto(apply, r, "checked", "held")
       \/ ~CanDecrement(stock) /\ UNCHANGED stock /\ Goto(apply, r, "checked", "rejected")
    /\ UNCHANGED <<slotVars, status, capOf, jobVars, cancelVars, setterVars, faults>>

ApplyCreate(r) ==
    /\ Goto(apply, r, "held", "created")
    /\ status' = [status EXCEPT ![r] = "PENDING"]
    /\ UNCHANGED <<slotVars, stock, capOf, jobVars, cancelVars, setterVars, faults>>

ApplyEnqueue(r) ==
    /\ Goto(apply, r, "created", "done")
    /\ job' = [job EXCEPT ![r] = "wait"]
    /\ UNCHANGED <<slotVars, stock, status, capOf, attempts, stalls, seenVersion, seenMax,
                   cancelVars, setterVars, faults>>

\* The INSERT or the add() throws: the handler goes to its catch block.
ApplyFails(r) ==
    /\ \/ Fails("create") /\ Goto(apply, r, "held", "compensate")
       \/ Fails("add") /\ Goto(apply, r, "created", "compensate")
    /\ UNCHANGED <<slotVars, stock, status, capOf, jobVars, cancelVars, setterVars>>

\* The catch block gives the seat back to Redis; it leaves a PENDING row as it is.
ApplyCompensate(r) ==
    /\ Goto(apply, r, "compensate", "failed")
    /\ stock' = Incremented(stock, capOf[r])
    /\ UNCHANGED <<slotVars, status, capOf, jobVars, cancelVars, setterVars, faults>>

\* The process dies, or the increment of the catch block fails, with the seat taken.
ApplyCrash(r) ==
    /\ Fails("crash")
    /\ apply[r] \in {"held", "created", "compensate"}
    /\ apply' = [apply EXCEPT ![r] = "crashed"]
    /\ UNCHANGED <<slotVars, stock, status, capOf, jobVars, cancelVars, setterVars>>
-----------------------------------------------------------------------------
(***************************************************************************)
(* ReservationsProcessor.process                                           *)
(***************************************************************************)

\* A worker picks the job up and its transaction reads the slot.  A job whose
\* backoff is over may run before or after one that was never tried.
JobReadSlot(r) ==
    /\ Cardinality({q \in Request : job[q] \in InProgress}) < Concurrency
    /\ Goto(job, r, "wait", "read")
    /\ seenVersion' = [seenVersion EXCEPT ![r] = version]
    /\ seenMax' = [seenMax EXCEPT ![r] = maxCapacity]
    /\ UNCHANGED <<slotVars, stock, status, applyVars, attempts, stalls, cancelVars,
                   setterVars, faults>>

\* Variant: the transaction trusts the check apply() made.
JobCheckDuplicateSkipped(r) ==
    /\ Goto(job, r, "read", "checked")
    /\ UNCHANGED <<slotVars, stock, status, applyVars, attempts, stalls, seenVersion, seenMax,
                   cancelVars, setterVars, faults>>

JobCheckDuplicate(r) ==
    /\ Goto(job, r, "read", IF HasOther(r) THEN "failing" ELSE "checked")
    /\ UNCHANGED <<slotVars, stock, status, applyVars, attempts, stalls, seenVersion, seenMax,
                   cancelVars, setterVars, faults>>

\* Variants: the version is left out of the CAS; `lte` for `lt`.
AvailableUnversioned(r) == currentCount < seenMax[r]
AvailableOffByOne(r) == version = seenVersion[r] /\ currentCount <= seenMax[r]

\* The updateMany() of the transaction finds the row it read, with a seat left.
Available(r) == version = seenVersion[r] /\ currentCount < seenMax[r]

\* Variant: the count of updated rows is not looked at.
JobCommitUnchecked(r) ==
    /\ Goto(job, r, "checked", "confirmed")
    /\ currentCount' = IF Available(r) THEN currentCount + 1 ELSE currentCount
    /\ version' = IF Available(r) THEN version + 1 ELSE version
    /\ status' = [status EXCEPT ![r] = "CONFIRMED"]
    /\ UNCHANGED <<maxCapacity, stock, applyVars, attempts, stalls, seenVersion, seenMax,
                   cancelVars, setterVars, faults>>

\* Takes the seat and confirms the row, whatever the row's own status is by now;
\* or rolls back, for a full slot as for a version conflict.
JobCommit(r) ==
    /\ \/ /\ Available(r)
          /\ Goto(job, r, "checked", "confirmed")
          /\ currentCount' = currentCount + 1 /\ version' = version + 1
          /\ status' = [status EXCEPT ![r] = "CONFIRMED"]
       \/ /\ ~Available(r)
          /\ Goto(job, r, "checked", "failing")
          /\ UNCHANGED <<currentCount, version, status>>
    /\ UNCHANGED <<maxCapacity, stock, applyVars, attempts, stalls, seenVersion, seenMax,
                   cancelVars, setterVars, faults>>

\* The cache of the event's reservers is dropped and the job is done.
JobComplete(r) ==
    /\ Goto(job, r, "confirmed", "completed")
    /\ UNCHANGED <<slotVars, stock, status, applyVars, attempts, stalls, seenVersion, seenMax,
                   cancelVars, setterVars, faults>>

\* The transaction fails for a reason of the database's, or the invalidation of
\* the cache fails after the commit: both land in the same catch block.
JobFails(r) ==
    /\ \/ /\ Fails("database")
          /\ job[r] \in {"read", "checked"}
          /\ job' = [job EXCEPT ![r] = "failing"]
       \/ Fails("cache") /\ Goto(job, r, "confirmed", "failing")
    /\ UNCHANGED <<slotVars, stock, status, applyVars, attempts, stalls, seenVersion, seenMax,
                   cancelVars, setterVars>>

JobCancel(r) ==
    /\ Goto(job, r, "failing", "undone")
    /\ status' = [status EXCEPT ![r] = "CANCELLED"]
    /\ UNCHANGED <<slotVars, stock, applyVars, attempts, stalls, seenVersion, seenMax,
                   cancelVars, setterVars, faults>>

\* Variant: the failed attempt is not counted.
RetryUncounted(r, from) == Goto(job, r, from, "wait") /\ UNCHANGED attempts

\* process() throws: BullMQ tries the job again until its attempts are spent.
Retry(r, from) ==
    /\ Goto(job, r, from, IF attempts[r] + 1 < MaxAttempts THEN "wait" ELSE "failed")
    /\ attempts' = [attempts EXCEPT ![r] = @ + 1]

JobRestore(r) ==
    /\ Retry(r, "undone")
    /\ stock' = Incremented(stock, capOf[r])
    /\ UNCHANGED <<slotVars, status, applyVars, stalls, seenVersion, seenMax, cancelVars,
                   setterVars, faults>>

\* The catch block itself throws, at the UPDATE or at the Lua script.
JobRecoveryFails(r) ==
    /\ \/ Fails("database") /\ Retry(r, "failing")
       \/ Fails("redis") /\ Retry(r, "undone")
    /\ UNCHANGED <<slotVars, stock, status, applyVars, stalls, seenVersion, seenMax,
                   cancelVars, setterVars>>

\* The worker dies: BullMQ finds the lock expired and hands the job out again,
\* or fails it without running process() once it stalled too often.
JobStalls(r) ==
    /\ Fails("stall")
    /\ job[r] \in InProgress
    /\ job' = [job EXCEPT ![r] = IF stalls[r] < MaxStalls THEN "wait" ELSE "failed"]
    /\ stalls' = [stalls EXCEPT ![r] = @ + 1]
    /\ UNCHANGED <<slotVars, stock, status, applyVars, attempts, seenVersion, seenMax,
                   cancelVars, setterVars>>
-----------------------------------------------------------------------------
(***************************************************************************)
(* ReservationsService.cancel                                              *)
(***************************************************************************)

\* The user asks while the page shows a status to cancel from; the SELECT of the
\* row may find it cancelled already.
CancelReadReservation(c) ==
    /\ status[TargetOf[c]] \in CancelFrom \cup {"CANCELLED"}
    /\ Goto(cancel, c, "idle",
            IF status[TargetOf[c]] = "CANCELLED" THEN "rejected" ELSE "read")
    /\ UNCHANGED <<slotVars, stock, status, applyVars, jobVars, cancelVersion, cancelMax,
                   setterVars, faults>>

\* Variant: the version is kept where the capacity belongs.
CancelReadSlotMixed(c) ==
    /\ Goto(cancel, c, "read", "ready")
    /\ cancelVersion' = [cancelVersion EXCEPT ![c] = version]
    /\ cancelMax' = [cancelMax EXCEPT ![c] = version]
    /\ UNCHANGED <<slotVars, stock, status, applyVars, jobVars, setterVars, faults>>

\* `include: { slot: true }` is a second SELECT, on the slot.
CancelReadSlot(c) ==
    /\ Goto(cancel, c, "read", "ready")
    /\ cancelVersion' = [cancelVersion EXCEPT ![c] = version]
    /\ cancelMax' = [cancelMax EXCEPT ![c] = maxCapacity]
    /\ UNCHANGED <<slotVars, stock, status, applyVars, jobVars, setterVars, faults>>

\* Variant: the row is cancelled although the slot was not updated.
CancelCommitUnchecked(c) ==
    /\ Goto(cancel, c, "ready", "committed")
    /\ currentCount' = IF version = cancelVersion[c] THEN currentCount - 1 ELSE currentCount
    /\ version' = IF version = cancelVersion[c] THEN version + 1 ELSE version
    /\ status' = [status EXCEPT ![TargetOf[c]] = "CANCELLED"]
    /\ UNCHANGED <<maxCapacity, stock, applyVars, jobVars, cancelVersion, cancelMax,
                   setterVars, faults>>

CancelCommit(c) ==
    /\ \/ /\ version = cancelVersion[c]
          /\ Goto(cancel, c, "ready", "committed")
          /\ currentCount' = currentCount - 1 /\ version' = version + 1
          /\ status' = [status EXCEPT ![TargetOf[c]] = "CANCELLED"]
       \/ /\ version # cancelVersion[c]
          /\ Goto(cancel, c, "ready", "rejected")
          /\ UNCHANGED <<currentCount, version, status>>
    /\ UNCHANGED <<maxCapacity, stock, applyVars, jobVars, cancelVersion, cancelMax,
                   setterVars, faults>>

CancelRestore(c) ==
    /\ Goto(cancel, c, "committed", "done")
    /\ stock' = Incremented(stock, cancelMax[c])
    /\ UNCHANGED <<slotVars, status, applyVars, jobVars, cancelVersion, cancelMax,
                   setterVars, faults>>

CancelCrash(c) ==
    /\ Fails("crash")
    /\ Goto(cancel, c, "committed", "crashed")
    /\ UNCHANGED <<slotVars, stock, status, applyVars, jobVars, cancelVersion, cancelMax,
                   setterVars>>
-----------------------------------------------------------------------------
(***************************************************************************)
(* Writers of the counter                                                  *)
(***************************************************************************)

\* StockSyncService.onModuleInit reads every slot before it writes any counter.
SyncRead(b) ==
    /\ Goto(setter, b, "idle", "set")
    /\ snapMax' = [snapMax EXCEPT ![b] = maxCapacity]
    /\ snapCount' = [snapCount EXCEPT ![b] = currentCount]
    /\ UNCHANGED <<slotVars, stock, status, applyVars, jobVars, cancelVars, faults>>

\* EventSlotsService.update refuses a capacity below the count it reads...
UpdateCheck(u) ==
    /\ \E m \in NewCapacity :
          /\ Goto(setter, u, "idle", IF m < currentCount THEN "rejected" ELSE "write")
          /\ snapMax' = [snapMax EXCEPT ![u] = m]
    /\ UNCHANGED <<slotVars, stock, status, applyVars, jobVars, cancelVars, snapCount, faults>>

\* ... and then writes the capacity without looking at the count or version again.
UpdateWrite(u) ==
    /\ Goto(setter, u, "write", "set")
    /\ maxCapacity' = snapMax[u]
    /\ snapCount' = [snapCount EXCEPT ![u] = currentCount]
    /\ UNCHANGED <<currentCount, version, stock, status, applyVars, jobVars, cancelVars,
                   snapMax, faults>>

\* RedisService.initStock, for slot creation, start-up and update alike.
InitStock(p) ==
    /\ Goto(setter, p, "set", "done")
    /\ stock' = Initialised(snapMax[p], snapCount[p])
    /\ UNCHANGED <<slotVars, status, applyVars, jobVars, cancelVars, snapMax, snapCount, faults>>
-----------------------------------------------------------------------------
ApplyStep(r) ==
    \/ ApplyRead(r) \/ ApplyCheckDuplicate(r) \/ ApplyDecrement(r) \/ ApplyCreate(r)
    \/ ApplyEnqueue(r) \/ ApplyCompensate(r)

JobStep(r) ==
    \/ JobReadSlot(r) \/ JobCheckDuplicate(r) \/ JobCommit(r) \/ JobComplete(r)
    \/ JobCancel(r) \/ JobRestore(r)

CancelStep(c) ==
    CancelReadReservation(c) \/ CancelReadSlot(c) \/ CancelCommit(c) \/ CancelRestore(c)

Failure ==
    \/ \E r \in Request : ApplyFails(r) \/ ApplyCrash(r) \/ JobFails(r)
                             \/ JobRecoveryFails(r) \/ JobStalls(r)
    \/ \E c \in Canceller : CancelCrash(c)

Next ==
    \/ \E r \in Request : ApplyStep(r) \/ JobStep(r)
    \/ \E c \in Canceller : CancelStep(c)
    \/ \E b \in Boot : SyncRead(b)
    \/ \E u \in Update : UpdateCheck(u) \/ UpdateWrite(u)
    \/ \E p \in Setter : InitStock(p)
    \/ Failure

Spec == Init /\ [][Next]_vars

\* A user may never ask; a server that took a request carries on with it, and the
\* worker keeps taking jobs.
Fairness ==
    /\ \A r \in Request : WF_vars(apply[r] # "idle" /\ ApplyStep(r)) /\ WF_vars(JobStep(r))
    /\ \A c \in Canceller : WF_vars(cancel[c] # "idle" /\ CancelStep(c))
    /\ \A p \in Setter : WF_vars(InitStock(p))

FairSpec == Spec /\ Fairness
-----------------------------------------------------------------------------
(***************************************************************************)
(* Properties                                                              *)
(***************************************************************************)

\* Every variable holds a value of its kind.  currentCount may be negative: the
\* code has no lower bound on it.
TypeOK ==
    /\ maxCapacity \in 0..LargestCapacity /\ currentCount \in Int /\ version \in Nat
    /\ stock \in Stock
    /\ status \in [Request -> Status]
    /\ apply \in [Request -> ApplyPhase] /\ capOf \in [Request -> 0..LargestCapacity]
    /\ job \in [Request -> JobPhase]
    /\ attempts \in [Request -> Nat] /\ stalls \in [Request -> Nat]
    /\ seenVersion \in [Request -> Nat] /\ seenMax \in [Request -> 0..LargestCapacity]
    /\ cancel \in [Canceller -> CancelPhase]
    /\ cancelVersion \in [Canceller -> Nat] /\ cancelMax \in [Canceller -> 0..LargestCapacity]
    /\ setter \in [Setter -> SetterPhase]
    /\ snapMax \in [Setter -> 0..LargestCapacity] /\ snapCount \in [Setter -> Int]
    /\ faults \in 0..MaxFaults

Booked == {r \in Request : status[r] = "CONFIRMED"}

\* Two confirmed reservations of a slot never belong to the same user or team:
\* the duplicate check is a SELECT, and only the version read before it protects
\* it (reservations.processor.ts:108-151).
NoDoubleBooking ==
    \A q, r \in Request : q # r /\ KeyOf[q] = KeyOf[r] => ~ {q, r} \subseteq Booked

\* The count of the row never passes the largest capacity the slot ever had: the
\* bound of the CAS is the capacity read with the version.
CountWithinLargest == currentCount <= LargestCapacity

\* The slot never has more confirmed reservations than its capacity, whatever
\* the worker, its retries and the Redis counter do.
NoOverbooking == Cardinality(Booked) <= maxCapacity

\* The count of the row is the number of confirmed reservations: what the
\* organizer and the stock synchronisation read is true.
CountMatchesBooked == currentCount = Cardinality(Booked)

\* The count may be too high after a failure (a seat is wasted) but never too
\* low (a seat is sold twice).
NeverUndercounted == currentCount >= Cardinality(Booked)

\* Every regime, cancellations of PENDING rows and double cancellations included:
\* the count falls below the confirmed reservations by one per cancellation at most.
CommittedCancels == {c \in Canceller : cancel[c] \in {"committed", "done", "crashed"}}
UndercountBounded == Cardinality(Booked) <= currentCount + Cardinality(CommittedCancels)

\* Seats taken from Redis that no row's count and no restored unit stands for yet.
Held == {r \in Request : \/ apply[r] \in {"held", "created", "compensate"}
                         \/ /\ job[r] \in {"wait", "read", "checked", "failing", "undone"}
                            /\ attempts[r] = 0}
Returning == {c \in Canceller : cancel[c] = "committed"}

\* No seat disappears from Redis: each one is on offer, booked, held by a request
\* in flight or on its way back.
NoSeatLost ==
    stock # NoKey =>
        stock + currentCount + Cardinality(Held) + Cardinality(Returning) >= maxCapacity

\* The counter stays between nothing and the largest capacity: it is not driven
\* negative and no compensation pushes it past the clamp.
StockWithinCapacity == stock # NoKey => stock \in 0..LargestCapacity

\* Every regime.  The worker confirms a row by its id whatever its status is
\* (reservations.processor.ts:171-174), so a cancelled reservation may be confirmed
\* after all, but only in a transaction that read the slot after the cancellation:
\* one that was under way by then loses, for the version moved on.
CancellationStands ==
    \A c \in CommittedCancels :
        \/ status[TargetOf[c]] = "CANCELLED"
        \/ seenVersion[TargetOf[c]] > cancelVersion[c]

\* Every regime.  A confirmed reservation is taken away by a cancellation of its
\* owner or, once something has failed, by the catch block of its own job, which
\* cancels without looking (reservations.processor.ts:69-80); no other step does.
OnlyOwnerRevokes ==
    [][\A r \in Booked : status'[r] # "CONFIRMED" =>
          \/ \E c \in Canceller : TargetOf[c] = r /\ cancel[c] = "ready" /\ cancel'[c] = "committed"
          \/ faults > 0 /\ job[r] = "failing" /\ status'[r] = "CANCELLED"]_vars

\* Every seat taken from Redis is settled: its job ends, confirmed or given up.
HeldIsSettled == \A r \in Request : apply[r] = "held" ~> job[r] \in {"completed", "failed"}

\* The rows of a slot behave as a ledger of its seats.
Ledger == INSTANCE SeatLedger WITH booked <- Booked, Seats <- Capacity
ImplementsLedger == Ledger!Spec

\* When nothing is in flight, the counter is the number of free seats.
AtRest ==
    /\ \A r \in Request : apply[r] \notin {"held", "created", "compensate"}
                             /\ job[r] \in {"none", "completed", "failed"}
    /\ \A c \in Canceller : cancel[c] # "committed"
    /\ \A p \in Setter : setter[p] # "set"
StockIsFreeSeatsAtRest == AtRest => stock = maxCapacity - currentCount
=============================================================================
