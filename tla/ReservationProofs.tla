------------------------- MODULE ReservationProofs -------------------------
(***************************************************************************)
(* Theorems about Reservation, for any number of requests, cancellations,  *)
(* restarts, capacity changes and failures.                                *)
(***************************************************************************)
EXTENDS Reservation, FiniteSetTheorems, TLAPS

(***************************************************************************)
(* Types                                                                   *)
(***************************************************************************)

\* A counter that is a number or absent stays so under the increment script.
LEMMA IncrementedType ==
    ASSUME NEW s \in Stock, NEW max \in Nat
    PROVE  Incremented(s, max) \in Stock
BY NoKeyAssumption DEF Stock, Incremented

\* A POST handler's step keeps every variable in its type.
LEMMA ApplyType ==
    ASSUME TypeOK, NEW r \in Request, ApplyStep(r)
    PROVE  TypeOK'
<1> USE DEF TypeOK, ApplyPhase, Goto, slotVars, jobVars, cancelVars, setterVars
<1>1. CASE ApplyRead(r)
  BY <1>1 DEF ApplyRead
<1>2. CASE ApplyCheckDuplicate(r)
  BY <1>2 DEF ApplyCheckDuplicate
<1>3. CASE ApplyDecrement(r)
  BY <1>3, NoKeyAssumption DEF ApplyDecrement, CanDecrement, Decremented, Stock
<1>4. CASE ApplyCreate(r)
  BY <1>4 DEF ApplyCreate, Status
<1>5. CASE ApplyEnqueue(r)
  BY <1>5 DEF ApplyEnqueue, JobPhase
<1>6. CASE ApplyCompensate(r)
  <2>1. stock' \in Stock
    BY <1>6, IncrementedType DEF ApplyCompensate
  <2> QED
    BY <1>6, <2>1 DEF ApplyCompensate
<1> QED
  BY <1>1, <1>2, <1>3, <1>4, <1>5, <1>6 DEF ApplyStep

\* A worker's step does too.
LEMMA JobType ==
    ASSUME TypeOK, NEW r \in Request, JobStep(r)
    PROVE  TypeOK'
<1> USE DEF TypeOK, JobPhase, Goto, slotVars, applyVars, cancelVars, setterVars
<1>1. CASE JobReadSlot(r)
  BY <1>1 DEF JobReadSlot
<1>2. CASE JobCheckDuplicate(r)
  BY <1>2 DEF JobCheckDuplicate
<1>3. CASE JobCommit(r)
  BY <1>3 DEF JobCommit, Status
<1>4. CASE JobComplete(r)
  BY <1>4 DEF JobComplete
<1>5. CASE JobCancel(r)
  BY <1>5 DEF JobCancel, Status
<1>6. CASE JobRestore(r)
  <2>1. stock' \in Stock
    BY <1>6, IncrementedType DEF JobRestore
  <2> QED
    BY <1>6, <2>1 DEF JobRestore, Retry
<1> QED
  BY <1>1, <1>2, <1>3, <1>4, <1>5, <1>6 DEF JobStep

\* So does a DELETE handler's.
LEMMA CancelType ==
    ASSUME TypeOK, NEW c \in Canceller, CancelStep(c)
    PROVE  TypeOK'
<1> USE DEF TypeOK, CancelPhase, Goto, slotVars, applyVars, jobVars, setterVars
<1>1. CASE CancelReadReservation(c)
  BY <1>1 DEF CancelReadReservation
<1>2. CASE CancelReadSlot(c)
  BY <1>2 DEF CancelReadSlot
<1>3. CASE CancelCommit(c)
  BY <1>3, ReservationAssumption DEF CancelCommit, Status
<1>4. CASE CancelRestore(c)
  <2>1. stock' \in Stock
    BY <1>4, IncrementedType DEF CancelRestore
  <2> QED
    BY <1>4, <2>1 DEF CancelRestore
<1> QED
  BY <1>1, <1>2, <1>3, <1>4 DEF CancelStep

\* So do the writers of the counter.
LEMMA SetterType ==
    ASSUME TypeOK,
           \/ \E b \in Boot : SyncRead(b)
           \/ \E u \in Update : UpdateCheck(u) \/ UpdateWrite(u)
           \/ \E p \in Setter : InitStock(p)
    PROVE  TypeOK'
<1> USE DEF TypeOK, SetterPhase, Goto, slotVars, applyVars, jobVars, cancelVars
<1>1. ASSUME NEW b \in Boot, SyncRead(b) PROVE TypeOK'
  BY <1>1 DEF SyncRead, Setter
<1>2. ASSUME NEW u \in Update, UpdateCheck(u) PROVE TypeOK'
  BY <1>2, ReservationAssumption DEF UpdateCheck, Setter
<1>3. ASSUME NEW u \in Update, UpdateWrite(u) PROVE TypeOK'
  BY <1>3 DEF UpdateWrite, Setter
<1>4. ASSUME NEW p \in Setter, InitStock(p) PROVE TypeOK'
  BY <1>4 DEF InitStock, Initialised, Stock
<1> QED
  BY <1>1, <1>2, <1>3, <1>4

\* So does every failure.
LEMMA FailureType ==
    ASSUME TypeOK, Failure
    PROVE  TypeOK'
<1> USE ReservationAssumption
    DEF TypeOK, Goto, Fails, slotVars, applyVars, jobVars, cancelVars, setterVars
<1>1. ASSUME NEW r \in Request, ApplyFails(r) PROVE TypeOK'
  BY <1>1 DEF ApplyFails, ApplyPhase
<1>2. ASSUME NEW r \in Request, ApplyCrash(r) PROVE TypeOK'
  BY <1>2 DEF ApplyCrash, ApplyPhase
<1>3. ASSUME NEW r \in Request, JobFails(r) PROVE TypeOK'
  BY <1>3 DEF JobFails, JobPhase
<1>4. ASSUME NEW r \in Request, JobRecoveryFails(r) PROVE TypeOK'
  BY <1>4 DEF JobRecoveryFails, Retry, JobPhase
<1>5. ASSUME NEW r \in Request, JobStalls(r) PROVE TypeOK'
  BY <1>5 DEF JobStalls, JobPhase
<1>6. ASSUME NEW c \in Canceller, CancelCrash(c) PROVE TypeOK'
  BY <1>6 DEF CancelCrash, CancelPhase
<1> QED
  BY <1>1, <1>2, <1>3, <1>4, <1>5, <1>6 DEF Failure

\* Every reachable state is typed, in every regime.
THEOREM TypeCorrect == Spec => []TypeOK
<1>1. Init => TypeOK
  BY ReservationAssumption
  DEF Init, TypeOK, Stock, Status, ApplyPhase, JobPhase, CancelPhase, SetterPhase
<1>2. TypeOK /\ [Next]_vars => TypeOK'
  <2> SUFFICES ASSUME TypeOK, [Next]_vars PROVE TypeOK'
    OBVIOUS
  <2>1. CASE UNCHANGED vars
    BY <2>1 DEF TypeOK, vars, slotVars, applyVars, jobVars, cancelVars, setterVars
  <2>2. CASE Next
    BY <2>2, ApplyType, JobType, CancelType, SetterType, FailureType DEF Next
  <2> QED
    BY <2>1, <2>2
<1> QED
  BY <1>1, <1>2, PTL DEF Spec

(***************************************************************************)
(* What a step may do to the seats                                         *)
(***************************************************************************)

\* A step that takes no seat and gives none back: no row becomes confirmed, the
\* count and the version stay, and no job passes its duplicate check.
Quiet ==
    /\ Booked' \subseteq Booked
    /\ UNCHANGED <<currentCount, version, CommittedCancels>>
    /\ \A r \in Request :
          /\ seenVersion'[r] \in {seenVersion[r], version}
          /\ job'[r] = "checked" => job[r] = "checked" /\ seenVersion'[r] = seenVersion[r]

\* Every step is quiet but three: the duplicate check of a job, its commit, and
\* the commit of a cancellation.
LEMMA StepKinds ==
    ASSUME TypeOK, [Next]_vars
    PROVE  \/ Quiet
           \/ \E r \in Request : JobCheckDuplicate(r) \/ JobCommit(r)
           \/ \E c \in Canceller : CancelCommit(c)
<1> USE DEF TypeOK, Quiet, Booked, CommittedCancels, Goto,
            slotVars, applyVars, jobVars, cancelVars, setterVars
<1>1. CASE UNCHANGED vars
  BY <1>1 DEF vars
<1>2. ASSUME NEW r \in Request, ApplyStep(r) PROVE Quiet
  BY <1>2 DEF ApplyStep, ApplyRead, ApplyCheckDuplicate, ApplyDecrement, ApplyCreate,
              ApplyEnqueue, ApplyCompensate
<1>3. ASSUME NEW r \in Request,
             JobReadSlot(r) \/ JobComplete(r) \/ JobCancel(r) \/ JobRestore(r)
      PROVE  Quiet
  BY <1>3 DEF JobReadSlot, JobComplete, JobCancel, JobRestore, Retry
<1>4. ASSUME NEW c \in Canceller,
             CancelReadReservation(c) \/ CancelReadSlot(c) \/ CancelRestore(c)
      PROVE  Quiet
  BY <1>4 DEF CancelReadReservation, CancelReadSlot, CancelRestore
<1>5. ASSUME \/ \E b \in Boot : SyncRead(b)
             \/ \E u \in Update : UpdateCheck(u) \/ UpdateWrite(u)
             \/ \E p \in Setter : InitStock(p)
      PROVE  Quiet
  BY <1>5 DEF SyncRead, UpdateCheck, UpdateWrite, InitStock
<1>6. ASSUME NEW r \in Request,
             \/ ApplyFails(r) \/ ApplyCrash(r) \/ JobFails(r)
             \/ JobRecoveryFails(r) \/ JobStalls(r)
      PROVE  Quiet
  BY <1>6 DEF ApplyFails, ApplyCrash, JobFails, JobRecoveryFails, JobStalls, Retry, InProgress
<1>7. ASSUME NEW c \in Canceller, CancelCrash(c) PROVE Quiet
  BY <1>7 DEF CancelCrash
<1> QED
  BY <1>1, <1>2, <1>3, <1>4, <1>5, <1>6, <1>7 DEF Next, JobStep, CancelStep, Failure

(***************************************************************************)
(* No double booking                                                       *)
(***************************************************************************)

\* A job that passed its duplicate check, and whose version is still the slot's,
\* knows that no other reservation of its user or team is confirmed: whoever
\* confirmed one since would have moved the version on.
DoubleBookingInv ==
    /\ NoDoubleBooking
    /\ \A r \in Request : seenVersion[r] <= version
    /\ \A r \in Request : job[r] = "checked" /\ seenVersion[r] = version =>
          \A q \in Request \ {r} : KeyOf[q] = KeyOf[r] => q \notin Booked

LEMMA DoubleBookingInvHolds == Spec => []DoubleBookingInv
<1>1. Init => DoubleBookingInv
  BY DEF Init, DoubleBookingInv, NoDoubleBooking, Booked
<1>2. TypeOK /\ DoubleBookingInv /\ [Next]_vars => DoubleBookingInv'
  <2> SUFFICES ASSUME TypeOK, DoubleBookingInv, [Next]_vars PROVE DoubleBookingInv'
    OBVIOUS
  <2> USE DEF TypeOK, DoubleBookingInv, NoDoubleBooking, Goto
  <2>1. CASE Quiet
    BY <2>1 DEF Quiet
  <2>2. ASSUME NEW r \in Request, JobCheckDuplicate(r) PROVE DoubleBookingInv'
    BY <2>2 DEF JobCheckDuplicate, HasOther, Live, Booked, slotVars
  <2>3. ASSUME NEW r \in Request, JobCommit(r) PROVE DoubleBookingInv'
    <3>1. CASE Available(r)
      <4>1. Booked' = Booked \cup {r} /\ version' = version + 1
        BY <2>3, <3>1 DEF JobCommit, Booked
      <4>2. NoDoubleBooking'
        BY <2>3, <3>1, <4>1 DEF JobCommit, Available
      <4> QED
        BY <2>3, <3>1, <4>1, <4>2 DEF JobCommit
    <3>2. CASE ~Available(r)
      BY <2>3, <3>2 DEF JobCommit, Booked
    <3> QED
      BY <3>1, <3>2
  <2>4. ASSUME NEW c \in Canceller, CancelCommit(c) PROVE DoubleBookingInv'
    BY <2>4, ReservationAssumption DEF CancelCommit, Booked, jobVars
  <2> QED
    BY <2>1, <2>2, <2>3, <2>4, StepKinds
<1> QED
  BY <1>1, <1>2, TypeCorrect, PTL DEF Spec

\* The duplicate check of the worker is enough, whatever the order of the jobs,
\* their retries, stalls and failures, and whatever is cancelled when.
THEOREM NoDoubleBookingHolds == Spec => []NoDoubleBooking
BY DoubleBookingInvHolds, PTL DEF DoubleBookingInv

(***************************************************************************)
(* The count                                                               *)
(***************************************************************************)

\* No order of confirmations, updates and cancellations takes the count past the
\* largest capacity.
THEOREM CountWithinLargestHolds == Spec => []CountWithinLargest
<1> USE DEF CountWithinLargest
<1>1. Init => CountWithinLargest
  BY ReservationAssumption DEF Init
<1>2. TypeOK /\ CountWithinLargest /\ [Next]_vars => CountWithinLargest'
  <2> SUFFICES ASSUME TypeOK, CountWithinLargest, [Next]_vars PROVE CountWithinLargest'
    OBVIOUS
  <2> USE ReservationAssumption DEF TypeOK
  <2>1. CASE Quiet
    BY <2>1 DEF Quiet
  <2>2. ASSUME NEW r \in Request, JobCheckDuplicate(r) PROVE CountWithinLargest'
    BY <2>2 DEF JobCheckDuplicate, slotVars
  <2>3. ASSUME NEW r \in Request, JobCommit(r) PROVE CountWithinLargest'
    BY <2>3 DEF JobCommit, Available
  <2>4. ASSUME NEW c \in Canceller, CancelCommit(c) PROVE CountWithinLargest'
    BY <2>4 DEF CancelCommit
  <2> QED
    BY <2>1, <2>2, <2>3, <2>4, StepKinds
<1> QED
  BY <1>1, <1>2, TypeCorrect, PTL DEF Spec

\* Booked rows and committed cancellations are finitely many, so they can be counted.
LEMMA CountableSets ==
    /\ IsFiniteSet(Booked) /\ Cardinality(Booked) \in Nat
    /\ IsFiniteSet(CommittedCancels) /\ Cardinality(CommittedCancels) \in Nat
<1>1. Booked \subseteq Request /\ CommittedCancels \subseteq Canceller
  BY DEF Booked, CommittedCancels
<1> QED
  BY <1>1, FS_Subset, FS_CardinalityType, ReservationAssumption

\* Even when PENDING rows are cancelled, a row is cancelled twice, capacities
\* change and workers fail, the count is short of the confirmed reservations by at
\* most one per cancellation: every confirmation counts itself.
THEOREM UndercountBoundedHolds == Spec => []UndercountBounded
<1> USE DEF UndercountBounded
<1>1. Init => UndercountBounded
  <2> SUFFICES ASSUME Init PROVE UndercountBounded
    OBVIOUS
  <2>1. Booked = {} /\ CommittedCancels = {} /\ currentCount = 0
    BY DEF Init, Booked, CommittedCancels
  <2> QED
    BY <2>1, FS_EmptySet
<1>2. TypeOK /\ UndercountBounded /\ [Next]_vars => UndercountBounded'
  <2> SUFFICES ASSUME TypeOK, UndercountBounded, [Next]_vars PROVE UndercountBounded'
    OBVIOUS
  <2>0. currentCount \in Int
    BY DEF TypeOK
  <2>1. CASE Quiet
    <3>1. Cardinality(Booked') <= Cardinality(Booked) /\ Cardinality(Booked') \in Nat
      BY <2>1, CountableSets, FS_Subset, FS_CardinalityType DEF Quiet
    <3>2. currentCount' = currentCount /\ CommittedCancels' = CommittedCancels
      BY <2>1 DEF Quiet
    <3> QED
      BY <2>0, <3>1, <3>2, CountableSets
  <2>2. ASSUME NEW r \in Request, JobCheckDuplicate(r) PROVE UndercountBounded'
    BY <2>2 DEF JobCheckDuplicate, Booked, CommittedCancels, slotVars, cancelVars
  <2>3. ASSUME NEW r \in Request, JobCommit(r) PROVE UndercountBounded'
    <3>1. CASE Available(r)
      <4>1. /\ Booked' = Booked \cup {r} /\ currentCount' = currentCount + 1
            /\ CommittedCancels' = CommittedCancels
        BY <2>3, <3>1 DEF JobCommit, TypeOK, Booked, CommittedCancels, cancelVars
      <4>2. Cardinality(Booked \cup {r}) \in {Cardinality(Booked), Cardinality(Booked) + 1}
        BY CountableSets, FS_AddElement
      <4> QED
        BY <2>0, <4>1, <4>2, CountableSets
    <3>2. CASE ~Available(r)
      BY <2>3, <3>2 DEF JobCommit, Booked, CommittedCancels, cancelVars
    <3> QED
      BY <3>1, <3>2
  <2>4. ASSUME NEW c \in Canceller, CancelCommit(c) PROVE UndercountBounded'
    <3>1. CASE version = cancelVersion[c]
      <4>1. /\ Booked' = Booked \ {TargetOf[c]} /\ currentCount' = currentCount - 1
            /\ CommittedCancels' = CommittedCancels \cup {c} /\ c \notin CommittedCancels
        BY <2>4, <3>1, ReservationAssumption
        DEF CancelCommit, Goto, TypeOK, Booked, CommittedCancels
      <4>2. Cardinality(Booked \ {TargetOf[c]}) \in {Cardinality(Booked), Cardinality(Booked) - 1}
        BY CountableSets, FS_RemoveElement
      <4>3. Cardinality(CommittedCancels \cup {c}) = Cardinality(CommittedCancels) + 1
        BY <4>1, CountableSets, FS_AddElement
      <4> QED
        BY <2>0, <4>1, <4>2, <4>3, CountableSets
    <3>2. CASE version # cancelVersion[c]
      <4>1. Booked' = Booked /\ CommittedCancels' = CommittedCancels
        BY <2>4, <3>2 DEF CancelCommit, Goto, TypeOK, Booked, CommittedCancels
      <4> QED
        BY <2>4, <3>2, <4>1 DEF CancelCommit
    <3> QED
      BY <3>1, <3>2
  <2> QED
    BY <2>1, <2>2, <2>3, <2>4, StepKinds
<1> QED
  BY <1>1, <1>2, TypeCorrect, PTL DEF Spec

(***************************************************************************)
(* Cancellations, in every regime                                          *)
(***************************************************************************)

\* A row is there from its creation on, which its job and its cancellations follow.
BirthInv ==
    /\ \A r \in Request : job[r] # "none" => apply[r] = "done"
    /\ \A r \in Request : apply[r] \in {"idle", "read", "checked", "held"} => status[r] = "NONE"
    /\ \A c \in Canceller : cancel[c] \in {"read", "ready", "committed", "done", "crashed"}
                               => status[TargetOf[c]] # "NONE"

LEMMA BirthStep == TypeOK /\ BirthInv /\ [Next]_vars => BirthInv'
<1> SUFFICES ASSUME TypeOK, BirthInv, [Next]_vars PROVE BirthInv'
  OBVIOUS
<1> USE ReservationAssumption
    DEF TypeOK, BirthInv, Goto, slotVars, applyVars, jobVars, cancelVars, setterVars
<1>1. CASE UNCHANGED vars
  BY <1>1 DEF vars
<1>2. ASSUME NEW r \in Request, ApplyStep(r) PROVE BirthInv'
  <2>1. CASE ApplyRead(r) \/ ApplyCheckDuplicate(r) \/ ApplyDecrement(r) \/ ApplyCompensate(r)
    BY <2>1 DEF ApplyRead, ApplyCheckDuplicate, ApplyDecrement, ApplyCompensate
  <2>2. CASE ApplyCreate(r)
    BY <2>2 DEF ApplyCreate
  <2>3. CASE ApplyEnqueue(r)
    BY <2>3 DEF ApplyEnqueue
  <2> QED
    BY <1>2, <2>1, <2>2, <2>3 DEF ApplyStep
<1>3. ASSUME NEW r \in Request, JobStep(r) PROVE BirthInv'
  <2>1. CASE JobReadSlot(r) \/ JobCheckDuplicate(r) \/ JobComplete(r)
    BY <2>1 DEF JobReadSlot, JobCheckDuplicate, JobComplete
  <2>2. CASE JobCommit(r)
    BY <2>2 DEF JobCommit
  <2>3. CASE JobCancel(r) \/ JobRestore(r)
    BY <2>3 DEF JobCancel, JobRestore, Retry
  <2> QED
    BY <1>3, <2>1, <2>2, <2>3 DEF JobStep
<1>4. ASSUME NEW c \in Canceller, CancelStep(c) PROVE BirthInv'
  <2>1. CASE CancelReadReservation(c)
    BY <2>1 DEF CancelReadReservation
  <2>2. CASE CancelReadSlot(c) \/ CancelRestore(c)
    BY <2>2 DEF CancelReadSlot, CancelRestore
  <2>3. CASE CancelCommit(c)
    BY <2>3 DEF CancelCommit
  <2> QED
    BY <1>4, <2>1, <2>2, <2>3 DEF CancelStep
<1>5. CASE \/ \E b \in Boot : SyncRead(b)
           \/ \E u \in Update : UpdateCheck(u) \/ UpdateWrite(u)
           \/ \E p \in Setter : InitStock(p)
  BY <1>5 DEF SyncRead, UpdateCheck, UpdateWrite, InitStock
<1>6. ASSUME NEW r \in Request, ApplyFails(r) \/ ApplyCrash(r) PROVE BirthInv'
  BY <1>6 DEF ApplyFails, ApplyCrash
<1>7. ASSUME NEW r \in Request, JobFails(r) \/ JobRecoveryFails(r) \/ JobStalls(r) PROVE BirthInv'
  <2>1. CASE JobFails(r)
    BY <2>1, <1>7 DEF JobFails
  <2>2. CASE JobRecoveryFails(r)
    BY <2>2, <1>7 DEF JobRecoveryFails, Retry
  <2>3. CASE JobStalls(r)
    BY <2>3, <1>7 DEF JobStalls, InProgress
  <2> QED
    BY <1>7, <2>1, <2>2, <2>3
<1>8. ASSUME NEW c \in Canceller, CancelCrash(c) PROVE BirthInv'
  BY <1>8 DEF CancelCrash
<1> QED
  BY <1>1, <1>2, <1>3, <1>4, <1>5, <1>6, <1>7, <1>8 DEF Next, Failure

LEMMA BirthHolds == Spec => []BirthInv
<1>1. Init => BirthInv
  BY DEF Init, BirthInv
<1> QED
  BY <1>1, BirthStep, TypeCorrect, PTL DEF Spec

\* A committed cancellation moved the version past the one that it read.
StandInv ==
    /\ \A c \in CommittedCancels : cancelVersion[c] < version
    /\ CancellationStands

LEMMA StandStep == TypeOK /\ BirthInv /\ StandInv /\ [Next]_vars => StandInv'
<1> SUFFICES ASSUME TypeOK, BirthInv, StandInv, [Next]_vars PROVE StandInv'
  OBVIOUS
<1> USE ReservationAssumption
    DEF TypeOK, StandInv, CancellationStands, CommittedCancels, Goto,
        slotVars, applyVars, jobVars, cancelVars, setterVars
<1>1. CASE UNCHANGED vars
  BY <1>1 DEF vars
<1>2. ASSUME NEW r \in Request, ApplyStep(r) PROVE StandInv'
  <2>1. CASE \/ ApplyRead(r) \/ ApplyCheckDuplicate(r) \/ ApplyDecrement(r) \/ ApplyCompensate(r)
             \/ ApplyEnqueue(r)
    BY <2>1 DEF ApplyRead, ApplyCheckDuplicate, ApplyDecrement, ApplyCompensate, ApplyEnqueue
  <2>2. CASE ApplyCreate(r)
    <3>1. \A c \in CommittedCancels : TargetOf[c] # r
      BY <2>2 DEF ApplyCreate, BirthInv
    <3> QED
      BY <2>2, <3>1 DEF ApplyCreate
  <2> QED
    BY <1>2, <2>1, <2>2 DEF ApplyStep
<1>3. ASSUME NEW r \in Request, JobStep(r) PROVE StandInv'
  <2>1. CASE JobReadSlot(r)
    BY <2>1 DEF JobReadSlot
  <2>2. CASE JobCheckDuplicate(r) \/ JobComplete(r) \/ JobCancel(r) \/ JobRestore(r)
    BY <2>2 DEF JobCheckDuplicate, JobComplete, JobCancel, JobRestore, Retry
  <2>3. CASE JobCommit(r)
    BY <2>3 DEF JobCommit, Available
  <2> QED
    BY <1>3, <2>1, <2>2, <2>3 DEF JobStep
<1>4. ASSUME NEW c \in Canceller, CancelStep(c) PROVE StandInv'
  <2>1. CASE CancelReadReservation(c) \/ CancelReadSlot(c) \/ CancelRestore(c)
    BY <2>1 DEF CancelReadReservation, CancelReadSlot, CancelRestore
  <2>2. CASE CancelCommit(c)
    BY <2>2 DEF CancelCommit
  <2> QED
    BY <1>4, <2>1, <2>2 DEF CancelStep
<1>5. CASE \/ \E b \in Boot : SyncRead(b)
           \/ \E u \in Update : UpdateCheck(u) \/ UpdateWrite(u)
           \/ \E p \in Setter : InitStock(p)
  BY <1>5 DEF SyncRead, UpdateCheck, UpdateWrite, InitStock
<1>6. CASE Failure
  BY <1>6 DEF Failure, ApplyFails, ApplyCrash, JobFails, JobRecoveryFails, JobStalls, CancelCrash, Retry
<1> QED
  BY <1>1, <1>2, <1>3, <1>4, <1>5, <1>6 DEF Next

\* Whatever is cancelled when, fails, is retried or restarts: a cancelled
\* reservation is confirmed again only in a transaction that read the slot after
\* the cancellation.
THEOREM CancellationStandsHolds == Spec => []CancellationStands
<1>1. Init => StandInv
  BY DEF Init, StandInv, CancellationStands, CommittedCancels
<1>2. StandInv => CancellationStands
  BY DEF StandInv
<1> QED
  BY <1>1, <1>2, StandStep, BirthHolds, TypeCorrect, PTL DEF Spec

\* As long as nothing fails, no attempt of a job meets its row confirmed.
FaultFreeInv == faults = 0 => \A r \in Booked : job[r] \in {"confirmed", "completed"}

LEMMA FaultFreeStep == TypeOK /\ BirthInv /\ FaultFreeInv /\ [Next]_vars => FaultFreeInv'
<1> SUFFICES ASSUME TypeOK, BirthInv, FaultFreeInv, [Next]_vars PROVE FaultFreeInv'
  OBVIOUS
<1> USE ReservationAssumption
    DEF TypeOK, FaultFreeInv, Booked, Goto, slotVars, applyVars, jobVars, cancelVars, setterVars
<1>1. CASE UNCHANGED vars
  BY <1>1 DEF vars
<1>2. ASSUME NEW r \in Request, ApplyStep(r) PROVE FaultFreeInv'
  <2>1. CASE ApplyRead(r) \/ ApplyCheckDuplicate(r) \/ ApplyDecrement(r) \/ ApplyCompensate(r)
    BY <2>1 DEF ApplyRead, ApplyCheckDuplicate, ApplyDecrement, ApplyCompensate
  <2>2. CASE ApplyCreate(r)
    BY <2>2 DEF ApplyCreate
  <2>3. CASE ApplyEnqueue(r)
    BY <2>3 DEF ApplyEnqueue, BirthInv
  <2> QED
    BY <1>2, <2>1, <2>2, <2>3 DEF ApplyStep
<1>3. ASSUME NEW r \in Request, JobStep(r) PROVE FaultFreeInv'
  <2>1. CASE JobReadSlot(r) \/ JobCheckDuplicate(r) \/ JobComplete(r)
    BY <2>1 DEF JobReadSlot, JobCheckDuplicate, JobComplete
  <2>2. CASE JobCommit(r)
    BY <2>2 DEF JobCommit
  <2>3. CASE JobCancel(r) \/ JobRestore(r)
    BY <2>3 DEF JobCancel, JobRestore, Retry
  <2> QED
    BY <1>3, <2>1, <2>2, <2>3 DEF JobStep
<1>4. ASSUME NEW c \in Canceller, CancelStep(c) PROVE FaultFreeInv'
  BY <1>4 DEF CancelStep, CancelReadReservation, CancelReadSlot, CancelCommit, CancelRestore
<1>5. CASE \/ \E b \in Boot : SyncRead(b)
           \/ \E u \in Update : UpdateCheck(u) \/ UpdateWrite(u)
           \/ \E p \in Setter : InitStock(p)
  BY <1>5 DEF SyncRead, UpdateCheck, UpdateWrite, InitStock
<1>6. CASE Failure
  BY <1>6 DEF Failure, ApplyFails, ApplyCrash, JobFails, JobRecoveryFails, JobStalls, CancelCrash, Fails
<1> QED
  BY <1>1, <1>2, <1>3, <1>4, <1>5, <1>6 DEF Next

\* A confirmed reservation is taken away by its owner or, after a failure, by the
\* catch block of its own job, and by nothing else.
THEOREM OnlyOwnerRevokesHolds == Spec => OnlyOwnerRevokes
<1> DEFINE Revoked == \A r \in Booked : status'[r] # "CONFIRMED" =>
       \/ \E c \in Canceller : TargetOf[c] = r /\ cancel[c] = "ready" /\ cancel'[c] = "committed"
       \/ faults > 0 /\ job[r] = "failing" /\ status'[r] = "CANCELLED"
<1>1. TypeOK /\ BirthInv /\ FaultFreeInv /\ [Next]_vars => [Revoked]_vars
  <2> SUFFICES ASSUME TypeOK, BirthInv, FaultFreeInv, [Next]_vars PROVE Revoked
    OBVIOUS
  <2> USE ReservationAssumption
      DEF TypeOK, Booked, Goto, slotVars, applyVars, jobVars, cancelVars, setterVars
  <2>1. CASE UNCHANGED status
    BY <2>1
  <2>2. ASSUME NEW r \in Request, ApplyCreate(r) PROVE Revoked
    BY <2>2 DEF ApplyCreate, BirthInv
  <2>3. ASSUME NEW r \in Request, JobCommit(r) PROVE Revoked
    BY <2>3 DEF JobCommit
  <2>4. ASSUME NEW r \in Request, JobCancel(r) PROVE Revoked
    BY <2>4 DEF JobCancel, FaultFreeInv
  <2>5. ASSUME NEW c \in Canceller, CancelCommit(c) PROVE Revoked
    BY <2>5 DEF CancelCommit
  <2>6. \/ UNCHANGED status \/ \E r \in Request : ApplyCreate(r) \/ JobCommit(r) \/ JobCancel(r)
        \/ \E c \in Canceller : CancelCommit(c)
    BY DEF vars, Next, ApplyStep, JobStep, CancelStep, Failure, ApplyRead, ApplyCheckDuplicate,
       ApplyDecrement, ApplyEnqueue, ApplyCompensate, JobReadSlot, JobCheckDuplicate, JobComplete,
       JobRestore, CancelReadReservation, CancelReadSlot, CancelRestore, SyncRead, UpdateCheck,
       UpdateWrite, InitStock, ApplyFails, ApplyCrash, JobFails, JobRecoveryFails, JobStalls, CancelCrash
  <2> QED
    BY <2>1, <2>2, <2>3, <2>4, <2>5, <2>6
<1>2. Init => FaultFreeInv
  BY DEF Init, FaultFreeInv, Booked
<1> QED
  BY <1>1, <1>2, FaultFreeStep, BirthHolds, TypeCorrect, PTL DEF Spec, OnlyOwnerRevokes

(***************************************************************************)
(* Confirmed reservations only, each cancelled once                        *)
(***************************************************************************)

\* Users cancel only what they see confirmed, and send one DELETE for it.
OneCancelOfConfirmed ==
    /\ CancelFrom \subseteq {"CONFIRMED"}
    /\ \A c, d \in Canceller : TargetOf[c] = TargetOf[d] => c = d

\* The reservations the count must stand for: the confirmed ones, and those whose
\* cancellation is under way although the worker has cancelled the row meanwhile.
Owed == Booked \cup {TargetOf[c] : c \in {d \in Canceller : cancel[d] \in {"read", "ready"}}}
OwedInv == Cardinality(Owed) <= currentCount

LEMMA OwedIsFinite == IsFiniteSet(Owed) /\ Cardinality(Owed) \in Nat
<1>1. Owed \subseteq Request
  BY ReservationAssumption DEF Owed, Booked
<1> QED
  BY <1>1, FS_Subset, FS_CardinalityType, ReservationAssumption

\* Only a job's commit adds to what is owed, and only a cancellation's commit
\* takes from the count.
LEMMA OwedShrinks ==
    ASSUME TypeOK, OneCancelOfConfirmed, [Next]_vars,
           ~ \E r \in Request : JobCommit(r), ~ \E c \in Canceller : CancelCommit(c)
    PROVE  Owed' \subseteq Owed /\ currentCount' = currentCount
<1> USE DEF TypeOK, Owed, Booked, Goto, slotVars, applyVars, jobVars, cancelVars, setterVars
<1>1. CASE UNCHANGED vars
  BY <1>1 DEF vars
<1>2. ASSUME NEW r \in Request, ApplyStep(r) PROVE Owed' \subseteq Owed /\ UNCHANGED currentCount
  BY <1>2 DEF ApplyStep, ApplyRead, ApplyCheckDuplicate, ApplyDecrement, ApplyCreate,
              ApplyEnqueue, ApplyCompensate
<1>3. ASSUME NEW r \in Request, JobStep(r), ~JobCommit(r)
      PROVE  Owed' \subseteq Owed /\ UNCHANGED currentCount
  BY <1>3 DEF JobStep, JobReadSlot, JobCheckDuplicate, JobComplete, JobCancel, JobRestore, Retry
<1>4. ASSUME NEW c \in Canceller, CancelReadReservation(c)
      PROVE  Owed' \subseteq Owed /\ UNCHANGED currentCount
  <2>1. TargetOf[c] \in Request
    BY ReservationAssumption
  <2>2. cancel'[c] = "read" => TargetOf[c] \in Booked
    BY <1>4, <2>1 DEF CancelReadReservation, OneCancelOfConfirmed
  <2>3. Booked' = Booked /\ \A d \in Canceller \ {c} : cancel'[d] = cancel[d]
    BY <1>4 DEF CancelReadReservation
  <2>4. cancel'[c] # "ready" /\ currentCount' = currentCount
    BY <1>4 DEF CancelReadReservation
  <2> QED
    BY <2>2, <2>3, <2>4
<1>5. ASSUME NEW c \in Canceller, CancelReadSlot(c) \/ CancelRestore(c)
      PROVE  Owed' \subseteq Owed /\ UNCHANGED currentCount
  BY <1>5 DEF CancelReadSlot, CancelRestore
<1>6. ASSUME \/ \E b \in Boot : SyncRead(b)
             \/ \E u \in Update : UpdateCheck(u) \/ UpdateWrite(u)
             \/ \E p \in Setter : InitStock(p)
      PROVE  Owed' \subseteq Owed /\ UNCHANGED currentCount
  BY <1>6 DEF SyncRead, UpdateCheck, UpdateWrite, InitStock
<1>7. ASSUME Failure PROVE Owed' \subseteq Owed /\ UNCHANGED currentCount
  BY <1>7 DEF Failure, ApplyFails, ApplyCrash, JobFails, JobRecoveryFails, JobStalls, Retry,
              CancelCrash, Fails
<1> QED
  BY <1>1, <1>2, <1>3, <1>4, <1>5, <1>6, <1>7 DEF Next, CancelStep

\* If users only cancel confirmed reservations, once each, no failure, retry,
\* stall or restart makes the count smaller than the confirmed reservations.
THEOREM NeverUndercountedHolds ==
    ASSUME OneCancelOfConfirmed PROVE Spec => []NeverUndercounted
<1>1. Init => OwedInv
  <2> SUFFICES ASSUME Init PROVE OwedInv
    OBVIOUS
  <2>1. Owed = {} /\ currentCount = 0
    BY DEF Init, Owed, Booked
  <2> QED
    BY <2>1, FS_EmptySet DEF OwedInv
<1>2. TypeOK /\ OwedInv /\ [Next]_vars => OwedInv'
  <2> SUFFICES ASSUME TypeOK, OwedInv, [Next]_vars PROVE OwedInv'
    OBVIOUS
  <2>0. currentCount \in Int
    BY DEF TypeOK
  <2>1. ASSUME NEW r \in Request, JobCommit(r) PROVE OwedInv'
    <3>1. CASE Available(r)
      <4>1. Owed' = Owed \cup {r} /\ currentCount' = currentCount + 1
        BY <2>1, <3>1 DEF JobCommit, TypeOK, Owed, Booked, cancelVars
      <4>2. Cardinality(Owed \cup {r}) \in {Cardinality(Owed), Cardinality(Owed) + 1}
        BY OwedIsFinite, FS_AddElement
      <4> QED
        BY <2>0, <4>1, <4>2, OwedIsFinite DEF OwedInv
    <3>2. CASE ~Available(r)
      BY <2>1, <3>2 DEF JobCommit, OwedInv, Owed, Booked, cancelVars
    <3> QED
      BY <3>1, <3>2
  <2>2. ASSUME NEW c \in Canceller, CancelCommit(c) PROVE OwedInv'
    <3>0. TargetOf[c] \in Request /\ TargetOf[c] \in Owed
      BY <2>2, ReservationAssumption DEF CancelCommit, Goto, Owed
    <3>1. CASE version = cancelVersion[c]
      <4>1. currentCount' = currentCount - 1
        BY <2>2, <3>1 DEF CancelCommit
      <4>2. Owed' = Owed \ {TargetOf[c]}
        BY <2>2, <3>0, <3>1
        DEF CancelCommit, Goto, TypeOK, Owed, Booked, OneCancelOfConfirmed
      <4>3. Cardinality(Owed \ {TargetOf[c]}) = Cardinality(Owed) - 1
        BY <3>0, OwedIsFinite, FS_RemoveElement
      <4> QED
        BY <2>0, <4>1, <4>2, <4>3, OwedIsFinite DEF OwedInv
    <3>2. CASE version # cancelVersion[c]
      <4>1. Owed' \subseteq Owed /\ currentCount' = currentCount
        BY <2>2, <3>2 DEF CancelCommit, Goto, TypeOK, Owed, Booked
      <4>2. Cardinality(Owed') <= Cardinality(Owed) /\ Cardinality(Owed') \in Nat
        BY <4>1, OwedIsFinite, FS_Subset, FS_CardinalityType
      <4> QED
        BY <2>0, <4>1, <4>2, OwedIsFinite DEF OwedInv
    <3> QED
      BY <3>1, <3>2
  <2>3. CASE ~(\E r \in Request : JobCommit(r)) /\ ~(\E c \in Canceller : CancelCommit(c))
    <3>1. Owed' \subseteq Owed /\ currentCount' = currentCount
      BY <2>3, OwedShrinks
    <3>2. Cardinality(Owed') <= Cardinality(Owed) /\ Cardinality(Owed') \in Nat
      BY <3>1, OwedIsFinite, FS_Subset, FS_CardinalityType
    <3> QED
      BY <2>0, <3>1, <3>2, OwedIsFinite DEF OwedInv
  <2> QED
    BY <2>1, <2>2, <2>3
<1>3. TypeOK /\ OwedInv => NeverUndercounted
  <2> SUFFICES ASSUME TypeOK, OwedInv PROVE NeverUndercounted
    OBVIOUS
  <2>1. Cardinality(Booked) <= Cardinality(Owed)
    BY OwedIsFinite, FS_Subset DEF Owed
  <2> QED
    BY <2>1, OwedIsFinite, CountableSets DEF OwedInv, NeverUndercounted, TypeOK
<1> QED
  BY <1>1, <1>2, <1>3, TypeCorrect, PTL DEF Spec

\* The organizer leaves the capacity alone, and everyone who read it knows it.
CapacityKept ==
    /\ maxCapacity = Capacity
    /\ \A r \in Request : seenMax[r] <= Capacity
    /\ currentCount <= Capacity

LEMMA CapacityKeptHolds == ASSUME Update = {} PROVE Spec => []CapacityKept
<1>1. Init => CapacityKept
  BY ReservationAssumption DEF Init, CapacityKept
<1>2. TypeOK /\ CapacityKept /\ [Next]_vars => CapacityKept'
  <2> SUFFICES ASSUME TypeOK, CapacityKept, [Next]_vars PROVE CapacityKept'
    OBVIOUS
  <2> USE ReservationAssumption
      DEF TypeOK, CapacityKept, slotVars, applyVars, jobVars, cancelVars, setterVars
  <2>1. CASE UNCHANGED vars
    BY <2>1 DEF vars
  <2>2. ASSUME NEW r \in Request, ApplyStep(r) PROVE CapacityKept'
    BY <2>2 DEF ApplyStep, ApplyRead, ApplyCheckDuplicate, ApplyDecrement, ApplyCreate,
       ApplyEnqueue, ApplyCompensate
  <2>3. ASSUME NEW r \in Request, JobStep(r) PROVE CapacityKept'
    <3>1. CASE JobReadSlot(r)
      BY <3>1 DEF JobReadSlot
    <3>2. CASE JobCommit(r)
      BY <3>2 DEF JobCommit, Available
    <3>3. CASE JobCheckDuplicate(r) \/ JobComplete(r) \/ JobCancel(r) \/ JobRestore(r)
      BY <3>3 DEF JobCheckDuplicate, JobComplete, JobCancel, JobRestore
    <3> QED
      BY <2>3, <3>1, <3>2, <3>3 DEF JobStep
  <2>4. ASSUME NEW c \in Canceller, CancelStep(c) PROVE CapacityKept'
    BY <2>4 DEF CancelStep, CancelReadReservation, CancelReadSlot, CancelCommit, CancelRestore
  <2>5. CASE \/ \E b \in Boot : SyncRead(b)
             \/ \E p \in Setter : InitStock(p)
    BY <2>5 DEF SyncRead, InitStock
  <2>6. CASE Failure
    BY <2>6 DEF Failure, ApplyFails, ApplyCrash, JobFails, JobRecoveryFails, JobStalls, CancelCrash
  <2> QED
    BY <2>1, <2>2, <2>3, <2>4, <2>5, <2>6 DEF Next
<1> QED
  BY <1>1, <1>2, TypeCorrect, PTL DEF Spec

\* Whatever fails, stalls, is retried or restarts, a slot whose capacity stays as
\* created is never overbooked, if users only cancel confirmed reservations, once
\* each: the row guards the seats, and the Redis counter is not relied on.
THEOREM NoOverbookingHolds ==
    ASSUME OneCancelOfConfirmed, Update = {} PROVE Spec => []NoOverbooking
<1>1. TypeOK /\ CapacityKept /\ NeverUndercounted => NoOverbooking
  BY CountableSets, ReservationAssumption
  DEF TypeOK, CapacityKept, NeverUndercounted, NoOverbooking
<1> QED
  BY <1>1, TypeCorrect, CapacityKeptHolds, NeverUndercountedHolds, PTL

(***************************************************************************)
(* The counter in Redis                                                    *)
(***************************************************************************)

\* Every writer of the counter knows a capacity and a count that were true once.
StockInv ==
    /\ \A r \in Request : capOf[r] <= Capacity
    /\ \A c \in Canceller : cancelMax[c] <= Capacity
    /\ \A p \in Setter : setter[p] = "set" => snapMax[p] = Capacity /\ snapCount[p] \in 0..Capacity
    /\ stock # NoKey => stock \in 0..Capacity

\* The clamp keeps a compensation within the capacity it was given.
LEMMA IncrementedWithin ==
    ASSUME NEW max \in Nat, max <= Capacity, stock \in Stock, stock # NoKey => stock \in 0..Capacity
    PROVE  Incremented(stock, max) # NoKey => Incremented(stock, max) \in 0..Capacity
BY ReservationAssumption, NoKeyAssumption DEF Incremented, Stock

\* No compensation of a failed attempt, restart or lost call drives the counter
\* below nothing or past the capacity, if users only cancel confirmed
\* reservations, once each, and the capacity stays as created.
THEOREM StockWithinCapacityHolds ==
    ASSUME OneCancelOfConfirmed, Update = {} PROVE Spec => []StockWithinCapacity
<1>1. Init => StockInv
  BY ReservationAssumption, CreatorAssumption DEF Init, StockInv, Setter
<1>2. TypeOK /\ CapacityKept /\ NeverUndercounted /\ StockInv /\ [Next]_vars => StockInv'
  <2> SUFFICES ASSUME TypeOK, CapacityKept, NeverUndercounted, StockInv, [Next]_vars
               PROVE  StockInv'
    OBVIOUS
  <2>0. currentCount \in 0..Capacity
    BY CountableSets, ReservationAssumption DEF TypeOK, CapacityKept, NeverUndercounted
  <2> USE ReservationAssumption
      DEF TypeOK, StockInv, Goto, slotVars, applyVars, jobVars, cancelVars, setterVars
  <2>1. CASE UNCHANGED vars
    BY <2>1 DEF vars
  <2>2. ASSUME NEW r \in Request, ApplyStep(r) PROVE StockInv'
    <3>1. CASE ApplyRead(r)
      BY <3>1 DEF ApplyRead, CapacityKept
    <3>2. CASE ApplyDecrement(r)
      BY <3>2, NoKeyAssumption DEF ApplyDecrement, CanDecrement, Decremented
    <3>3. CASE ApplyCompensate(r)
      BY <3>3, IncrementedWithin DEF ApplyCompensate
    <3>4. CASE ApplyCheckDuplicate(r) \/ ApplyCreate(r) \/ ApplyEnqueue(r)
      BY <3>4 DEF ApplyCheckDuplicate, ApplyCreate, ApplyEnqueue
    <3> QED
      BY <2>2, <3>1, <3>2, <3>3, <3>4 DEF ApplyStep
  <2>3. ASSUME NEW r \in Request, JobStep(r) PROVE StockInv'
    <3>1. CASE JobRestore(r)
      BY <3>1, IncrementedWithin DEF JobRestore
    <3>2. CASE JobReadSlot(r) \/ JobCheckDuplicate(r) \/ JobCommit(r) \/ JobComplete(r) \/ JobCancel(r)
      BY <3>2 DEF JobReadSlot, JobCheckDuplicate, JobCommit, JobComplete, JobCancel
    <3> QED
      BY <2>3, <3>1, <3>2 DEF JobStep
  <2>4. ASSUME NEW c \in Canceller, CancelStep(c) PROVE StockInv'
    <3>1. CASE CancelReadSlot(c)
      BY <3>1 DEF CancelReadSlot, CapacityKept
    <3>2. CASE CancelRestore(c)
      BY <3>2, IncrementedWithin DEF CancelRestore
    <3>3. CASE CancelReadReservation(c) \/ CancelCommit(c)
      BY <3>3 DEF CancelReadReservation, CancelCommit
    <3> QED
      BY <2>4, <3>1, <3>2, <3>3 DEF CancelStep
  <2>5. ASSUME NEW b \in Boot, SyncRead(b) PROVE StockInv'
    BY <2>0, <2>5 DEF SyncRead, CapacityKept, Setter
  <2>6. ASSUME NEW p \in Setter, InitStock(p) PROVE StockInv'
    BY <2>6 DEF InitStock, Initialised
  <2>7. CASE Failure
    BY <2>7 DEF Failure, ApplyFails, ApplyCrash, JobFails, JobRecoveryFails, JobStalls, CancelCrash
  <2> QED
    BY <2>1, <2>2, <2>3, <2>4, <2>5, <2>6, <2>7 DEF Next
<1>3. StockInv => StockWithinCapacity
  BY ReservationAssumption DEF StockInv, StockWithinCapacity
<1> QED
  BY <1>1, <1>2, <1>3, TypeCorrect, CapacityKeptHolds, NeverUndercountedHolds, PTL DEF Spec

(***************************************************************************)
(* When nothing fails or restarts, the capacity stays as created and users *)
(* cancel only what they see confirmed, once.  Double clicks, concurrent   *)
(* workers and retries remain.                                             *)
(***************************************************************************)


Orderly == OneCancelOfConfirmed /\ Fault = {} /\ Boot = {} /\ Update = {}

\* The row, the job and the cancellations of a reservation agree on it:
\* a confirmed row belongs to a job that is over but for its bookkeeping, so no
\* later attempt can touch it; a cancellation under way finds it confirmed still;
\* and a job that never ran belongs to a handler that has not returned.
RowInv ==
    /\ maxCapacity = Capacity /\ \A r \in Request : seenMax[r] <= Capacity
    /\ \A r \in Request : job[r] # "none" => apply[r] = "done"
    /\ \A r \in Booked : job[r] \in {"confirmed", "completed"}
    /\ \A c \in Canceller : cancel[c] \in {"read", "ready"} => TargetOf[c] \in Booked
    /\ \A c \in CommittedCancels :
          status[TargetOf[c]] = "CANCELLED" /\ job[TargetOf[c]] \in {"confirmed", "completed"}

CountInv == currentCount = Cardinality(Booked) /\ currentCount <= Capacity

\* The three kinds of step, as the ledger sees them: one books a reservation, one
\* revokes one on its owner's behalf, the others change nobody's booking.
Confirms(r) ==
    /\ JobCommit(r) /\ job[r] = "checked" /\ Available(r)
    /\ r \notin Booked /\ Booked' = Booked \cup {r} /\ currentCount' = currentCount + 1
Revokes(c) ==
    /\ cancel[c] = "ready" /\ cancel'[c] = "committed"
    /\ TargetOf[c] \in Booked /\ Booked' = Booked \ {TargetOf[c]}
    /\ currentCount' = currentCount - 1
SameBookings == Booked' = Booked /\ currentCount' = currentCount

\* Under these assumptions rows, jobs and cancellations stay in agreement.
LEMMA RowStep ==
    ASSUME Orderly, TypeOK, RowInv, [Next]_vars
    PROVE  /\ RowInv'
           /\ \/ SameBookings
              \/ \E r \in Request : Confirms(r)
              \/ \E c \in Canceller : Revokes(c)
<1> USE ReservationAssumption
    DEF TypeOK, RowInv, SameBookings, Booked, CommittedCancels, Goto,
        slotVars, applyVars, jobVars, cancelVars, setterVars
<1>1. CASE UNCHANGED vars
  BY <1>1 DEF vars
<1>2. ASSUME NEW r \in Request, ApplyStep(r) PROVE RowInv' /\ SameBookings
  <2>1. CASE ApplyRead(r) \/ ApplyCheckDuplicate(r) \/ ApplyDecrement(r) \/ ApplyCompensate(r)
    BY <2>1 DEF ApplyRead, ApplyCheckDuplicate, ApplyDecrement, ApplyCompensate
  <2>2. CASE ApplyCreate(r)
    <3>1. job[r] = "none"
      BY <2>2 DEF ApplyCreate, JobPhase
    <3> QED
      BY <2>2, <3>1 DEF ApplyCreate
  <2>3. CASE ApplyEnqueue(r)
    <3>1. job[r] = "none"
      BY <2>3 DEF ApplyEnqueue, JobPhase
    <3> QED
      BY <2>3, <3>1 DEF ApplyEnqueue
  <2> QED
    BY <1>2, <2>1, <2>2, <2>3 DEF ApplyStep
<1>3. ASSUME NEW r \in Request,
             \/ JobReadSlot(r) \/ JobCheckDuplicate(r) \/ JobComplete(r) \/ JobRestore(r)
             \/ JobCommit(r) /\ ~Available(r)
      PROVE  RowInv' /\ SameBookings
  BY <1>3 DEF JobReadSlot, JobCheckDuplicate, JobComplete, JobRestore, Retry, JobCommit
<1>4. ASSUME NEW r \in Request, JobCancel(r) PROVE RowInv' /\ SameBookings
  BY <1>4 DEF JobCancel
<1>5. ASSUME NEW r \in Request, JobCommit(r), Available(r) PROVE RowInv' /\ Confirms(r)
  BY <1>5 DEF JobCommit, Confirms
<1>6. ASSUME NEW c \in Canceller, CancelReadReservation(c) PROVE RowInv' /\ SameBookings
  BY <1>6 DEF CancelReadReservation, Orderly, OneCancelOfConfirmed
<1>7. ASSUME NEW c \in Canceller,
             \/ CancelReadSlot(c) \/ CancelRestore(c)
             \/ CancelCommit(c) /\ version # cancelVersion[c]
      PROVE  RowInv' /\ SameBookings
  BY <1>7 DEF CancelReadSlot, CancelRestore, CancelCommit
<1>8. ASSUME NEW c \in Canceller, CancelCommit(c), version = cancelVersion[c]
      PROVE  RowInv' /\ Revokes(c)
  BY <1>8 DEF CancelCommit, Revokes, Orderly, OneCancelOfConfirmed
<1>9. ASSUME NEW p \in Setter, InitStock(p) PROVE RowInv' /\ SameBookings
  BY <1>9 DEF InitStock
<1>10. ~Failure
  BY DEF Orderly, Failure, ApplyFails, ApplyCrash, JobFails, JobRecoveryFails, JobStalls,
         CancelCrash, Fails
<1> HIDE DEF TypeOK, RowInv, SameBookings, Booked, CommittedCancels, Goto
<1>11. ASSUME NEW r \in Request, JobStep(r) PROVE RowInv' /\ (SameBookings \/ Confirms(r))
  BY <1>3, <1>4, <1>5, <1>11 DEF JobStep
<1>12. ASSUME NEW c \in Canceller, CancelStep(c) PROVE RowInv' /\ (SameBookings \/ Revokes(c))
  BY <1>6, <1>7, <1>8, <1>12 DEF CancelStep
<1> QED
  BY <1>1, <1>2, <1>9, <1>10, <1>11, <1>12 DEF Next, Orderly

\* The count follows the bookings, and stays within the capacity.
LEMMA CountStep ==
    ASSUME Orderly, TypeOK, RowInv, CountInv, [Next]_vars
    PROVE  CountInv'
<1>0. currentCount \in Int /\ Capacity \in Nat
  BY ReservationAssumption DEF TypeOK
<1>1. CASE SameBookings
  BY <1>1 DEF SameBookings, CountInv
<1>2. ASSUME NEW r \in Request, Confirms(r) PROVE CountInv'
  <2>1. currentCount < Capacity
    <3>1. seenMax[r] \in Nat
      BY ReservationAssumption DEF TypeOK
    <3> QED
      BY <1>0, <1>2, <3>1 DEF Confirms, Available, RowInv
  <2>2. Cardinality(Booked \cup {r}) = Cardinality(Booked) + 1
    BY <1>2, CountableSets, FS_AddElement DEF Confirms
  <2> QED
    BY <1>0, <1>2, <2>1, <2>2 DEF Confirms, CountInv
<1>3. ASSUME NEW c \in Canceller, Revokes(c) PROVE CountInv'
  <2>1. Cardinality(Booked \ {TargetOf[c]}) = Cardinality(Booked) - 1
    BY <1>3, CountableSets, FS_RemoveElement DEF Revokes
  <2> QED
    BY <1>0, <1>3, <2>1 DEF Revokes, CountInv
<1> QED
  BY <1>1, <1>2, <1>3, RowStep

LEMMA OrderlyHolds == ASSUME Orderly PROVE Spec => [](RowInv /\ CountInv)
<1>1. Init => RowInv /\ CountInv
  <2> SUFFICES ASSUME Init PROVE RowInv /\ CountInv
    OBVIOUS
  <2>1. Booked = {} /\ CommittedCancels = {} /\ currentCount = 0
    BY DEF Init, Booked, CommittedCancels
  <2>2. CountInv
    BY <2>1, FS_EmptySet, ReservationAssumption DEF CountInv
  <2> QED
    BY <2>1, <2>2, ReservationAssumption DEF RowInv, Init
<1>2. TypeOK /\ RowInv /\ CountInv /\ [Next]_vars => RowInv' /\ CountInv'
  BY RowStep, CountStep
<1> QED
  BY <1>1, <1>2, TypeCorrect, PTL DEF Spec

\* The count of the row is the number of confirmed reservations, at every moment.
THEOREM CountMatchesBookedHolds == ASSUME Orderly PROVE Spec => []CountMatchesBooked
<1>1. CountInv => CountMatchesBooked
  BY DEF CountInv, CountMatchesBooked
<1> QED
  BY <1>1, OrderlyHolds, PTL

\* The ledger counts with the same Cardinality (an instance has its own copy).
LEMMA SameCardinality == \A S : Ledger!Cardinality(S) = Cardinality(S)
BY DEF Ledger!Cardinality, Cardinality

\* The rows of the slot implement the ledger of its seats: a job's commit is a
\* booking of the ledger, the commit of a cancellation a release, and every other
\* step of the handlers, the worker and the counter is invisible.
THEOREM LedgerRefinement == ASSUME Orderly PROVE Spec => ImplementsLedger
<1>1. Init => Ledger!Init
  BY DEF Init, Ledger!Init, Booked
<1>2. TypeOK /\ RowInv /\ CountInv /\ DoubleBookingInv /\ [Next]_vars => [Ledger!Next]_Booked
  <2> SUFFICES ASSUME TypeOK, RowInv, CountInv, DoubleBookingInv, [Next]_vars,
                      Booked' # Booked
               PROVE  Ledger!Next
    OBVIOUS
  <2>1. ASSUME NEW r \in Request, Confirms(r) PROVE Ledger!Book(r)
    <3>1. \A q \in Booked : KeyOf[q] # KeyOf[r]
      <4>1. \A q \in Booked : q \in Request \ {r}
        BY <2>1 DEF Confirms, Booked
      <4> QED
        BY <2>1, <4>1 DEF Confirms, Available, DoubleBookingInv
    <3>2. Cardinality(Booked) < Capacity
      <4>1. seenMax[r] \in Nat /\ currentCount \in Int /\ Capacity \in Nat
        BY ReservationAssumption DEF TypeOK
      <4> QED
        BY <2>1, <4>1 DEF Confirms, Available, RowInv, CountInv
    <3> QED
      BY <2>1, <3>1, <3>2, SameCardinality DEF Confirms, Ledger!Book
  <2>2. ASSUME NEW c \in Canceller, Revokes(c) PROVE Ledger!Release(TargetOf[c])
    BY <2>2 DEF Revokes, Ledger!Release
  <2> QED
    BY <2>1, <2>2, RowStep, ReservationAssumption DEF SameBookings, Ledger!Next
<1> QED
  BY <1>1, <1>2, OrderlyHolds, TypeCorrect, DoubleBookingInvHolds, PTL
  DEF Spec, ImplementsLedger, Ledger!Spec

(***************************************************************************)
(* The seats in Redis                                                      *)
(***************************************************************************)

\* What every writer of the counter knows, and that nothing happens before the
\* slot's counter is first set.
WriterInv ==
    /\ setter[Creator] = "set" => snapMax[Creator] = Capacity /\ snapCount[Creator] = 0
    /\ \A r \in Request : apply[r] \notin {"idle", "rejected"} => capOf[r] = Capacity
    /\ \A c \in Canceller : cancel[c] \in {"ready", "committed"} => cancelMax[c] = Capacity
    /\ \A r \in Request : job[r] = "none" => attempts[r] = 0
    /\ stock = NoKey =>
          /\ \A r \in Request : /\ job[r] = "none" /\ status[r] = "NONE"
                                /\ apply[r] \in {"idle", "read", "checked", "rejected"}
          /\ \A c \in Canceller : cancel[c] = "idle"

\* A counter that is incremented is set, and the writer passes the capacity.
LEMMA WriterStep ==
    ASSUME Orderly, TypeOK, RowInv, WriterInv, [Next]_vars
    PROVE  WriterInv'
<1> USE ReservationAssumption
    DEF TypeOK, WriterInv, Goto, slotVars, applyVars, jobVars, cancelVars, setterVars
<1>1. CASE UNCHANGED vars
  BY <1>1 DEF vars
<1>2. ASSUME NEW r \in Request, ApplyStep(r) PROVE WriterInv'
  <2>1. CASE ApplyRead(r)
    BY <2>1 DEF ApplyRead, RowInv
  <2>2. CASE ApplyDecrement(r)
    BY <2>2, NoKeyAssumption DEF ApplyDecrement, CanDecrement, Decremented, Stock
  <2>3. CASE ApplyCompensate(r)
    BY <2>3, NoKeyAssumption DEF ApplyCompensate, Incremented, Stock
  <2>4. CASE ApplyCheckDuplicate(r) \/ ApplyCreate(r) \/ ApplyEnqueue(r)
    BY <2>4 DEF ApplyCheckDuplicate, ApplyCreate, ApplyEnqueue
  <2> QED
    BY <1>2, <2>1, <2>2, <2>3, <2>4 DEF ApplyStep
<1>3. ASSUME NEW r \in Request, JobStep(r) PROVE WriterInv'
  <2>1. CASE JobRestore(r)
    BY <2>1, NoKeyAssumption DEF JobRestore, Retry, Incremented, Stock
  <2>2. CASE JobReadSlot(r) \/ JobCheckDuplicate(r) \/ JobCommit(r) \/ JobComplete(r) \/ JobCancel(r)
    BY <2>2 DEF JobReadSlot, JobCheckDuplicate, JobCommit, JobComplete, JobCancel
  <2> QED
    BY <1>3, <2>1, <2>2 DEF JobStep
<1>4. ASSUME NEW c \in Canceller, CancelStep(c) PROVE WriterInv'
  <2>1. CASE CancelReadReservation(c)
    BY <2>1 DEF CancelReadReservation, Orderly, OneCancelOfConfirmed
  <2>2. CASE CancelReadSlot(c)
    BY <2>2 DEF CancelReadSlot, RowInv
  <2>3. CASE CancelCommit(c)
    BY <2>3 DEF CancelCommit
  <2>4. CASE CancelRestore(c)
    BY <2>4, NoKeyAssumption DEF CancelRestore, Incremented, Stock
  <2> QED
    BY <1>4, <2>1, <2>2, <2>3, <2>4 DEF CancelStep
<1>5. ASSUME NEW p \in Setter, InitStock(p) PROVE WriterInv'
  BY <1>5, NoKeyAssumption DEF InitStock, Initialised
<1>6. ~Failure
  BY DEF Orderly, Failure, ApplyFails, ApplyCrash, JobFails, JobRecoveryFails, JobStalls,
         CancelCrash, Fails
<1> QED
  BY <1>1, <1>2, <1>3, <1>4, <1>5, <1>6 DEF Next, Orderly

\* Seats in flight can be counted.
LEMMA SeatsCountable ==
    /\ IsFiniteSet(Held) /\ Cardinality(Held) \in Nat
    /\ IsFiniteSet(Returning) /\ Cardinality(Returning) \in Nat
<1>1. Held \subseteq Request /\ Returning \subseteq Canceller
  BY DEF Held, Returning
<1> QED
  BY <1>1, FS_Subset, FS_CardinalityType, ReservationAssumption

\* A unit given back is one more on offer, unless the counter is full already.
LEMMA GivenBack ==
    ASSUME stock \in Int, NEW max, max = Capacity
    PROVE  \/ Incremented(stock, max) = stock + 1
           \/ Incremented(stock, max) = stock /\ stock >= Capacity
BY NoKeyAssumption, ReservationAssumption DEF Incremented

\* Taking a seat from Redis, and each way in which one leaves a request's hands.
LEMMA HeldGrows ==
    ASSUME NEW r, r \notin Held, Held' = Held \cup {r}
    PROVE  Cardinality(Held') = Cardinality(Held) + 1
BY SeatsCountable, FS_AddElement

LEMMA HeldShrinks ==
    ASSUME NEW r, Held' = Held \ {r}
    PROVE  Cardinality(Held') \in {Cardinality(Held), Cardinality(Held) - 1}
BY SeatsCountable, FS_RemoveElement

\* The seats accounted for, and what a step does to them: it keeps their number,
\* or it meets a counter that is full.
Seats == stock + currentCount + Cardinality(Held) + Cardinality(Returning)

LEMMA SeatStep ==
    ASSUME Orderly, TypeOK, TypeOK', RowInv, WriterInv, CountInv, CountInv', NoSeatLost,
           [Next]_vars
    PROVE  NoSeatLost'
<1> USE DEF TypeOK, Goto, slotVars, applyVars, jobVars, cancelVars, setterVars
<1>0. /\ maxCapacity = Capacity /\ maxCapacity' = Capacity
      /\ Capacity \in Nat /\ currentCount \in Nat /\ currentCount' \in Nat
  <2>1. maxCapacity' = Capacity
    BY RowStep DEF RowInv
  <2>2. Cardinality(Booked') \in Nat
    BY FS_Subset, FS_CardinalityType, ReservationAssumption DEF Booked
  <2> QED
    BY <2>1, <2>2, CountableSets, ReservationAssumption DEF RowInv, CountInv
<1>1. /\ Cardinality(Held) \in Nat /\ Cardinality(Held') \in Nat
      /\ Cardinality(Returning) \in Nat /\ Cardinality(Returning') \in Nat
  <2>1. Held' \subseteq Request /\ Returning' \subseteq Canceller
    BY DEF Held, Returning
  <2> QED
    BY <2>1, SeatsCountable, FS_Subset, FS_CardinalityType, ReservationAssumption
<1> SUFFICES ASSUME stock' # NoKey PROVE Seats' >= Capacity
  BY <1>0 DEF NoSeatLost, Seats
<1>2. stock' \in Int /\ (stock \in Int \/ stock = NoKey)
  BY DEF Stock
<1>3. stock # NoKey => stock \in Int /\ Seats >= Capacity
  BY <1>0, <1>2 DEF NoSeatLost, Seats
<1>4. CASE UNCHANGED vars
  BY <1>3, <1>4 DEF vars, Seats, Held, Returning
<1>5. ASSUME NEW r \in Request, ApplyStep(r) PROVE Seats' >= Capacity
  <2>1. CASE ApplyRead(r) \/ ApplyCheckDuplicate(r) \/ ApplyCreate(r)
    <3>1. Held' = Held /\ Returning' = Returning /\ stock' = stock /\ currentCount' = currentCount
      BY <2>1 DEF ApplyRead, ApplyCheckDuplicate, ApplyCreate, Held, Returning
    <3> QED
      BY <1>3, <3>1 DEF Seats
  <2>2. CASE ApplyDecrement(r)
    <3>1. Returning' = Returning /\ currentCount' = currentCount
      BY <2>2 DEF ApplyDecrement, Returning
    <3>2. CASE CanDecrement(stock)
      <4>1. job[r] = "none"
        BY <2>2 DEF ApplyDecrement, RowInv, JobPhase
      <4>2. r \notin Held /\ Held' = Held \cup {r} /\ stock' = stock - 1
        BY <2>2, <3>2, <4>1 DEF ApplyDecrement, Held, Decremented
      <4>3. Cardinality(Held') = Cardinality(Held) + 1
        BY <4>2, HeldGrows
      <4>4. stock \in Int /\ Seats >= Capacity
        BY <1>2, <1>3, <3>2 DEF CanDecrement
      <4> QED
        BY <1>0, <1>1, <3>1, <4>2, <4>3, <4>4 DEF Seats
    <3>3. CASE ~CanDecrement(stock)
      <4>1. Held' = Held /\ stock' = stock
        BY <2>2, <3>3 DEF ApplyDecrement, Held
      <4> QED
        BY <1>3, <3>1, <4>1 DEF Seats
    <3> QED
      BY <3>2, <3>3
  <2>3. CASE ApplyEnqueue(r)
    <3>1. job[r] = "none" /\ attempts[r] = 0
      BY <2>3 DEF ApplyEnqueue, RowInv, WriterInv, JobPhase
    <3>2. Held' = Held /\ Returning' = Returning /\ stock' = stock /\ currentCount' = currentCount
      BY <2>3, <3>1 DEF ApplyEnqueue, Held, Returning
    <3> QED
      BY <1>3, <3>2 DEF Seats
  <2>4. CASE ApplyCompensate(r)
    <3>1. stock # NoKey /\ capOf[r] = Capacity /\ job[r] = "none"
      BY <2>4 DEF ApplyCompensate, WriterInv, RowInv, JobPhase
    <3>2. /\ Held' = Held \ {r} /\ Returning' = Returning
          /\ stock' = Incremented(stock, capOf[r]) /\ currentCount' = currentCount
      BY <2>4, <3>1 DEF ApplyCompensate, Held, Returning
    <3>3. Cardinality(Held') \in {Cardinality(Held), Cardinality(Held) - 1}
      BY <3>2, HeldShrinks
    <3>4. stock' = stock + 1 \/ stock' >= Capacity
      BY <1>3, <3>1, <3>2, GivenBack
    <3> QED
      BY <1>0, <1>1, <1>2, <1>3, <3>1, <3>2, <3>3, <3>4 DEF Seats
  <2> QED
    BY <1>5, <2>1, <2>2, <2>3, <2>4 DEF ApplyStep
<1>6. ASSUME NEW r \in Request, JobStep(r) PROVE Seats' >= Capacity
  <2>1. CASE \/ JobReadSlot(r) \/ JobCheckDuplicate(r) \/ JobComplete(r) \/ JobCancel(r)
             \/ JobCommit(r) /\ ~Available(r)
    <3>1. Held' = Held /\ Returning' = Returning /\ stock' = stock /\ currentCount' = currentCount
      BY <2>1 DEF JobReadSlot, JobCheckDuplicate, JobComplete, JobCancel, JobCommit, Held, Returning
    <3> QED
      BY <1>3, <3>1 DEF Seats
  <2>2. CASE JobCommit(r) /\ Available(r)
    <3>1. /\ Held' = Held \ {r} /\ Returning' = Returning
          /\ stock' = stock /\ currentCount' = currentCount + 1
      BY <2>2 DEF JobCommit, RowInv, Held, Returning
    <3>2. Cardinality(Held') \in {Cardinality(Held), Cardinality(Held) - 1}
      BY <3>1, HeldShrinks
    <3>3. stock \in Int /\ Seats >= Capacity
      BY <1>2, <1>3, <3>1
    <3> QED
      BY <1>0, <1>1, <3>1, <3>2, <3>3 DEF Seats
  <2>3. CASE JobRestore(r)
    <3>1. stock # NoKey /\ capOf[r] = Capacity
      BY <2>3 DEF JobRestore, Retry, WriterInv, RowInv
    <3>2. /\ Held' = Held \ {r} /\ Returning' = Returning
          /\ stock' = Incremented(stock, capOf[r]) /\ currentCount' = currentCount
      BY <2>3 DEF JobRestore, Retry, RowInv, Held, Returning
    <3>3. Cardinality(Held') \in {Cardinality(Held), Cardinality(Held) - 1}
      BY <3>2, HeldShrinks
    <3>4. stock' = stock + 1 \/ stock' >= Capacity
      BY <1>3, <3>1, <3>2, GivenBack
    <3> QED
      BY <1>0, <1>1, <1>2, <1>3, <3>1, <3>2, <3>3, <3>4 DEF Seats
  <2> QED
    BY <1>6, <2>1, <2>2, <2>3 DEF JobStep
<1>7. ASSUME NEW c \in Canceller, CancelStep(c) PROVE Seats' >= Capacity
  <2>1. CASE \/ CancelReadReservation(c) \/ CancelReadSlot(c)
             \/ CancelCommit(c) /\ version # cancelVersion[c]
    <3>1. Held' = Held /\ Returning' = Returning /\ stock' = stock /\ currentCount' = currentCount
      BY <2>1 DEF CancelReadReservation, CancelReadSlot, CancelCommit, Held, Returning
    <3> QED
      BY <1>3, <3>1 DEF Seats
  <2>2. CASE CancelCommit(c) /\ version = cancelVersion[c]
    <3>1. /\ Held' = Held /\ stock' = stock /\ currentCount' = currentCount - 1
          /\ c \notin Returning /\ Returning' = Returning \cup {c}
      BY <2>2 DEF CancelCommit, Held, Returning
    <3>2. Cardinality(Returning') = Cardinality(Returning) + 1
      BY <3>1, SeatsCountable, FS_AddElement
    <3> QED
      BY <1>0, <1>1, <1>3, <3>1, <3>2 DEF Seats
  <2>3. CASE CancelRestore(c)
    <3>1. stock # NoKey /\ cancelMax[c] = Capacity
      BY <2>3 DEF CancelRestore, WriterInv
    <3>2. /\ Held' = Held /\ currentCount' = currentCount
          /\ stock' = Incremented(stock, cancelMax[c])
          /\ c \in Returning /\ Returning' = Returning \ {c}
      BY <2>3 DEF CancelRestore, Held, Returning
    <3>3. Cardinality(Returning') = Cardinality(Returning) - 1
      BY <3>2, SeatsCountable, FS_RemoveElement
    <3> QED
      BY <1>0, <1>1, <1>3, <3>1, <3>2, <3>3, GivenBack DEF Seats
  <2> QED
    BY <1>7, <2>1, <2>2, <2>3 DEF CancelStep
<1>8. ASSUME NEW p \in Setter, InitStock(p) PROVE Seats' >= Capacity
  <2>1. p = Creator
    BY DEF Orderly, Setter
  <2>2. stock' = Capacity
    BY <1>0, <1>8, <2>1 DEF InitStock, Initialised, WriterInv
  <2> QED
    BY <1>0, <1>1, <2>2 DEF Seats
<1>9. ~Failure
  BY DEF Orderly, Failure, ApplyFails, ApplyCrash, JobFails, JobRecoveryFails, JobStalls,
         CancelCrash, Fails
<1> QED
  BY <1>4, <1>5, <1>6, <1>7, <1>8, <1>9 DEF Next, Orderly

\* No seat disappears from Redis, whatever is refused, retried or cancelled.
THEOREM NoSeatLostHolds == ASSUME Orderly PROVE Spec => []NoSeatLost
<1>1. Init => WriterInv /\ NoSeatLost
  BY ReservationAssumption DEF Init, WriterInv, NoSeatLost, Setter
<1>2. TypeOK /\ RowInv /\ WriterInv /\ [Next]_vars => WriterInv'
  BY WriterStep
<1>3. /\ TypeOK /\ TypeOK' /\ RowInv /\ WriterInv /\ CountInv /\ CountInv' /\ NoSeatLost
      /\ [Next]_vars
      => NoSeatLost'
  BY SeatStep
<1> QED
  BY <1>1, <1>2, <1>3, TypeCorrect, OrderlyHolds, PTL DEF Spec
=============================================================================
