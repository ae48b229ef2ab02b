-------------------------- MODULE CamperPagesProofs --------------------------
(***************************************************************************)
(* What holds of a reminder, and of the pages of a camper, for any number  *)
(* of calls in any overlap.                                                *)
(*                                                                         *)
(* A step that leaves a reminder behind is often not the one to blame: the *)
(* message whose deletion failed is still named by the row until the same  *)
(* handler overwrites it.  So the proof counts the messages that are       *)
(* doomed, the orphans and those that a handler has passed over, and shows *)
(* that each step that dooms one is a failure or the end of a handler that *)
(* met another.                                                            *)
(*                                                                         *)
(* Of the pages it says what each is to follow: the bell the row or the    *)
(* answer it waits for, the list what it read of the table.                *)
(***************************************************************************)
EXTENDS CamperPages, FiniteSetTheorems, TLAPS

\* A handler went past the deletion of message m and still has to write.
PassedOver(m) ==
  \E h \in Handler : pc[h] \in {"schedule", "upsert", "delete"} /\ seen[h] = m

Doomed == {m \in scheduled : pc[m] # "upsert" /\ (m # row \/ PassedOver(m))}

\* A message is nowhere before its call has scheduled it, and neither in the
\* row nor in a handler before its call has written it.
Fresh ==
  \A c \in Call :
    /\ pc[c] \in {"idle", "read", "unschedule", "schedule"}
         => c \notin scheduled \cup sent
    /\ pc[c] \notin {"upsert", "done"} => row # c /\ \A h \in Handler : seen[h] # c
    /\ pc[c] = "upsert" =>
         /\ c \in scheduled \cup sent
         /\ row # c
         /\ \A h \in Handler : seen[h] # c

\* Two handlers that run have met.
Meet == \A g, h \in Running : g # h => g \in overlapped

\* Only a handler that met another finds a row other than the one it read.
Stale ==
  \A h \in Handler :
    pc[h] \in {"unschedule", "schedule", "upsert", "delete"} /\ row # NoMessage
      => row = seen[h] \/ h \in overlapped

\* When the event starts Slack has nothing left to send.
NothingLate == event \in {"started", "over"} => scheduled = {}

DoomedWithinCauses ==
  event # "deleted" => Cardinality(Doomed) <= failures + Cardinality(Collided)

Inv == TypeOK /\ Fresh /\ Meet /\ Stale /\ NothingLate
-----------------------------------------------------------------------------
\* Every variable keeps its type, for every set of calls.
THEOREM TypeCorrect == Spec => []TypeOK
<1> USE HandlersDiffer DEF Handler, Message, Stage
<1>1. Init => TypeOK
  BY DEF Init, TypeOK
<1>2. TypeOK /\ [Next]_vars => TypeOK'
  <2> SUFFICES ASSUME TypeOK, [Next]_vars PROVE TypeOK'
    OBVIOUS
  <2> USE DEF TypeOK, Go, Fail, stores
  <2>1. ASSUME NEW c \in Call, SetStep(c) PROVE TypeOK'
    <3>1. CASE SetCheck(c)         BY <3>1 DEF SetCheck, Arrive, Running
    <3>2. CASE SetRead(c)          BY <3>2 DEF SetRead
    <3>3. CASE SetDeleteOld(c)     BY <3>3 DEF SetDeleteOld, Unschedule
    <3>4. CASE SetSchedule(c)      BY <3>4 DEF SetSchedule
    <3>5. CASE SetScheduleFails(c) BY <3>5 DEF SetScheduleFails
    <3>6. CASE SetUpsert(c)        BY <3>6 DEF SetUpsert
    <3>7. CASE SetUpsertFails(c)   BY <3>7 DEF SetUpsertFails
    <3>8. QED
      BY <2>1, <3>1, <3>2, <3>3, <3>4, <3>5, <3>6, <3>7 DEF SetStep
  <2>2. ASSUME NEW r \in Removal, DelStep(r) PROVE TypeOK'
    <3>1. CASE DelArrive(r)        BY <3>1 DEF DelArrive, Arrive, Running
    <3>2. CASE DelRead(r)          BY <3>2 DEF DelRead
    <3>3. CASE DelUnschedule(r)    BY <3>3 DEF DelUnschedule, Unschedule
    <3>4. CASE DelRow(r)           BY <3>4 DEF DelRow
    <3>5. CASE DelRowFails(r)      BY <3>5 DEF DelRowFails
    <3>6. QED                      BY <2>2, <3>1, <3>2, <3>3, <3>4, <3>5 DEF DelStep
  <2>3. ASSUME NEW h \in Handler, Crash(h) PROVE TypeOK'
    BY <2>3 DEF Crash
  <2>4. ASSUME NEW m \in Call, Send(m) PROVE TypeOK'
    BY <2>4 DEF Send
  <2>5. CASE Start        BY <2>5 DEF Start
  <2>6. CASE Cleanup      BY <2>6 DEF Cleanup
  <2>7. CASE DeleteEvent  BY <2>7 DEF DeleteEvent
  <2>8. CASE UNCHANGED vars
    BY <2>8 DEF vars
  <2>9. QED
    BY <2>1, <2>2, <2>3, <2>4, <2>5, <2>6, <2>7, <2>8 DEF Next
<1>3. QED
  BY <1>1, <1>2, PTL DEF Spec
-----------------------------------------------------------------------------
\* A handler that arrives meets all that run, and the others only leave.
LEMMA MeetStep == TypeOK /\ Meet /\ [Next]_vars => Meet'
<1> SUFFICES ASSUME TypeOK, Meet, [Next]_vars PROVE Meet'
  OBVIOUS
<1> USE DEF TypeOK, Meet, Running, Go, Handler
<1>1. ASSUME NEW h \in Handler, Arrive(h) PROVE Meet'
  BY <1>1 DEF Arrive
<1>2. ASSUME NEW h \in Handler, h \in Running, NEW stage, pc' = [pc EXCEPT ![h] = stage],
             UNCHANGED overlapped
      PROVE  Meet'
  BY <1>2
<1>3. ASSUME UNCHANGED <<pc, overlapped>> PROVE Meet'
  BY <1>3
<1>4. ASSUME NEW c \in Call, SetStep(c) PROVE Meet'
  BY <1>1, <1>2, <1>4 DEF SetStep, SetCheck, SetRead, SetDeleteOld, Unschedule,
     SetSchedule, SetScheduleFails, SetUpsert, SetUpsertFails
<1>5. ASSUME NEW r \in Removal, DelStep(r) PROVE Meet'
  BY <1>1, <1>2, <1>5 DEF DelStep, DelArrive, DelRead, DelUnschedule, Unschedule,
     DelRow, DelRowFails
<1>6. ASSUME NEW h \in Handler, Crash(h) PROVE Meet'
  BY <1>2, <1>6 DEF Crash
<1>7. QED
  BY <1>3, <1>4, <1>5, <1>6 DEF Next, vars, Send, Start, Cleanup, DeleteEvent
-----------------------------------------------------------------------------
\* Only a call's own steps carry its message from Slack to the row, and others
\* read it nowhere before.
LEMMA FreshStep == TypeOK /\ Fresh /\ [Next]_vars => Fresh'
<1> SUFFICES ASSUME TypeOK, Fresh, [Next]_vars PROVE Fresh'
  OBVIOUS
<1> USE HandlersDiffer DEF TypeOK, Fresh, Go, Handler, Message, stores, Fail
<1>1. ASSUME NEW c \in Call, SetStep(c) PROVE Fresh'
  <2>1. CASE SetCheck(c)         BY <2>1 DEF SetCheck, Arrive
  <2>2. CASE SetRead(c)          BY <2>2 DEF SetRead
  <2>3. CASE SetDeleteOld(c)     BY <2>3 DEF SetDeleteOld, Unschedule
  <2>4. CASE SetSchedule(c)      BY <2>4 DEF SetSchedule
  <2>5. CASE SetScheduleFails(c) BY <2>5 DEF SetScheduleFails
  <2>6. CASE SetUpsert(c)        BY <2>6 DEF SetUpsert
  <2>7. CASE SetUpsertFails(c)   BY <2>7 DEF SetUpsertFails
  <2>8. QED
    BY <1>1, <2>1, <2>2, <2>3, <2>4, <2>5, <2>6, <2>7 DEF SetStep
<1>2. ASSUME NEW r \in Removal, DelStep(r) PROVE Fresh'
  <2>1. CASE DelArrive(r)        BY <2>1 DEF DelArrive, Arrive
  <2>2. CASE DelRead(r)          BY <2>2 DEF DelRead
  <2>3. CASE DelUnschedule(r)    BY <2>3 DEF DelUnschedule, Unschedule
  <2>4. CASE DelRow(r)           BY <2>4 DEF DelRow
  <2>5. CASE DelRowFails(r)      BY <2>5 DEF DelRowFails
  <2>6. QED                      BY <1>2, <2>1, <2>2, <2>3, <2>4, <2>5 DEF DelStep
<1>3. ASSUME NEW h \in Handler, Crash(h) PROVE Fresh'
  BY <1>3 DEF Crash
<1>4. ASSUME NEW m \in Call, Send(m) PROVE Fresh'
  BY <1>4 DEF Send
<1>5. CASE Start        BY <1>5 DEF Start
<1>6. CASE Cleanup      BY <1>6 DEF Cleanup
<1>7. CASE DeleteEvent  BY <1>7 DEF DeleteEvent
<1>8. CASE UNCHANGED vars
  BY <1>8 DEF vars
<1>9. QED
  BY <1>1, <1>2, <1>3, <1>4, <1>5, <1>6, <1>7, <1>8 DEF Next
-----------------------------------------------------------------------------
\* Who writes the row while another handler runs has met that handler.
LEMMA StaleStep == TypeOK /\ Meet /\ Stale /\ [Next]_vars => Stale'
<1> SUFFICES ASSUME TypeOK, Meet, Stale, [Next]_vars PROVE Stale'
  OBVIOUS
<1> USE HandlersDiffer DEF TypeOK, Stale, Go, Handler, Message, stores, Fail
<1>1. ASSUME NEW c \in Call, SetStep(c) PROVE Stale'
  <2>1. CASE SetCheck(c)         BY <2>1 DEF SetCheck, Arrive
  <2>2. CASE SetRead(c)          BY <2>2 DEF SetRead
  <2>3. CASE SetDeleteOld(c)     BY <2>3 DEF SetDeleteOld, Unschedule
  <2>4. CASE SetSchedule(c)      BY <2>4 DEF SetSchedule
  <2>5. CASE SetScheduleFails(c) BY <2>5 DEF SetScheduleFails
  <2>6. CASE SetUpsert(c)        BY <2>6 DEF SetUpsert, Meet, Running
  <2>7. CASE SetUpsertFails(c)   BY <2>7 DEF SetUpsertFails
  <2>8. QED
    BY <1>1, <2>1, <2>2, <2>3, <2>4, <2>5, <2>6, <2>7 DEF SetStep
<1>2. ASSUME NEW r \in Removal, DelStep(r) PROVE Stale'
  <2>1. CASE DelArrive(r)        BY <2>1 DEF DelArrive, Arrive
  <2>2. CASE DelRead(r)          BY <2>2 DEF DelRead
  <2>3. CASE DelUnschedule(r)    BY <2>3 DEF DelUnschedule, Unschedule
  <2>4. CASE DelRow(r)           BY <2>4 DEF DelRow
  <2>5. CASE DelRowFails(r)      BY <2>5 DEF DelRowFails
  <2>6. QED                      BY <1>2, <2>1, <2>2, <2>3, <2>4, <2>5 DEF DelStep
<1>3. ASSUME NEW h \in Handler, Crash(h) PROVE Stale'
  BY <1>3 DEF Crash
<1>4. ASSUME NEW m \in Call, Send(m) PROVE Stale'
  BY <1>4 DEF Send
<1>5. CASE Start        BY <1>5 DEF Start
<1>6. CASE Cleanup      BY <1>6 DEF Cleanup
<1>7. CASE DeleteEvent  BY <1>7 DEF DeleteEvent
<1>8. CASE UNCHANGED vars
  BY <1>8 DEF vars
<1>9. QED
  BY <1>1, <1>2, <1>3, <1>4, <1>5, <1>6, <1>7, <1>8 DEF Next

\* Nothing is scheduled once the event has started.
LEMMA NothingLateStep == NothingLate /\ [Next]_vars => NothingLate'
<1> SUFFICES ASSUME NothingLate, [Next]_vars PROVE NothingLate'
  OBVIOUS
<1> USE DEF NothingLate, stores
<1>1. ASSUME NEW c \in Call, SetStep(c) PROVE NothingLate'
  BY <1>1 DEF SetStep, SetCheck, Arrive, SetRead, SetDeleteOld, Unschedule, SetSchedule,
     SetScheduleFails, SetUpsert, SetUpsertFails
<1>2. ASSUME NEW r \in Removal, DelStep(r) PROVE NothingLate'
  BY <1>2 DEF DelStep, DelArrive, Arrive, DelRead, DelUnschedule, Unschedule, DelRow,
     DelRowFails
<1>3. QED
  BY <1>1, <1>2 DEF Next, vars, Crash, Send, Start, Cleanup, DeleteEvent

LEMMA InvHolds == Spec => []Inv
<1>1. Init => Inv
  BY HandlersDiffer
  DEF Init, Inv, TypeOK, Fresh, Meet, Running, Stale, NothingLate, Handler, Message, Stage
<1>2. Inv /\ [Next]_vars => (Fresh /\ Meet /\ Stale /\ NothingLate)'
  BY FreshStep, MeetStep, StaleStep, NothingLateStep DEF Inv
<1>3. QED
  BY <1>1, <1>2, TypeCorrect, PTL DEF Spec, Inv
-----------------------------------------------------------------------------
\* The three ways in which the bound lasts: nothing more is doomed, ...
LEMMA NoneDoomed ==
  ASSUME NEW D, NEW E, NEW C, NEW F, NEW m \in Nat, NEW n \in Nat,
         IsFiniteSet(D), IsFiniteSet(F), Cardinality(D) <= m + Cardinality(C),
         E \subseteq D, C \subseteq F, m <= n
  PROVE  Cardinality(E) <= n + Cardinality(F)
<1>1. Cardinality(E) <= Cardinality(D) /\ Cardinality(C) <= Cardinality(F) /\ IsFiniteSet(E) /\ IsFiniteSet(C)
  BY FS_Subset
<1>2. /\ Cardinality(E) \in Nat /\ Cardinality(D) \in Nat
      /\ Cardinality(C) \in Nat /\ Cardinality(F) \in Nat
  BY <1>1, FS_CardinalityType
<1>3. QED
  BY <1>1, <1>2

\* ... or one message is, by a failure, ...
LEMMA DoomedByFailure ==
  ASSUME NEW D, NEW E, NEW C, NEW F, NEW m \in Nat, NEW x,
         IsFiniteSet(D), IsFiniteSet(F), Cardinality(D) <= m + Cardinality(C),
         E \subseteq D \cup {x}, C \subseteq F
  PROVE  Cardinality(E) <= (m + 1) + Cardinality(F)
<1>1. IsFiniteSet(D \cup {x}) /\ Cardinality(D \cup {x}) <= Cardinality(D) + 1
  BY FS_AddElement, FS_CardinalityType
<1>2. Cardinality(E) <= Cardinality(D \cup {x}) /\ IsFiniteSet(E)
  BY <1>1, FS_Subset
<1>3. Cardinality(C) <= Cardinality(F) /\ IsFiniteSet(C)
  BY FS_Subset
<1>4. /\ Cardinality(E) \in Nat /\ Cardinality(D) \in Nat /\ Cardinality(D \cup {x}) \in Nat
      /\ Cardinality(C) \in Nat /\ Cardinality(F) \in Nat
  BY <1>1, <1>2, <1>3, FS_CardinalityType
<1>5. QED
  BY <1>1, <1>2, <1>3, <1>4

\* ... or by a handler that ends after it met another.
LEMMA DoomedByMeeting ==
  ASSUME NEW D, NEW E, NEW C, NEW F, NEW m \in Nat, NEW x, NEW h,
         IsFiniteSet(D), IsFiniteSet(F), Cardinality(D) <= m + Cardinality(C),
         E \subseteq D \cup {x}, C \subseteq F \ {h}, h \in F
  PROVE  Cardinality(E) <= m + Cardinality(F)
<1>1. IsFiniteSet(F \ {h}) /\ Cardinality(F \ {h}) = Cardinality(F) - 1
  BY FS_RemoveElement
<1>2. Cardinality(E) <= (m + 1) + Cardinality(F \ {h})
  BY <1>1, DoomedByFailure
<1>3. Cardinality(F) \in Nat
  BY FS_CardinalityType
<1>4. QED
  BY <1>1, <1>2, <1>3

\* The messages and the handlers are finitely many, whatever the state.
LEMMA Finite ==
  TypeOK => IsFiniteSet(Doomed) /\ IsFiniteSet(Collided) /\ IsFiniteSet(Orphans)
<1> SUFFICES ASSUME TypeOK
             PROVE  IsFiniteSet(Doomed) /\ IsFiniteSet(Collided) /\ IsFiniteSet(Orphans)
  OBVIOUS
<1>1. IsFiniteSet(Handler)
  BY RemindersAreFinite, FS_Union DEF Handler
<1>2. Doomed \subseteq Call /\ Orphans \subseteq Call /\ Collided \subseteq Handler
  BY DEF TypeOK, Doomed, Orphans, Collided
<1>3. QED
  BY <1>1, <1>2, RemindersAreFinite, FS_Subset

\* The bound on what is doomed survives every step.
LEMMA CountStep ==
  ASSUME Inv, Inv', DoomedWithinCauses, [Next]_vars
  PROVE  DoomedWithinCauses'
<1> USE HandlersDiffer DEF Inv, TypeOK, Handler, Message, Go, Fail, stores
<1> DEFINE NoMore == /\ Doomed' \subseteq Doomed
                     /\ Collided \subseteq Collided'
                     /\ failures <= failures'
           OneFailed == \E x : /\ Doomed' \subseteq Doomed \cup {x}
                               /\ Collided \subseteq Collided'
                               /\ failures' = failures + 1
           OneMet == \E x, h : /\ Doomed' \subseteq Doomed \cup {x}
                               /\ Collided \subseteq Collided' \ {h}
                               /\ h \in Collided'
                               /\ failures' = failures
<1>1. ASSUME event' # "deleted" PROVE NoMore \/ OneFailed \/ OneMet
  <2> USE DEF Doomed, PassedOver, Collided
  <2>1. ASSUME NEW c \in Call, SetStep(c) PROVE NoMore \/ OneFailed \/ OneMet
    <3>1. CASE SetCheck(c)
      BY <3>1 DEF SetCheck, Arrive, Running
    <3>2. CASE SetRead(c)
      BY <3>2 DEF SetRead
    <3>3. CASE SetDeleteOld(c)
      <4>1. CASE UNCHANGED failures
        <5>1. scheduled' = scheduled \ {seen[c]} \/ seen[c] \in scheduled
          BY <3>3, <4>1 DEF SetDeleteOld, Unschedule
        <5>2. QED BY <3>3, <4>1, <5>1 DEF SetDeleteOld, Unschedule
      <4>2. CASE failures' = failures + 1
        <5>1. Doomed' \subseteq Doomed \cup {seen[c]}
          BY <3>3, <4>2 DEF SetDeleteOld, Unschedule
        <5>2. QED BY <3>3, <4>2, <5>1 DEF SetDeleteOld, Unschedule
      <4>3. QED BY <3>3, <4>1, <4>2 DEF SetDeleteOld, Unschedule
    <3>4. CASE SetSchedule(c)
      BY <3>4 DEF SetSchedule
    <3>5. CASE SetScheduleFails(c)
      <4>1. Doomed' \subseteq Doomed \cup {c}
        BY <3>5 DEF SetScheduleFails
      <4>2. QED BY <3>5, <4>1 DEF SetScheduleFails
    <3>6. CASE SetUpsert(c)
      <4>1. CASE row = seen[c] \/ row = NoMessage
        BY <3>6, <4>1 DEF SetUpsert, Fresh
      <4>2. CASE row # seen[c] /\ row # NoMessage
        <5>1. c \in overlapped
          BY <3>6, <4>2 DEF SetUpsert, Stale
        <5>2. Doomed' \subseteq Doomed \cup {row}
          BY <3>6 DEF SetUpsert, Fresh
        <5>3. QED BY <3>6, <5>1, <5>2 DEF SetUpsert
      <4>3. QED BY <4>1, <4>2
    <3>7. CASE SetUpsertFails(c)
      <4>1. Doomed' \subseteq Doomed \cup {c}
        BY <3>7 DEF SetUpsertFails
      <4>2. QED BY <3>7, <4>1 DEF SetUpsertFails
    <3>8. QED
      BY <2>1, <3>1, <3>2, <3>3, <3>4, <3>5, <3>6, <3>7 DEF SetStep
  <2>2. ASSUME NEW r \in Removal, DelStep(r) PROVE NoMore \/ OneFailed \/ OneMet
    <3>1. CASE DelArrive(r)
      BY <3>1 DEF DelArrive, Arrive, Running
    <3>2. CASE DelRead(r)
      BY <3>2 DEF DelRead
    <3>3. CASE DelUnschedule(r)
      <4>1. CASE UNCHANGED failures
        BY <3>3, <4>1 DEF DelUnschedule, Unschedule
      <4>2. CASE failures' = failures + 1
        <5>1. Doomed' \subseteq Doomed \cup {seen[r]}
          BY <3>3, <4>2 DEF DelUnschedule, Unschedule
        <5>2. QED BY <3>3, <4>2, <5>1 DEF DelUnschedule, Unschedule
      <4>3. QED BY <3>3, <4>1, <4>2 DEF DelUnschedule, Unschedule
    <3>4. CASE DelRow(r)
      <4>1. CASE row = seen[r] \/ row = NoMessage
        BY <3>4, <4>1 DEF DelRow
      <4>2. CASE row # seen[r] /\ row # NoMessage
        <5>1. r \in overlapped
          BY <3>4, <4>2 DEF DelRow, Stale
        <5>2. Doomed' \subseteq Doomed \cup {row}
          BY <3>4 DEF DelRow
        <5>3. QED BY <3>4, <5>1, <5>2 DEF DelRow
      <4>3. QED BY <4>1, <4>2
    <3>5. CASE DelRowFails(r)
      BY <3>5 DEF DelRowFails
    <3>6. QED
      BY <2>2, <3>1, <3>2, <3>3, <3>4, <3>5 DEF DelStep
  <2>3. ASSUME NEW h \in Handler, Crash(h) PROVE NoMore \/ OneFailed \/ OneMet
    <3>1. Doomed' \subseteq Doomed \cup {h}
      BY <2>3 DEF Crash
    <3>2. QED BY <2>3, <3>1 DEF Crash, Running
  <2>4. ASSUME NEW m \in Call, Send(m) PROVE NoMore \/ OneFailed \/ OneMet
    BY <2>4 DEF Send
  <2>5. CASE Start        BY <2>5 DEF Start
  <2>6. CASE Cleanup      BY <2>6 DEF Cleanup, NothingLate
  <2>7. CASE DeleteEvent  BY <1>1, <2>7 DEF DeleteEvent
  <2>8. CASE UNCHANGED vars
    BY <2>8 DEF vars
  <2>9. QED
    BY <2>1, <2>2, <2>3, <2>4, <2>5, <2>6, <2>7, <2>8 DEF Next
<1>2. event' # "deleted" => event # "deleted"
  BY DEF Next, SetStep, SetCheck, Arrive, SetRead, SetDeleteOld, Unschedule, SetSchedule,
     SetScheduleFails, SetUpsert, SetUpsertFails, DelStep, DelArrive, DelRead,
     DelUnschedule, DelRow, DelRowFails, Crash, Send, Start, Cleanup, DeleteEvent, vars
<1>3. IsFiniteSet(Doomed) /\ IsFiniteSet(Collided)
  BY Finite
<1>4. IsFiniteSet(Collided')
  <2>1. (TypeOK => IsFiniteSet(Collided))'
    BY Finite, PTL
  <2>2. QED
    BY <2>1
<1>5. failures \in Nat /\ failures' \in Nat
  OBVIOUS
<1>6. ASSUME event' # "deleted"
      PROVE  Cardinality(Doomed') <= failures' + Cardinality(Collided')
  <2>1. Cardinality(Doomed) <= failures + Cardinality(Collided)
    BY <1>2, <1>6 DEF DoomedWithinCauses
  <2>2. CASE NoMore
    BY <1>3, <1>4, <1>5, <2>1, <2>2, NoneDoomed
  <2>3. CASE OneFailed
    BY <1>3, <1>4, <1>5, <2>1, <2>3, DoomedByFailure
  <2>4. CASE OneMet
    BY <1>3, <1>4, <1>5, <2>1, <2>4, DoomedByMeeting
  <2>5. QED
    BY <1>1, <1>6, <2>2, <2>3, <2>4
<1>7. QED
  BY <1>6 DEF DoomedWithinCauses

\* Whatever fails, is cut short or overlaps, the reminders that nobody can
\* cancel any more are no more than the failures and the handlers that met.
THEOREM OrphansWithinCausesHolds == Spec => []OrphansWithinCauses
<1>1. Init => DoomedWithinCauses
  <2> SUFFICES ASSUME Init PROVE DoomedWithinCauses
    OBVIOUS
  <2>1. Doomed = {} /\ Collided = {} /\ failures = 0
    BY DEF Init, Doomed, Collided
  <2>2. QED
    BY <2>1, FS_EmptySet DEF DoomedWithinCauses
<1>2. Inv /\ Inv' /\ DoomedWithinCauses /\ [Next]_vars => DoomedWithinCauses'
  BY CountStep
<1>3. Inv /\ DoomedWithinCauses => OrphansWithinCauses
  <2> SUFFICES ASSUME Inv, DoomedWithinCauses, event # "deleted"
               PROVE  Cardinality(Orphans) <= failures + Cardinality(Collided)
    BY DEF OrphansWithinCauses
  <2>1. Orphans \subseteq Doomed
    BY DEF Orphans, Doomed
  <2>2. IsFiniteSet(Doomed) /\ IsFiniteSet(Collided) /\ failures \in Nat
    BY Finite DEF Inv, TypeOK
  <2>3. QED
    BY <2>1, <2>2, NoneDoomed DEF DoomedWithinCauses
<1>4. QED
  BY <1>1, <1>2, <1>3, InvHolds, PTL DEF Spec
-----------------------------------------------------------------------------
\* Without failures and without handlers that meet, a row that names a message
\* keeps the promise: Slack holds the message or has sent it.
THEOREM RowNamesReminderHolds == Spec => []RowNamesReminder
<1>1. Init => RowNamesReminder
  BY DEF Init, RowNamesReminder
<1>2. Inv /\ RowNamesReminder /\ [Next]_vars => RowNamesReminder'
  <2> SUFFICES ASSUME Inv, RowNamesReminder, [Next]_vars PROVE RowNamesReminder'
    OBVIOUS
  <2> USE HandlersDiffer
      DEF Inv, TypeOK, Handler, Message, Go, Fail, stores, RowNamesReminder, Running
  <2>1. ASSUME NEW c \in Call, SetStep(c) PROVE RowNamesReminder'
    <3>1. CASE SetCheck(c)         BY <3>1 DEF SetCheck, Arrive
    <3>2. CASE SetRead(c)          BY <3>2 DEF SetRead
    <3>3. CASE SetDeleteOld(c)     BY <3>3 DEF SetDeleteOld, Unschedule
    <3>4. CASE SetSchedule(c)      BY <3>4 DEF SetSchedule
    <3>5. CASE SetScheduleFails(c) BY <3>5 DEF SetScheduleFails
    <3>6. CASE SetUpsert(c)        BY <3>6 DEF SetUpsert, Fresh
    <3>7. CASE SetUpsertFails(c)   BY <3>7 DEF SetUpsertFails
    <3>8. QED
      BY <2>1, <3>1, <3>2, <3>3, <3>4, <3>5, <3>6, <3>7 DEF SetStep
  <2>2. ASSUME NEW r \in Removal, DelStep(r) PROVE RowNamesReminder'
    <3>1. CASE DelArrive(r)        BY <3>1 DEF DelArrive, Arrive
    <3>2. CASE DelRead(r)          BY <3>2 DEF DelRead
    <3>3. CASE DelUnschedule(r)    BY <3>3 DEF DelUnschedule, Unschedule
    <3>4. CASE DelRow(r)           BY <3>4 DEF DelRow
    <3>5. CASE DelRowFails(r)      BY <3>5 DEF DelRowFails
    <3>6. QED                      BY <2>2, <3>1, <3>2, <3>3, <3>4, <3>5 DEF DelStep
  <2>3. ASSUME NEW h \in Handler, Crash(h) PROVE RowNamesReminder'
    BY <2>3 DEF Crash
  <2>4. ASSUME NEW m \in Call, Send(m) PROVE RowNamesReminder'
    BY <2>4 DEF Send
  <2>5. CASE Start        BY <2>5 DEF Start
  <2>6. CASE Cleanup      BY <2>6 DEF Cleanup
  <2>7. CASE DeleteEvent  BY <2>7 DEF DeleteEvent
  <2>8. CASE UNCHANGED vars
    BY <2>8 DEF vars
  <2>9. QED
    BY <2>1, <2>2, <2>3, <2>4, <2>5, <2>6, <2>7, <2>8 DEF Next
<1>3. QED
  BY <1>1, <1>2, InvHolds, PTL DEF Spec
-----------------------------------------------------------------------------
(* The card of an event. *)

\* What the bell is to follow: the row, and while answers wait to be shown, what the
\* one of them says that took effect last; and nobody but the card's own calls is at work.
BellFollows ==
  /\ card.at # "shown" => \A h \in Handler : calls[h] = "none"
  /\ \A h \in Handler : calls[h] \in {"ok", "error"} => pc[h] = "done"
  /\ newest # NoHandler => calls[newest] = "ok"
  /\ ~untold /\ card.at = "read" => Running = {} /\ (card.row <=> row # NoMessage)
  /\ ~untold /\ card.at = "shown" =>
       /\ \A h \in Running : calls[h] = "sent"
       /\ (IF newest = NoHandler THEN bell ELSE newest \in Call) <=> row # NoMessage

CardInv == TypeOK /\ CardTypeOK /\ BellFollows

\* Each step of the pages is a step of the reminder or leaves it alone.
LEMMA PagesStepReminder == [PagesNext]_pageVars => [Next]_vars
<1>1. ASSUME NEW h \in Handler, Arrives(h) PROVE Next
  BY <1>1 DEF Arrives, Next, SetStep, DelStep
<1>2. ASSUME NEW h \in Handler, HandlerStep(h) PROVE Next
  BY <1>2 DEF HandlerStep, Next, SetStep, DelStep
<1>3. Around => Next
  BY DEF Around, Next
<1>4. CardOpen \/ CardRead \/ CardShow \/ (\E h \in Handler : CardAnswer(h)) => UNCHANGED vars
  BY DEF CardOpen, CardRead, CardShow, CardAnswer, AnswerShown
<1>5. QED
  BY <1>1, <1>2, <1>3, <1>4 DEF PagesNext, CardNext, pageVars

\* The pages implement the reminder: they call it, and add nothing to what it does.
THEOREM PagesImplementReminder == PagesSpec => Spec
<1>1. PagesInit => Init
  BY DEF PagesInit
<1>2. QED
  BY <1>1, PagesStepReminder, PTL DEF PagesSpec, Spec

\* A handler that takes a step runs before it; others rest where they are, and the
\* row changes only with the write that ends a handler.
LEMMA HandlerSteps ==
  ASSUME TypeOK, NEW h \in Handler, HandlerStep(h)
  PROVE  /\ h \in Running
         /\ \E stage \in Stage : pc' = [pc EXCEPT ![h] = stage] /\ stage # "idle"
         /\ pc'[h] # "done" => row' = row
         /\ pc'[h] = "done" /\ Succeeded(h) => (h \in Call <=> row' # NoMessage)
         /\ pc'[h] = "done" /\ ~Succeeded(h) => row' = row
<1> USE DEF Go, Running, Stage
<1>0. pc \in [Handler -> Stage] /\ failures \in Nat /\ row \in Message /\ Call \cap Removal = {}
      /\ NoMessage \notin Handler /\ failures + 1 # failures
  BY HandlersDiffer DEF TypeOK
<1>1. CASE h \in Call /\ SetRead(h)
  BY <1>0, <1>1 DEF SetRead, stores
<1>2. CASE h \in Call /\ SetDeleteOld(h)
  BY <1>0, <1>2 DEF SetDeleteOld, Unschedule
<1>3. CASE h \in Call /\ SetSchedule(h)
  BY <1>0, <1>3 DEF SetSchedule
<1>4. CASE h \in Call /\ SetScheduleFails(h)
  BY <1>0, <1>4 DEF SetScheduleFails, Succeeded, Fail
<1>5. CASE h \in Call /\ SetUpsert(h)
  BY <1>0, <1>5 DEF SetUpsert, Succeeded, Handler
<1>6. CASE h \in Call /\ SetUpsertFails(h)
  BY <1>0, <1>6 DEF SetUpsertFails, Succeeded, Fail, stores
<1>7. CASE h \in Removal /\ DelRead(h)
  BY <1>0, <1>7 DEF DelRead, Succeeded, stores
<1>8. CASE h \in Removal /\ DelUnschedule(h)
  BY <1>0, <1>8 DEF DelUnschedule, Unschedule
<1>9. CASE h \in Removal /\ DelRow(h)
  BY <1>0, <1>9 DEF DelRow, Succeeded
<1>10. CASE h \in Removal /\ DelRowFails(h)
  BY <1>0, <1>10 DEF DelRowFails, Succeeded, Fail, stores
<1>11. CASE Crash(h)
  BY <1>0, <1>11 DEF Crash, Succeeded, Fail, stores
<1>12. QED
  BY <1>1, <1>2, <1>3, <1>4, <1>5, <1>6, <1>7, <1>8, <1>9, <1>10, <1>11 DEF HandlerStep

\* A handler that arrives is one more that runs, and leaves the row.
LEMMA ArrivalRuns ==
  ASSUME TypeOK, NEW h \in Handler, Arrive(h)
  PROVE  Running' = Running \cup {h} /\ row' = row
<1>1. pc' = [pc EXCEPT ![h] = "read"] /\ pc \in [Handler -> Stage] /\ row' = row
  BY DEF Arrive, Go, stores, TypeOK
<1>2. QED
  BY <1>1 DEF Running

LEMMA CardTypeStep == CardTypeOK /\ CardNext => CardTypeOK'
<1> SUFFICES ASSUME CardTypeOK, CardNext PROVE CardTypeOK'
  OBVIOUS
<1> USE DEF CardTypeOK
<1>1. ASSUME NEW what \in {"visits", "mine", "others"}, Pay(what)
      PROVE  cardActs' \in [visits : Nat, mine : Nat, others : Nat]
  BY <1>1 DEF Pay
<1>2. CASE CardOpen
  <2>1. card' = [at |-> "asked", row |-> FALSE, upcoming |-> FALSE]
    BY <1>2 DEF CardOpen, Closed
  <2>2. card' \in [at : {"closed", "asked", "read", "shown"}, row : BOOLEAN, upcoming : BOOLEAN]
    BY <2>1
  <2>3. /\ bell' = FALSE /\ calls' = Uncalled /\ loading' = FALSE /\ newest' = NoHandler
        /\ untold' = untold /\ Pay("visits")
    BY <1>2 DEF CardOpen
  <2>4. cardActs' \in [visits : Nat, mine : Nat, others : Nat]
    BY <1>1, <2>3
  <2>5. Uncalled \in [Handler -> {"none", "sent", "ok", "error"}]
    BY DEF Uncalled
  <2>6. QED
    BY <2>2, <2>3, <2>4, <2>5
<1>3. CASE CardRead
  BY <1>3 DEF CardRead
<1>4. CASE CardShow
  BY <1>4 DEF CardShow
<1>5. ASSUME NEW h \in Handler, CardAnswer(h) PROVE CardTypeOK'
  <2> DEFINE still == card.upcoming /\ event = "upcoming"
             rings == IF calls[h] = "ok" THEN h \in Call ELSE bell
             astray == untold \/ (calls[h] = "ok" /\ newest = NoHandler)
  <2>1. /\ card' = [card EXCEPT !.upcoming = still] /\ bell' = rings /\ loading' = FALSE
        /\ calls' = [calls EXCEPT ![h] = "none"] /\ untold' = astray /\ UNCHANGED cardActs
        /\ newest' = IF h = newest THEN NoHandler ELSE newest
    BY <1>5 DEF CardAnswer, AnswerShown
  <2>2. still \in BOOLEAN
    BY Zenon
  <2>3. rings \in BOOLEAN
    <3>1. CASE calls[h] = "ok" /\ h \in Call
      BY <3>1
    <3>2. CASE calls[h] = "ok" /\ h \notin Call
      BY <3>2
    <3>3. CASE calls[h] # "ok"
      BY <3>3
    <3>4. QED
      BY <3>1, <3>2, <3>3
  <2>4. astray \in BOOLEAN
    BY Zenon
  <2> HIDE DEF still, rings, astray
  <2>5. card' \in [at : {"closed", "asked", "read", "shown"}, row : BOOLEAN, upcoming : BOOLEAN]
    BY <2>1, <2>2
  <2>6. QED
    BY <2>1, <2>3, <2>4, <2>5
<1>6. ASSUME NEW h \in Handler, Arrives(h) PROVE CardTypeOK'
  BY <1>1, <1>6 DEF Arrives, CardArrives, OtherArrives
<1>7. ASSUME NEW h \in Handler, HandlerStep(h) PROVE CardTypeOK'
  BY <1>7 DEF HandlerStep, Answered, cardVars
<1>8. CASE Around
  BY <1>8 DEF Around
<1>9. QED
  BY <1>2, <1>3, <1>4, <1>5, <1>6, <1>7, <1>8 DEF CardNext

LEMMA BellFollowsStep == TypeOK /\ CardTypeOK /\ BellFollows /\ CardNext => BellFollows'
<1> SUFFICES ASSUME TypeOK, CardTypeOK, BellFollows, CardNext PROVE BellFollows'
  OBVIOUS
<1>0. /\ newest \in Handler \cup {NoHandler} /\ NoHandler \notin Handler /\ Call \cap Removal = {}
      /\ calls \in [Handler -> {"none", "sent", "ok", "error"}] /\ bell \in BOOLEAN /\ untold \in BOOLEAN
      /\ card \in [at : {"closed", "asked", "read", "shown"}, row : BOOLEAN, upcoming : BOOLEAN]
      /\ Call \subseteq Handler /\ Running \subseteq Handler
  BY NoHandlerIsNone, HandlersDiffer DEF CardTypeOK, Handler, Running
<1>1. UNCHANGED pc => Running' = Running
  BY DEF Running
<1>2. CASE CardOpen
  BY <1>2 DEF CardOpen, Closed, Uncalled, BellFollows
<1>3. CASE CardRead
  BY <1>0, <1>1, <1>3 DEF CardRead, BellFollows, vars, stores
<1>4. CASE CardShow
  <2>1. card' = [card EXCEPT !.at = "shown"] /\ card'.at = "shown"
    BY <1>0, <1>4 DEF CardShow
  <2>2. /\ UNCHANGED <<pc, row, calls, newest, untold>> /\ bell' = card.row /\ card.at = "read"
    BY <1>4 DEF CardShow, vars, stores
  <2>3. newest = NoHandler
    BY <1>0, <2>2 DEF BellFollows
  <2>4. QED
    BY <1>0, <1>1, <2>1, <2>2, <2>3 DEF BellFollows
<1>5. ASSUME NEW h \in Handler, CardAnswer(h) PROVE BellFollows'
  <2>1. card'.at = card.at
    BY <1>0, <1>5 DEF CardAnswer, AnswerShown
  <2>2. /\ UNCHANGED <<pc, row>> /\ calls[h] \in {"ok", "error"}
        /\ calls' = [calls EXCEPT ![h] = "none"]
        /\ bell' = (IF calls[h] = "ok" THEN h \in Call ELSE bell)
        /\ newest' = (IF h = newest THEN NoHandler ELSE newest)
        /\ untold' = (untold \/ (calls[h] = "ok" /\ newest = NoHandler))
    BY <1>5 DEF CardAnswer, AnswerShown, vars, stores
  <2>3. card.at = "shown" /\ calls'[h] = "none"
    BY <1>0, <2>2 DEF BellFollows
  <2>4. \A g \in Handler : g # h => calls'[g] = calls[g]
    BY <1>0, <2>2
  <2>5. newest' # NoHandler => newest' = newest /\ newest # h
    BY <2>2
  <2>6. h \notin Running
    BY <2>2 DEF BellFollows, Running
  <2>7. ~untold' => ((IF newest' = NoHandler THEN bell' ELSE newest' \in Call) <=> row # NoMessage)
    <3>1. CASE calls[h] = "ok"
      BY <1>0, <2>2, <2>3, <3>1 DEF BellFollows
    <3>2. CASE calls[h] = "error"
      BY <1>0, <2>2, <2>3, <3>2 DEF BellFollows
    <3>3. QED
      BY <2>2, <3>1, <3>2
  <2>8. ~untold' => \A g \in Running : calls'[g] = "sent"
    BY <1>0, <2>2, <2>3, <2>4, <2>6 DEF BellFollows
  <2>9. /\ \A g \in Handler : calls'[g] \in {"ok", "error"} => pc'[g] = "done"
        /\ newest' # NoHandler => calls'[newest'] = "ok"
    BY <1>0, <2>2, <2>3, <2>4, <2>5 DEF BellFollows
  <2>10. QED
    BY <1>0, <1>1, <2>1, <2>2, <2>3, <2>7, <2>8, <2>9 DEF BellFollows
<1>6. ASSUME NEW h \in Handler, Arrives(h) PROVE BellFollows'
  <2>1. Running' = Running \cup {h} /\ row' = row
    BY <1>6, ArrivalRuns DEF Arrives, SetCheck, DelArrive
  <2>2. pc[h] = "idle" /\ pc' = [pc EXCEPT ![h] = "read"]
    BY <1>6 DEF Arrives, SetCheck, DelArrive, Arrive, Go
  <2>3. /\ calls[h] \notin {"ok", "error"}
        /\ \A g \in Handler : g # h => pc'[g] = pc[g]
    BY <1>0, <2>2 DEF BellFollows
  <2>4. CASE CardArrives(h)
    <3>1. /\ card.at = "shown" /\ calls' = [calls EXCEPT ![h] = "sent"] /\ calls'[h] = "sent"
          /\ UNCHANGED <<card, bell, newest, untold>> /\ \A g \in Handler : g # h => calls'[g] = calls[g]
      BY <1>0, <2>4 DEF CardArrives
    <3>2. newest # NoHandler => newest # h
      BY <1>0, <2>3 DEF BellFollows
    <3>3. QED
      BY <1>0, <2>1, <2>3, <3>1, <3>2 DEF BellFollows
  <2>5. CASE OtherArrives
    BY <1>0, <2>1, <2>3, <2>5 DEF OtherArrives, BellFollows
  <2>6. QED
    BY <1>6, <2>4, <2>5 DEF Arrives
<1>7. ASSUME NEW h \in Handler, HandlerStep(h) PROVE BellFollows'
  <2>1. /\ h \in Running /\ pc \in [Handler -> Stage]
        /\ \E stage \in Stage : pc' = [pc EXCEPT ![h] = stage] /\ stage # "idle"
        /\ pc'[h] # "done" => row' = row
        /\ pc'[h] = "done" /\ Succeeded(h) => (h \in Call <=> row' # NoMessage)
        /\ pc'[h] = "done" /\ ~Succeeded(h) => row' = row
    BY <1>7, HandlerSteps DEF TypeOK
  <2>2. Running' = IF pc'[h] = "done" THEN Running \ {h} ELSE Running
    BY <2>1 DEF Running
  <2>3. /\ calls[h] \notin {"ok", "error"} /\ \A g \in Handler : g # h => pc'[g] = pc[g]
        /\ newest # h
    BY <1>0, <2>1 DEF BellFollows, Running
  <2>4. CASE calls[h] = "sent" /\ pc'[h] = "done"
    <3> DEFINE came == IF Succeeded(h) THEN "ok" ELSE "error"
    <3>1. /\ UNCHANGED <<card, bell>>
          /\ \/ /\ calls' = [calls EXCEPT ![h] = came]
                /\ newest' = (IF Succeeded(h) THEN h ELSE newest) /\ untold' = untold
             \/ calls' = [calls EXCEPT ![h] = "error"] /\ untold' = TRUE /\ newest' = newest
      BY <1>7, <2>4 DEF HandlerStep, Answered
    <3>2. card.at = "shown" /\ \A g \in Handler : g # h => calls'[g] = calls[g]
      BY <1>0, <2>4, <3>1 DEF BellFollows
    <3>3. CASE Succeeded(h) /\ untold' = untold /\ calls' = [calls EXCEPT ![h] = "ok"] /\ newest' = h
      <4>1. calls'[h] = "ok"
        BY <1>0, <3>3
      <4>2. QED
        BY <1>0, <2>1, <2>2, <2>3, <2>4, <3>1, <3>2, <3>3, <4>1 DEF BellFollows
    <3>4. CASE ~Succeeded(h) /\ untold' = untold /\ calls' = [calls EXCEPT ![h] = "error"] /\ newest' = newest
      <4>1. calls'[h] = "error"
        BY <1>0, <3>4
      <4>2. QED
        BY <1>0, <2>1, <2>2, <2>3, <2>4, <3>1, <3>2, <3>4, <4>1 DEF BellFollows
    <3>5. CASE untold' = TRUE /\ calls' = [calls EXCEPT ![h] = "error"] /\ newest' = newest
      <4>1. calls'[h] = "error"
        BY <1>0, <3>5
      <4>2. QED
        BY <1>0, <2>1, <2>2, <2>3, <2>4, <3>1, <3>2, <3>5, <4>1 DEF BellFollows
    <3>6. QED
      BY <3>1, <3>3, <3>4, <3>5
  <2>5. CASE ~(calls[h] = "sent" /\ pc'[h] = "done")
    <3>1. UNCHANGED cardVars
      BY <1>7, <2>5 DEF HandlerStep
    <3>2. QED
      BY <1>0, <2>1, <2>2, <2>3, <2>5, <3>1 DEF BellFollows, cardVars
  <2>6. QED
    BY <2>4, <2>5
<1>8. CASE Around
  <2>1. UNCHANGED pc
    BY <1>8 DEF Around, Send, Start, Cleanup, DeleteEvent
  <2>2. /\ untold' = (untold \/ (row' # row /\ card.at # "asked"))
        /\ UNCHANGED <<card, bell, calls, newest>>
    BY <1>8 DEF Around
  <2>3. QED
    BY <1>0, <1>1, <2>1, <2>2 DEF BellFollows
<1>9. QED
  BY <1>2, <1>3, <1>4, <1>5, <1>6, <1>7, <1>8 DEF CardNext

LEMMA CardInvariant == PagesSpec => []CardInv
<1>1. PagesSpec => []TypeOK
  BY PagesImplementReminder, TypeCorrect, PTL
<1>2. PagesInit => CardTypeOK /\ BellFollows
  <2>1. ASSUME NEW s \in Sittings PROVE s.card \in [visits : Nat, mine : Nat, others : Nat]
    BY SittingsAreBounds
  <2>2. Closed \in [at : {"closed", "asked", "read", "shown"}, row : BOOLEAN, upcoming : BOOLEAN]
        /\ Closed.at = "closed"
    BY DEF Closed
  <2>3. SUFFICES ASSUME PagesInit PROVE CardTypeOK /\ BellFollows
    OBVIOUS
  <2>4. PICK s \in Sittings : CardInit(s.card)
    BY <2>3 DEF PagesInit
  <2>5. CardTypeOK
    BY <2>1, <2>2, <2>4 DEF CardInit, CardTypeOK, Uncalled
  <2>6. BellFollows
    BY <2>2, <2>4 DEF CardInit, BellFollows, Uncalled
  <2>7. QED
    BY <2>5, <2>6
<1>3. TypeOK /\ CardTypeOK /\ BellFollows /\ [PagesNext]_pageVars => (CardTypeOK /\ BellFollows)'
  <2>1. CardTypeOK /\ BellFollows /\ UNCHANGED <<vars, cardVars>> => (CardTypeOK /\ BellFollows)'
    BY DEF CardTypeOK, BellFollows, Running, vars, stores, cardVars
  <2>2. QED
    BY <2>1, CardTypeStep, BellFollowsStep DEF PagesNext, pageVars
<1>4. QED
  BY <1>1, <1>2, <1>3, PTL DEF PagesSpec, CardInv

\* However calls fail half-way, overlap, run late or run on behind a page that was
\* left, the bell of a card that has shown its answers is on exactly when a row says so,
\* unless an answer got lost or came after that of a call that took effect later, or
\* something else touched the row since the events were read.
THEOREM BellTells == PagesSpec => []BellTellsTheRow
<1>1. CardInv => BellTellsTheRow
  <2> SUFFICES ASSUME CardInv, card.at = "shown", calls = Uncalled, ~untold
                PROVE  bell <=> row # NoMessage
    BY DEF BellTellsTheRow
  <2>1. newest = NoHandler
    BY DEF CardInv, CardTypeOK, BellFollows, Uncalled
  <2>2. QED
    BY <2>1 DEF CardInv, BellFollows
<1>2. QED
  BY <1>1, CardInvariant, PTL
-----------------------------------------------------------------------------
(* The list of reservations. *)

\* The list says cancelled only of what is, or was until its job confirmed it; and
\* what the page read of the table is what the table has, but for the cancellation
\* that was answered and not yet shown.
ListFollows ==
  /\ \A b \in Booking : /\ fetch.data[b] \in {"none", "CONFIRMED"}
                        /\ shown[b] \in {"none", "CONFIRMED", "CANCELLED"}
                        /\ shown[b] = "CANCELLED" => status[b] = "CANCELLED" \/ b \in revived
  /\ fetch.at = "asked" => fetch.data = Nothing
  /\ fetch.at # "done" => target = NoBooking /\ cancel = Quiet
  /\ cancel.at # "answered" => ~cancel.ok
  /\ cancel.at # "none" => cancel.of \in Booking
  /\ cancel.ok => status[cancel.of] = "CANCELLED" \/ (cancel.of \in revived /\ apart)
  /\ ~apart => \A b \in Booking :
       /\ fetch.at = "own" => (fetch.data[b] = "CONFIRMED" <=> Of[b].mine /\ status[b] = "CONFIRMED")
       /\ fetch.at = "answered" => (fetch.data[b] = "CONFIRMED" <=> Listable(b) /\ status[b] = "CONFIRMED")
       /\ fetch.at = "done" /\ ~(cancel.ok /\ cancel.of = b)
            => (shown[b] = "CONFIRMED" <=> Listable(b) /\ status[b] = "CONFIRMED")

ListInv == ListTypeOK /\ ListFollows

LEMMA ListTypeStep == ListTypeOK /\ ListFollows /\ ListNext => ListTypeOK'
<1> SUFFICES ASSUME ListTypeOK, ListFollows, ListNext PROVE ListTypeOK'
  OBVIOUS
<1> USE DEF ListTypeOK, pageState, Rendered, worker
<1>0. /\ Nothing \in [Booking -> Status] /\ clock \in Nat /\ clock \in 0..clock /\ Horizon \in Nat
      /\ Quiet \in [at : {"none", "sent", "answered"}, of : Booking \cup {NoBooking}, ok : BOOLEAN]
  BY BookingsHaveEvents DEF Nothing, Status, Quiet
<1>1. ASSUME NEW who \in {"page", "elsewhere"}, Spend(who)
      PROVE  listActs' \in [page : Nat, elsewhere : Nat]
  BY <1>1 DEF Spend
<1>2. ASSUME NEW among PROVE Confirmed(among) \in [Booking -> Status]
  BY DEF Confirmed, Status
<1>3. CASE ListOwn
  <2>1. apart' \in BOOLEAN
    BY <1>3 DEF ListOwn
  <2>2. QED
    BY <1>2, <1>3, <2>1 DEF ListOwn
<1>4. CASE ListTeams
  BY <1>2, <1>4 DEF ListTeams
<1>5. CASE ListShow
  BY <1>0, <1>5 DEF ListShow
<1>6. CASE ListFails
  BY <1>0, <1>6 DEF ListFails
<1>7. ASSUME NEW b \in Booking, Click(b) PROVE ListTypeOK'
  BY <1>0, <1>1, <1>7 DEF Click
<1>8. CASE ViewModeToggle
  BY <1>0, <1>1, <1>8 DEF ViewModeToggle
<1>9. CASE CancelClose
  BY <1>0, <1>9 DEF CancelClose
<1>10. CASE CancelConfirm
  BY <1>0, <1>10 DEF CancelConfirm
<1>11. CASE CancelRow \/ CancelFails
  <2>1. cancel.at = "sent" /\ cancel.of \in Booking
    BY <1>11 DEF CancelRow, CancelFails, ListFollows
  <2>2. [status EXCEPT ![cancel.of] = "CANCELLED"] \in [Booking -> Status]
    BY <2>1 DEF Status
  <2>3. MayCancel(cancel.of) \in BOOLEAN
    BY DEF MayCancel
  <2>4. CASE CancelRow
    <3> DEFINE may == MayCancel(cancel.of)
    <3>1. /\ cancel' = [cancel EXCEPT !.at = "answered", !.ok = may] /\ status' \in [Booking -> Status]
          /\ UNCHANGED <<clock, fetch, shown, seenAt, viewMode, target, strays, listActs, apart, jobs, revived>>
      BY <2>2, <2>4 DEF CancelRow
    <3>2. may \in BOOLEAN
      BY <2>3
    <3> HIDE DEF may
    <3>3. QED
      BY <3>1, <3>2
  <2>5. CASE CancelFails
    <3>1. /\ cancel' = [cancel EXCEPT !.at = "answered", !.ok = FALSE] /\ status' \in [Booking -> Status]
          /\ UNCHANGED <<clock, fetch, shown, seenAt, viewMode, target, strays, jobs, revived>>
          /\ (apart' = apart \/ apart' = TRUE) /\ Spend("elsewhere")
      BY <2>2, <2>5 DEF CancelFails
    <3>2. QED
      BY <1>1, <3>1
  <2>6. QED
    BY <1>11, <2>4, <2>5
<1>12. CASE CancelShow
  <2>1. cancel.at = "answered" /\ cancel.of \in Booking
    BY <1>12 DEF CancelShow, ListFollows
  <2>2. [shown EXCEPT ![cancel.of] = "CANCELLED"] \in [Booking -> Status]
    BY <2>1 DEF Status
  <2>3. shown' \in [Booking -> Status]
    BY <1>12, <2>2 DEF CancelShow
  <2>4. QED
    BY <1>0, <1>12, <2>3 DEF CancelShow
<1>13. CASE Revisit
  <2>1. strays' \subseteq Booking
    BY <1>13 DEF Revisit, ListFollows
  <2>2. QED
    BY <1>0, <1>1, <1>13, <2>1 DEF Revisit
<1>14. ASSUME NEW b \in Booking, NEW to \in Status, Elsewhere(b, to),
              jobs' \subseteq Booking, revived' \subseteq Booking
       PROVE  ListTypeOK'
  <2>1. [status EXCEPT ![b] = to] \in [Booking -> Status]
    OBVIOUS
  <2>2. apart' \in BOOLEAN
    BY <1>14 DEF Elsewhere
  <2>3. QED
    BY <1>1, <1>14, <2>1, <2>2 DEF Elsewhere
<1>15. ASSUME NEW b \in Booking, StrayEnds(b) PROVE ListTypeOK'
  <2>1. [status EXCEPT ![b] = "CANCELLED"] \in [Booking -> Status]
    BY DEF Status
  <2>2. apart' \in BOOLEAN
    BY <1>15 DEF StrayEnds
  <2>3. QED
    BY <1>15, <2>1, <2>2 DEF StrayEnds
<1>16. CASE Tick
  <2>1. clock' = clock + 1 /\ clock + 1 \in 0..Horizon /\ seenAt \in 0..(clock + 1)
    BY <1>0, <1>16 DEF Tick
  <2>2. QED
    BY <1>16, <2>1 DEF Tick
<1>17. ASSUME NEW b \in Booking, WorkerConfirms(b) \/ WorkerFails(b) \/ CancelledElsewhere(b)
       PROVE  ListTypeOK'
  <2>1. "CONFIRMED" \in Status /\ "CANCELLED" \in Status
    BY DEF Status
  <2>2. jobs' \subseteq Booking /\ revived' \subseteq Booking
    BY <1>17 DEF WorkerConfirms, WorkerFails, CancelledElsewhere, JobWrites
  <2>3. PICK to \in Status : Elsewhere(b, to)
    BY <1>17, <2>1 DEF WorkerConfirms, WorkerFails, CancelledElsewhere, JobWrites
  <2>4. QED
    BY <1>14, <2>2, <2>3
<1>18. QED
  BY <1>3, <1>4, <1>5, <1>6, <1>7, <1>8, <1>9, <1>10, <1>11, <1>12, <1>13, <1>15, <1>16, <1>17
     DEF ListNext, FeaturedClick, TicketClick, GridClick

LEMMA ListFollowsStep == ListTypeOK /\ ListFollows /\ ListNext => ListFollows'
<1> SUFFICES ASSUME ListTypeOK, ListFollows, ListNext PROVE ListFollows'
  OBVIOUS
<1> USE DEF ListFollows, pageState, worker
<1>0. /\ status \in [Booking -> Status] /\ fetch.data \in [Booking -> Status]
      /\ fetch \in [at : {"closed", "asked", "own", "answered", "done", "failed"}, data : [Booking -> Status]]
      /\ shown \in [Booking -> Status] /\ apart \in BOOLEAN /\ NoBooking \notin Booking
      /\ cancel \in [at : {"none", "sent", "answered"}, of : Booking \cup {NoBooking}, ok : BOOLEAN]
      /\ target \in Booking \cup {NoBooking}
      /\ \A b \in Booking : Nothing[b] = "none"
  BY BookingsAreFinite DEF ListTypeOK, Nothing
<1>1. Quiet.at = "none" /\ ~Quiet.ok
  BY DEF Quiet
<1>2. ASSUME NEW among
      PROVE  \A b \in Booking :
               Confirmed(among)[b] = IF b \in among /\ status[b] = "CONFIRMED" THEN "CONFIRMED"
                                     ELSE fetch.data[b]
  BY DEF Confirmed
<1>3. CASE ListOwn
  <2> DEFINE own == {b \in Booking : Of[b].mine}
             data == Confirmed(own)
  <2>1. /\ fetch.at = "asked" /\ fetch' = [at |-> "own", data |-> data]
        /\ UNCHANGED <<status, shown, target, cancel, revived>>
    BY <1>3 DEF ListOwn
  <2>2. \A b \in Booking : data[b] = IF Of[b].mine /\ status[b] = "CONFIRMED" THEN "CONFIRMED" ELSE "none"
    BY <1>0, <1>2, <2>1
  <2> HIDE DEF data
  <2>3. QED
    BY <1>0, <1>1, <2>1, <2>2
<1>4. CASE ListTeams
  <2> DEFINE teams == {b \in Booking : OfMyTeams(b)}
             data == Confirmed(teams)
  <2>1. /\ fetch.at = "own" /\ fetch' = [at |-> "answered", data |-> data]
        /\ UNCHANGED <<status, shown, target, cancel, apart, revived>>
    BY <1>4 DEF ListTeams
  <2>2. \A b \in Booking : data[b] = IF OfMyTeams(b) /\ status[b] = "CONFIRMED" THEN "CONFIRMED"
                                     ELSE fetch.data[b]
    BY <1>2
  <2> HIDE DEF data
  <2>3. ~apart => \A b \in Booking : data[b] = "CONFIRMED" <=> Listable(b) /\ status[b] = "CONFIRMED"
    BY <2>1, <2>2 DEF Listable
  <2>4. \A b \in Booking : data[b] \in {"none", "CONFIRMED"}
    BY <2>2
  <2>5. QED
    BY <1>0, <1>1, <2>1, <2>3, <2>4 DEF Listable, OfMyTeams
<1>5. CASE ListShow
  <2>1. /\ fetch.at = "answered" /\ fetch' = [at |-> "done", data |-> Nothing]
        /\ shown' = fetch.data /\ UNCHANGED <<status, target, cancel, apart, revived>>
    BY <1>5 DEF ListShow
  <2>2. QED
    BY <1>0, <1>1, <2>1 DEF Listable, OfMyTeams
<1>6. CASE ListFails
  <2>1. /\ fetch.at \in {"asked", "own", "answered"} /\ fetch' = [at |-> "failed", data |-> Nothing]
        /\ UNCHANGED <<status, shown, target, cancel, apart, revived>>
    BY <1>6 DEF ListFails
  <2>2. QED
    BY <1>0, <1>1, <2>1 DEF Listable, OfMyTeams
<1>7. CASE (\E b \in Booking : Click(b)) \/ ViewModeToggle \/ CancelClose \/ Tick
  <2>1. /\ UNCHANGED <<status, fetch, shown, cancel, apart, revived>>
        /\ fetch.at # "done" => target' = NoBooking
    BY <1>7 DEF Click, ViewModeToggle, CancelClose, Tick
  <2>2. QED
    BY <2>1 DEF Listable, OfMyTeams
<1>8. CASE CancelConfirm
  <2>1. /\ UNCHANGED <<status, fetch, shown, target, apart, revived>> /\ target # NoBooking
        /\ cancel.at = "none" /\ cancel' = [at |-> "sent", of |-> target, ok |-> FALSE]
    BY <1>8 DEF CancelConfirm
  <2>2. QED
    BY <1>0, <2>1 DEF Listable, OfMyTeams
<1>9. CASE CancelRow \/ CancelFails
  <2>1. /\ cancel.at = "sent" /\ cancel.of \in Booking /\ fetch.at = "done"
        /\ UNCHANGED <<fetch, shown, target, revived>>
    BY <1>1, <1>9 DEF CancelRow, CancelFails
  <2>2. /\ cancel'.at = "answered" /\ cancel'.of = cancel.of
        /\ \/ cancel'.ok /\ status' = [status EXCEPT ![cancel.of] = "CANCELLED"] /\ apart' = apart
           \/ ~cancel'.ok /\ status' = status /\ apart' = apart
           \/ ~cancel'.ok /\ status' = [status EXCEPT ![cancel.of] = "CANCELLED"] /\ apart'
    <3>1. CASE CancelRow
      <4> DEFINE may == MayCancel(cancel.of)
      <4>1. /\ cancel' = [cancel EXCEPT !.at = "answered", !.ok = may]
            /\ status' = (IF may THEN [status EXCEPT ![cancel.of] = "CANCELLED"] ELSE status)
            /\ apart' = apart
        BY <3>1 DEF CancelRow
      <4> HIDE DEF may
      <4>2. QED
        BY <1>0, <4>1
    <3>2. CASE CancelFails
      BY <1>0, <3>2 DEF CancelFails
    <3>3. QED
      BY <1>9, <3>1, <3>2
  <2>3. \A b \in Booking : b # cancel.of => status'[b] = status[b]
    BY <1>0, <2>2
  <2>4. status'[cancel.of] = "CANCELLED" \/ status' = status
    BY <1>0, <2>1, <2>2
  <2>5. cancel'.ok => status'[cancel.of] = "CANCELLED"
    BY <1>0, <2>1, <2>2
  <2>6. \A b \in Booking : shown[b] = "CANCELLED" => status'[b] = "CANCELLED" \/ b \in revived
    BY <2>3, <2>4
  <2>7. ~cancel.ok
    BY <1>0, <2>1
  <2>8. QED
    BY <2>1, <2>2, <2>3, <2>5, <2>6, <2>7 DEF Listable, OfMyTeams
<1>10. CASE CancelShow
  <2>1. /\ cancel.at = "answered" /\ cancel.of \in Booking /\ fetch.at = "done" /\ cancel' = Quiet
        /\ shown' = (IF cancel.ok THEN [shown EXCEPT ![cancel.of] = "CANCELLED"] ELSE shown)
        /\ UNCHANGED <<status, fetch, apart, revived>>
    BY <1>1, <1>10 DEF CancelShow
  <2>2. \A b \in Booking : shown'[b] = IF cancel.ok /\ b = cancel.of THEN "CANCELLED" ELSE shown[b]
    BY <1>0, <2>1
  <2>3. \A b \in Booking : /\ shown'[b] = "CANCELLED" => status[b] = "CANCELLED" \/ b \in revived
                           /\ shown'[b] \in {"none", "CONFIRMED", "CANCELLED"}
    BY <2>2
  <2>4. ~apart => \A b \in Booking : shown'[b] = "CONFIRMED" <=> Listable(b) /\ status[b] = "CONFIRMED"
    <3>1. ASSUME ~apart, cancel.ok PROVE status[cancel.of] # "CONFIRMED"
      BY <2>1, <3>1 DEF Listable
    <3>2. QED
      BY <2>1, <2>2, <3>1 DEF Listable, OfMyTeams
  <2>5. QED
    BY <1>1, <2>1, <2>3, <2>4 DEF Listable, OfMyTeams
<1>11. CASE Revisit
  <2>1. /\ fetch' = [at |-> "asked", data |-> Nothing] /\ shown' = Nothing /\ target' = NoBooking
        /\ cancel' = Quiet
    BY <1>11 DEF Revisit
  <2>2. QED
    BY <1>0, <1>1, <2>1
\* Rows that change elsewhere: a job that takes a cancellation back is known.
<1>12. ASSUME UNCHANGED <<fetch, shown, target, cancel>>, apart' = (apart \/ fetch.at # "asked"),
              revived \subseteq revived',
              \A b \in Booking : status[b] = "CANCELLED" =>
                status'[b] = "CANCELLED" \/ b \in revived'
       PROVE  ListFollows'
  <2>1. apart' \/ fetch.at = "asked"
    BY <1>0, <1>12
  <2>2. cancel.ok => apart'
    BY <1>1, <2>1
  <2>3. /\ \A b \in Booking : shown[b] = "CANCELLED" => status'[b] = "CANCELLED" \/ b \in revived'
        /\ cancel.ok => status'[cancel.of] = "CANCELLED" \/ cancel.of \in revived'
    BY <1>0, <1>12
  <2>4. QED
    BY <1>0, <1>12, <2>1, <2>2, <2>3
<1>13. ASSUME NEW b \in Booking,
              WorkerConfirms(b) \/ WorkerFails(b) \/ CancelledElsewhere(b) \/ StrayEnds(b)
       PROVE  ListFollows'
  <2>1. PICK to \in {"CONFIRMED", "CANCELLED"} :
          /\ status' = status \/ status' = [status EXCEPT ![b] = to]
          /\ status[b] = "CANCELLED" => status' = status \/ to = "CANCELLED" \/ b \in revived'
          /\ revived \subseteq revived'
          /\ UNCHANGED <<fetch, shown, target, cancel>> /\ apart' = (apart \/ fetch.at # "asked")
    <3>1. CASE WorkerConfirms(b)
      BY <3>1 DEF WorkerConfirms, JobWrites, Elsewhere
    <3>2. CASE WorkerFails(b) \/ CancelledElsewhere(b)
      BY <3>2 DEF WorkerFails, CancelledElsewhere, JobWrites, Elsewhere
    <3>3. CASE StrayEnds(b)
      BY <3>3 DEF StrayEnds
    <3>4. QED
      BY <1>13, <3>1, <3>2, <3>3
  <2>2. \A a \in Booking : status[a] = "CANCELLED" =>
          status'[a] = "CANCELLED" \/ a \in revived'
    BY <1>0, <2>1
  <2>3. QED
    BY <1>12, <2>1, <2>2
<1>14. QED
  BY <1>3, <1>4, <1>5, <1>6, <1>7, <1>8, <1>9, <1>10, <1>11, <1>13
     DEF ListNext, FeaturedClick, TicketClick, GridClick

LEMMA ListInvariant == PagesSpec => []ListInv
<1>1. PagesInit => ListInv
  <2> SUFFICES ASSUME PagesInit PROVE ListInv
    OBVIOUS
  <2>1. PICK s \in Sittings : ListInit(s.list) /\ s.list \in [page : Nat, elsewhere : Nat]
    BY SittingsAreBounds DEF PagesInit
  <2>2. /\ status \in [Booking -> Status] /\ Nothing \in [Booking -> Status]
        /\ Quiet \in [at : {"none", "sent", "answered"}, of : Booking \cup {NoBooking}, ok : BOOLEAN]
        /\ Horizon \in Nat
    BY <2>1, BookingsHaveEvents DEF ListInit, Status, Nothing, Quiet
  <2>3. ListTypeOK
    <3> DEFINE at0 == IF s.list.page = 0 THEN "closed" ELSE "asked"
    <3>1. at0 \in {"closed", "asked", "own", "answered", "done", "failed"}
      OBVIOUS
    <3>2. fetch = [at |-> at0, data |-> Nothing]
      BY <2>1 DEF ListInit
    <3> HIDE DEF at0
    <3>3. fetch \in [at : {"closed", "asked", "own", "answered", "done", "failed"}, data : [Booking -> Status]]
      BY <2>2, <3>1, <3>2
    <3>4. clock = 0 /\ seenAt = 0 /\ clock \in 0..Horizon /\ seenAt \in 0..clock
      BY <2>1, <2>2 DEF ListInit
    <3>5. /\ shown = Nothing /\ viewMode = "ticket" /\ target = NoBooking /\ cancel = Quiet
          /\ strays = {} /\ listActs = s.list /\ apart = FALSE /\ jobs = Booking /\ revived = {}
      BY <2>1 DEF ListInit
    <3>6. QED
      BY <2>1, <2>2, <3>3, <3>4, <3>5 DEF ListTypeOK
  <2>4. ListFollows
    BY <2>1, <2>2 DEF ListInit, ListFollows, Nothing, Quiet
  <2>5. QED
    BY <2>3, <2>4 DEF ListInv
<1>2. ListInv /\ [PagesNext]_pageVars => ListInv'
  <2>1. ListInv /\ UNCHANGED listVars => ListInv'
    <3> SUFFICES ASSUME ListInv, UNCHANGED listVars PROVE ListInv'
      OBVIOUS
    <3>1. ListTypeOK'
      BY DEF ListInv, ListTypeOK, listVars, worker
    <3>2. ListFollows'
      BY DEF ListInv, ListFollows, listVars, worker, Listable, OfMyTeams
    <3>3. QED
      BY <3>1, <3>2 DEF ListInv
  <2>2. ListInv /\ ListNext => ListInv'
    BY ListTypeStep, ListFollowsStep DEF ListInv
  <2>3. QED
    BY <2>1, <2>2 DEF PagesNext, pageVars
<1>3. QED
  BY <1>1, <1>2, PTL DEF PagesSpec

\* Whatever failed, was left behind or happened elsewhere, the page says of no
\* reservation that stands that it is cancelled, unless its own job confirmed it after
\* the cancellation; and when only the page's calls touched the table it shows every
\* confirmed reservation that is the camper's to see.
THEOREM ListedReservationsStand == PagesSpec => []ListedStand
<1>1. ListInv => ListedStand
  <2> SUFFICES ASSUME ListInv PROVE ListedStand
    OBVIOUS
  <2>1. ASSUME NEW b \in Booking
        PROVE  /\ Badge(b) = "CANCELLED" => shown[b] = "CANCELLED"
               /\ Badge(b) \in {"CONFIRMED", "ENDED"} <=> shown[b] = "CONFIRMED"
               /\ Badge(b) # "PENDING"
    BY DEF ListInv, ListFollows, Badge
  <2>2. QED
    BY <2>1 DEF ListInv, ListFollows, ListedStand
<1>2. QED
  BY <1>1, ListInvariant, PTL

\* What is proved of the reminder holds behind the pages.
THEOREM PagesReminderSafe == PagesSpec => [](OrphansWithinCauses /\ RowNamesReminder)
  BY PagesImplementReminder, OrphansWithinCausesHolds, RowNamesReminderHolds, PTL

\* The reminder, the card and the list keep their types.
THEOREM PagesTypeCorrect == PagesSpec => []PagesTypeOK
<1>1. CardInv /\ ListInv => PagesTypeOK
  BY DEF CardInv, ListInv, PagesTypeOK
<1>2. QED
  BY <1>1, CardInvariant, ListInvariant, PTL
=============================================================================
