------------------------------ MODULE Reminder ------------------------------
(***************************************************************************)
(* The Slack reminder one user sets on one event                           *)
(* (backend/src/notifications/notifications.service.ts).  The row of       *)
(* EventNotification names the message that Slack holds for later.  The    *)
(* two stores share no transaction: setNotification deletes the old        *)
(* message, schedules a new one and then writes the row;                   *)
(* deleteNotification deletes the message and then the row.  A failure of  *)
(* deleteScheduledMessage is logged and otherwise ignored                  *)
(* (slack.service.ts:126-137).                                             *)
(*                                                                         *)
(* Handlers of the same user meet when two tabs or devices are open, and   *)
(* in one tab too: only the toggle is off while a request runs             *)
(* (EventNotificationModal.tsx:118), the radios are not (147-154).         *)
(*                                                                         *)
(* A message is named after the call that schedules it.  Times are left    *)
(* out: a scheduled message may be sent at any moment, and all of them are *)
(* sent when the event starts, since a reminder is due before the start    *)
(* and the organiser does not move an event here.                          *)
(***************************************************************************)
EXTENDS Naturals, FiniteSets

CONSTANTS
  Call,         \* the calls of setNotification
  Removal,      \* the calls of deleteNotification
  NoMessage     \* no row, or no message found in it

Handler == Call \cup Removal
Message == Call \cup {NoMessage}

ASSUME RemindersAreFinite == IsFiniteSet(Call) /\ IsFiniteSet(Removal)
ASSUME HandlersDiffer == Call \cap Removal = {} /\ NoMessage \notin Handler

VARIABLES
  event,        \* "upcoming", "started", "over" or "deleted"
  row,          \* scheduledMessageId of the row, NoMessage when there is none
  scheduled,    \* the messages Slack is going to send
  sent,         \* the messages Slack has sent
  pc,           \* where each handler is
  seen,         \* the message each handler read in the row
  failures,     \* calls that failed and handlers cut short so far
  overlapped    \* history: the handlers that ran while another one did

stores == <<row, scheduled, sent>>
vars == <<event, stores, pc, seen, failures, overlapped>>

Stage == {"idle", "read", "unschedule", "schedule", "upsert", "delete", "done"}

TypeOK ==
  /\ event \in {"upcoming", "started", "over", "deleted"}
  /\ row \in Message
  /\ scheduled \subseteq Call
  /\ sent \subseteq Call
  /\ pc \in [Handler -> Stage]
  /\ seen \in [Handler -> Message]
  /\ failures \in Nat
  /\ overlapped \subseteq Handler

Init ==
  /\ event = "upcoming"
  /\ row = NoMessage
  /\ scheduled = {}
  /\ sent = {}
  /\ pc = [h \in Handler |-> "idle"]
  /\ seen = [h \in Handler |-> NoMessage]
  /\ failures = 0
  /\ overlapped = {}

Running == {h \in Handler : pc[h] \notin {"idle", "done"}}

Go(h, stage) == pc' = [pc EXCEPT ![h] = stage]
Fail == failures' = failures + 1

\* A request arrives: what it has in common with those that run is recorded.
Arrive(h) ==
  /\ pc[h] = "idle"
  /\ Go(h, "read")
  /\ overlapped' = IF Running = {} THEN overlapped
                   ELSE overlapped \cup Running \cup {h}
  /\ UNCHANGED <<event, stores, seen, failures>>

----------------------------------------------------------------------------
(* setNotification *)

\* The event is looked up: past its start nothing is scheduled.
SetCheck(c) == event = "upcoming" /\ Arrive(c)

\* Variant: the old message is not looked for.
SetReadForgets(c) ==
  /\ pc[c] = "read"
  /\ seen' = [seen EXCEPT ![c] = NoMessage]
  /\ Go(c, "schedule")
  /\ UNCHANGED <<event, stores, failures, overlapped>>

\* Variant: a missing row is not told from a message.
SetReadUnchecked(c) ==
  /\ pc[c] = "read"
  /\ seen' = [seen EXCEPT ![c] = IF row = NoMessage THEN "undefined" ELSE row]
  /\ Go(c, "unschedule")
  /\ UNCHANGED <<event, stores, failures, overlapped>>

\* The row is read; only a row has a message to delete.
SetRead(c) ==
  /\ pc[c] = "read"
  /\ seen' = [seen EXCEPT ![c] = row]
  /\ Go(c, IF row = NoMessage THEN "schedule" ELSE "unschedule")
  /\ UNCHANGED <<event, stores, failures, overlapped>>

\* deleteScheduledMessage: whatever its outcome, the caller goes on to `next'.
\* A message that was sent or deleted is not there to delete.
Unschedule(h, next) ==
  /\ pc[h] = "unschedule"
  /\ \/ scheduled' = scheduled \ {seen[h]} /\ UNCHANGED failures
     \/ seen[h] \in scheduled /\ Fail /\ UNCHANGED scheduled
  /\ Go(h, next)
  /\ UNCHANGED <<event, row, sent, seen, overlapped>>

SetDeleteOld(c) == Unschedule(c, "schedule")

SetSchedule(c) ==
  /\ pc[c] = "schedule"
  /\ event = "upcoming"
  /\ scheduled' = scheduled \cup {c}
  /\ Go(c, "upsert")
  /\ UNCHANGED <<event, row, sent, seen, failures, overlapped>>

\* Slack refuses or cannot be reached, or its answer is lost after it took the
\* message: the caller is told that nothing was scheduled.
SetScheduleFails(c) ==
  /\ pc[c] = "schedule"
  /\ \/ UNCHANGED scheduled
     \/ event = "upcoming" /\ scheduled' = scheduled \cup {c}
  /\ Fail
  /\ Go(c, "done")
  /\ UNCHANGED <<event, row, sent, seen, overlapped>>

\* Variant: the update leaves scheduledMessageId out.
SetUpsertKeeps(c) ==
  /\ pc[c] = "upsert"
  /\ event # "deleted"
  /\ row' = IF row = NoMessage THEN c ELSE row
  /\ Go(c, "done")
  /\ UNCHANGED <<event, scheduled, sent, seen, failures, overlapped>>

\* The row of a deleted event cannot be written: its foreign key is gone.
SetUpsert(c) ==
  /\ pc[c] = "upsert"
  /\ event # "deleted"
  /\ row' = c
  /\ Go(c, "done")
  /\ UNCHANGED <<event, scheduled, sent, seen, failures, overlapped>>

SetUpsertFails(c) ==
  /\ pc[c] = "upsert"
  /\ Fail
  /\ Go(c, "done")
  /\ UNCHANGED <<event, stores, seen, overlapped>>

----------------------------------------------------------------------------
(* deleteNotification *)

DelArrive(r) == Arrive(r)

DelRead(r) ==
  /\ pc[r] = "read"
  /\ seen' = [seen EXCEPT ![r] = row]
  /\ Go(r, IF row = NoMessage THEN "done" ELSE "unschedule")
  /\ UNCHANGED <<event, stores, failures, overlapped>>

\* A user whose Slack ID has gone or does not resolve counts as a failure too.
DelUnschedule(r) == Unschedule(r, "delete")

\* The row goes by its user and event, whatever message it names by now; with
\* no row left the call throws.
DelRow(r) ==
  /\ pc[r] = "delete"
  /\ row' = NoMessage
  /\ Go(r, "done")
  /\ UNCHANGED <<event, scheduled, sent, seen, failures, overlapped>>

DelRowFails(r) ==
  /\ pc[r] = "delete"
  /\ Fail
  /\ Go(r, "done")
  /\ UNCHANGED <<event, stores, seen, overlapped>>

----------------------------------------------------------------------------
(* Around them *)

\* The process of a handler dies.
Crash(h) ==
  /\ h \in Running
  /\ Fail
  /\ Go(h, "done")
  /\ UNCHANGED <<event, stores, seen, overlapped>>

\* Slack sends a message at its time.
Send(m) ==
  /\ m \in scheduled
  /\ scheduled' = scheduled \ {m}
  /\ sent' = sent \cup {m}
  /\ UNCHANGED <<event, row, pc, seen, failures, overlapped>>

\* The event's startTime passes: every reminder was due before it.
Start ==
  /\ event = "upcoming"
  /\ scheduled = {}
  /\ event' = "started"
  /\ UNCHANGED <<stores, pc, seen, failures, overlapped>>

\* handleCleanupOldNotifications, a day after the end of the event.
Cleanup ==
  /\ event \in {"started", "over"}
  /\ event' = "over"
  /\ row' = NoMessage
  /\ UNCHANGED <<scheduled, sent, pc, seen, failures, overlapped>>

\* EventsService.delete: the row goes with the event, the message stays.
DeleteEvent ==
  /\ event # "deleted"
  /\ event' = "deleted"
  /\ row' = NoMessage
  /\ UNCHANGED <<scheduled, sent, pc, seen, failures, overlapped>>

SetStep(c) ==
  \/ SetCheck(c)
  \/ SetRead(c)
  \/ SetDeleteOld(c)
  \/ SetSchedule(c)
  \/ SetScheduleFails(c)
  \/ SetUpsert(c)
  \/ SetUpsertFails(c)

DelStep(r) ==
  \/ DelArrive(r)
  \/ DelRead(r)
  \/ DelUnschedule(r)
  \/ DelRow(r)
  \/ DelRowFails(r)

Next ==
  \/ \E c \in Call : SetStep(c)
  \/ \E r \in Removal : DelStep(r)
  \/ \E h \in Handler : Crash(h)
  \/ \E m \in Call : Send(m)
  \/ Start
  \/ Cleanup
  \/ DeleteEvent

Spec == Init /\ [][Next]_vars

----------------------------------------------------------------------------
(* Properties *)

\* The messages Slack is going to send that neither the row names nor a handler
\* is about to write into it: no call can take them back any more.
Orphans == {m \in scheduled : m # row /\ pc[m] # "upsert"}

\* Handlers that met another one and are over.
Collided == {h \in overlapped : pc[h] = "done"}

\* While the event is not deleted, a reminder that nobody can cancel any more
\* is the price of one failure, or of one handler that ran beside another
\* (setNotification, lines 97-144, and deleteNotification, lines 147-195,
\* act on the row they read first): there are never more of them than that.
OrphansWithinCauses ==
  event # "deleted" => Cardinality(Orphans) <= failures + Cardinality(Collided)

\* Without a failure and without handlers that met, a user whose row says a
\* reminder is set gets it: the row never names a message that Slack neither
\* holds nor has sent, except while a handler replaces it.
RowNamesReminder ==
  (row # NoMessage /\ row \notin scheduled \cup sent)
    => \/ failures > 0
       \/ overlapped # {}
       \/ \E h \in Running : seen[h] = row
=============================================================================
