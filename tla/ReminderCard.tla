---------------------------- MODULE ReminderCard ----------------------------
(***************************************************************************)
(* The bell on the card of an event (EventCard.tsx) and the modal behind   *)
(* it (EventNotificationModal.tsx), over the reminder of module Reminder.  *)
(* The list of events brings the row with it (EventsService.findAll); from *)
(* then on the card only follows the answers to its own requests.  The     *)
(* toggle is off while isLoading, but the radios that choose another time  *)
(* are not, and the first request that ends resets isLoading for all: the  *)
(* requests of one card overlap.  The page can be left and opened again,   *)
(* and other tabs and devices of the user call as they like.               *)
(***************************************************************************)
EXTENDS Reminder

CONSTANT NoHandler
ASSUME NoHandlerIsNone == NoHandler \notin Handler

VARIABLES
  card,        \* where the card is, and whether it shows the event as upcoming
  bell,        \* myNotification is set: isEnabled of the modal follows it
  calls,       \* the requests this visit sent and has not shown: what came back
  loading,     \* isLoading of the modal
  cardActs,    \* bound: how often the page is opened, acts, and others call
  newest,      \* history: of the answers to be shown, the one that took effect last
  untold       \* history: the row may have changed without the card's knowing

cardVars == <<card, bell, calls, loading, cardActs, newest, untold>>

CardTypeOK ==
  /\ card \in [at : {"closed", "asked", "read", "shown"}, row : BOOLEAN, upcoming : BOOLEAN]
  /\ bell \in BOOLEAN
  /\ calls \in [Handler -> {"none", "sent", "ok", "error"}]
  /\ loading \in BOOLEAN
  /\ cardActs \in [visits : Nat, mine : Nat, others : Nat]
  /\ newest \in Handler \cup {NoHandler}
  /\ untold \in BOOLEAN

Closed == [at |-> "closed", row |-> FALSE, upcoming |-> FALSE]

Uncalled == [h \in Handler |-> "none"]

CardInit(acts) ==
  /\ card = Closed
  /\ bell = FALSE
  /\ calls = Uncalled
  /\ loading = FALSE
  /\ cardActs = acts
  /\ newest = NoHandler
  /\ untold = FALSE

Pay(what) == cardActs[what] > 0 /\ cardActs' = [cardActs EXCEPT ![what] = @ - 1]
-----------------------------------------------------------------------------
(* The card by itself. *)

\* A page that is left forgets; a request it sent runs on and answers nobody.
CardOpen ==
  /\ card.at \in {"closed", "shown"}
  /\ Pay("visits")
  /\ card' = [Closed EXCEPT !.at = "asked"]
  /\ bell' = FALSE
  /\ calls' = Uncalled
  /\ loading' = FALSE
  /\ newest' = NoHandler
  /\ UNCHANGED <<vars, untold>>

\* EventsService.findAll reads the event with the user's row.
CardRead ==
  /\ card.at = "asked" /\ event # "deleted"
  /\ card' = [at |-> "read", row |-> row # NoMessage, upcoming |-> event = "upcoming"]
  /\ untold' = (Running # {})
  /\ UNCHANGED <<vars, bell, calls, loading, cardActs, newest>>

CardShow ==
  /\ card.at = "read"
  /\ card' = [card EXCEPT !.at = "shown"]
  /\ bell' = card.row
  /\ UNCHANGED <<vars, calls, loading, cardActs, newest, untold>>

\* An answer is shown, in any order among those that came; the one that took
\* effect last should not be overtaken.
AnswerShown(h) ==
  /\ calls[h] \in {"ok", "error"}
  /\ calls' = [calls EXCEPT ![h] = "none"]
  /\ loading' = FALSE
  /\ card' = [card EXCEPT !.upcoming = @ /\ event = "upcoming"]
  /\ newest' = IF h = newest THEN NoHandler ELSE newest
  /\ untold' = (untold \/ (calls[h] = "ok" /\ newest = NoHandler))
  /\ UNCHANGED <<vars, cardActs>>

\* Variant: the bell changes with the click.
CardAnswerBeforehand(h) ==
  /\ AnswerShown(h)
  /\ bell' = (h \in Call)

\* The bell is what a call that succeeded asked for.
CardAnswer(h) ==
  /\ AnswerShown(h)
  /\ bell' = IF calls[h] = "ok" THEN h \in Call ELSE bell
-----------------------------------------------------------------------------
(* The steps of the reminder, as the card sees them. *)

\* The toggle sets what is off and removes what is on; a radio sets what is on
\* at another time, and does not look at isLoading.
Clicks(h) ==
  \/ ~loading /\ (h \in Removal <=> bell)
  \/ h \in Call /\ bell

CardArrives(h) ==
  /\ card.at = "shown" /\ card.upcoming
  /\ Clicks(h)
  /\ Pay("mine")
  /\ calls' = [calls EXCEPT ![h] = "sent"]
  /\ loading' = TRUE
  /\ UNCHANGED <<card, bell, newest, untold>>

OtherArrives ==
  /\ Pay("others")
  /\ untold' = (untold \/ card.at # "asked")
  /\ UNCHANGED <<card, bell, calls, loading, newest>>

Arrives(h) ==
  /\ \/ h \in Call /\ SetCheck(h)
     \/ h \in Removal /\ DelArrive(h)
  /\ CardArrives(h) \/ OtherArrives

\* How the call came out: its row is written, or is gone, or was not there.
Succeeded(h) ==
  /\ failures' = failures
  /\ \/ h \in Call /\ pc[h] = "upsert"
     \/ h \in Removal /\ pc[h] = "read"
     \/ h \in Removal /\ pc[h] = "delete" /\ row # NoMessage

\* A handler of the card ends: it answers, or the answer is lost.
Answered(h) ==
  /\ \/ /\ calls' = [calls EXCEPT ![h] = IF Succeeded(h) THEN "ok" ELSE "error"]
        /\ newest' = IF Succeeded(h) THEN h ELSE newest
        /\ UNCHANGED untold
     \/ /\ Succeeded(h)
        /\ calls' = [calls EXCEPT ![h] = "error"]
        /\ untold' = TRUE
        /\ UNCHANGED newest
  /\ UNCHANGED <<card, bell, loading, cardActs>>

\* The steps of handlers that have arrived.
HandlerStep(h) ==
  /\ \/ h \in Call /\ (\/ SetRead(h) \/ SetDeleteOld(h) \/ SetSchedule(h) \/ SetScheduleFails(h)
                       \/ SetUpsert(h) \/ SetUpsertFails(h))
     \/ h \in Removal /\ (DelRead(h) \/ DelUnschedule(h) \/ DelRow(h) \/ DelRowFails(h))
     \/ Crash(h)
  /\ IF calls[h] = "sent" /\ pc'[h] = "done" THEN Answered(h) ELSE UNCHANGED cardVars

Around ==
  /\ \/ \E m \in Call : Send(m)
     \/ Start \/ Cleanup \/ DeleteEvent
  /\ untold' = (untold \/ (row' # row /\ card.at # "asked"))
  /\ UNCHANGED <<card, bell, calls, loading, cardActs, newest>>

CardNext ==
  \/ CardOpen \/ CardRead \/ CardShow
  \/ \E h \in Handler : CardAnswer(h) \/ Arrives(h) \/ HandlerStep(h)
  \/ Around
-----------------------------------------------------------------------------
\* Whatever calls fail half-way, overlap, run late or run on behind a page that
\* was left, the bell rings exactly when a row says so, once the card has shown
\* its answers, unless an answer got lost, was overtaken by the answer of a call
\* that took effect after it, or something else touched the row since the events
\* were read.
BellTellsTheRow ==
  card.at = "shown" /\ calls = Uncalled /\ ~untold
    => (bell <=> row # NoMessage)
=============================================================================
