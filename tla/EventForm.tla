----------------------------- MODULE EventForm -----------------------------
(***************************************************************************)
(* The form that creates or edits an event (EventCreatePage.tsx and        *)
(* SlotOptionsSection.tsx).  When it opens it asks for the templates and,  *)
(* to edit, for the event; the two answers come in any order and each      *)
(* writes the fields of the slots and the rows.  The values of a row are   *)
(* keyed by the ids of the fields: every template numbers its own f1, f2,  *)
(* ..., every sheet f_1, f_2, ..., so two of them share ids, and a value   *)
(* can end up under a field it was not typed for.                          *)
(*                                                                         *)
(* A field is [id, label]; a row is the set of the fields it holds a value *)
(* of.  Title, dates and capacity are payload: the capacity of a row is    *)
(* always at least 1 (EventCreatePage.tsx:113).                            *)
(***************************************************************************)
EXTENDS Templates, SequencesExt

CONSTANTS
  Fallback,       \* FALLBACK_FIELDS
  Numeric,        \* the fields of type number, which a new row fills with 0
  Upload,         \* the sheets that may be uploaded
  SavedEvent,     \* the events that may be edited
  NoEvent,
  MaxRows         \* bound: the rows of the form

\* The fields that templates and sheets have, and a form may have.
Schemas == Content \cup {Fallback} \cup {s.fields : s \in Upload} \cup {e.schema : e \in SavedEvent}
Known == UNION Schemas

ASSUME FieldsAreNamed == \A f \in Known \cup Numeric : DOMAIN f = {"id", "label"}
\* Templates and sheets number their fields when they are sent or read
\* (TemplateFormModal.tsx:98, SlotOptionsSection.tsx:163).
ASSUME IdsAreDistinct == \A set \in Schemas : \A f, g \in set : f.id = g.id => f = g
ASSUME EventsFit ==
  \A e \in SavedEvent : e \in [schema : Schemas, infos : Seq({e.schema})] /\ Len(e.infos) <= MaxRows
ASSUME SheetsAreTables ==
  \A s \in Upload : s.rows \in Seq(SUBSET s.fields) /\ Len(s.rows) <= MaxRows
ASSUME NoEventIsNone == NoEvent \notin SavedEvent /\ MaxRows \in Nat \ {0}

VARIABLES
  event,        \* the event in the database, its fields and the values of its slots
  mode,         \* whether the form creates or edits
  templatesIn,  \* the request for the templates
  eventIn,      \* the request for the event
  offered,      \* the templates the form offers
  form,         \* slotSchema.fields, slots and whether there is a title
  inputsLeft,   \* bound: how many inputs may still come
  strained      \* history: what may have put a value under another field

formVars == <<event, mode, templatesIn, eventIn, offered, form, inputsLeft, strained>>
requests == <<templatesIn, eventIn>>

Ids(fields) == {f.id : f \in fields}
NewRow(fields) == fields \cap Numeric
NewForm(fields) == [fields |-> fields, rows |-> <<NewRow(fields)>>, title |-> form.title]

FormTypeOK ==
  /\ event # NoEvent => event \in [schema : SUBSET Known, infos : Seq(SUBSET Known)]
  /\ mode \in {"create", "edit", "closed"}
  /\ templatesIn \in [at : {"asked", "answered", "done"}, data : Tables]
  /\ eventIn \in {"asked", "answered", "done", "failed"}
  /\ offered \in Tables
  /\ form \in [fields : SUBSET Known, rows : Seq(SUBSET Known), title : BOOLEAN]
  /\ Len(form.rows) <= MaxRows
  /\ inputsLeft \in Nat
  /\ strained \subseteq {"overwritten", "replaced", "unloaded", "headerOnly"}

FormInit(inputs) ==
  /\ event \in SavedEvent \cup {NoEvent}
  /\ mode = IF inputs = 0 THEN "closed" ELSE IF event = NoEvent THEN "create" ELSE "edit"
  /\ inputs = 0 => event = NoEvent
  /\ templatesIn = [at |-> "asked", data |-> Empty]
  /\ eventIn = IF mode = "edit" THEN "asked" ELSE "done"
  /\ offered = Empty
  /\ form = [fields |-> {}, rows |-> <<>>, title |-> FALSE]
  /\ inputsLeft = inputs
  /\ strained = {}

Open == mode # "closed"
Strain(cause, if) == strained' = IF if THEN strained \cup {cause} ELSE strained
-----------------------------------------------------------------------------
(* The answers to the requests of the page. *)

TemplatesRead ==
  /\ Open /\ templatesIn.at = "asked"
  /\ templatesIn' = [at |-> "answered", data |-> template]
  /\ UNCHANGED <<event, mode, eventIn, offered, form, inputsLeft, strained>>

FirstFields(table) ==
  LET stored == {i \in TemplateId : table[i] # NoContent}
  IN IF stored = {} \/ table[Min(stored)] = {} THEN Fallback ELSE table[Min(stored)]

\* The fields are overwritten even if they are not empty: the effect sees those
\* of the first rendering (SlotOptionsSection.tsx:90, 117).
TemplatesShown ==
  /\ Open /\ templatesIn.at = "answered"
  /\ offered' = templatesIn.data
  /\ form' = NewForm(FirstFields(templatesIn.data))
  /\ templatesIn' = [at |-> "done", data |-> Empty]
  /\ Strain("overwritten", mode = "edit" /\ eventIn = "done")
  /\ UNCHANGED <<event, mode, eventIn, inputsLeft>>

TemplatesFail ==
  /\ Open /\ templatesIn.at \in {"asked", "answered"}
  /\ form' = NewForm(Fallback)
  /\ templatesIn' = [at |-> "done", data |-> Empty]
  /\ Strain("overwritten", mode = "edit" /\ eventIn = "done")
  /\ UNCHANGED <<event, mode, eventIn, offered, inputsLeft>>

EventRead ==
  /\ Open /\ eventIn = "asked"
  /\ eventIn' = "answered"
  /\ UNCHANGED <<event, mode, templatesIn, offered, form, inputsLeft, strained>>

EventShown ==
  /\ Open /\ eventIn = "answered"
  /\ form' = [fields |-> event.schema, rows |-> event.infos, title |-> TRUE]
  /\ eventIn' = "done"
  /\ UNCHANGED <<event, mode, templatesIn, offered, inputsLeft, strained>>

EventFails ==
  /\ Open /\ eventIn \in {"asked", "answered"}
  /\ eventIn' = "failed"
  /\ Strain("unloaded", TRUE)
  /\ UNCHANGED <<event, mode, templatesIn, offered, form, inputsLeft>>
-----------------------------------------------------------------------------
(* What the administrator does. *)

Input == Open /\ inputsLeft > 0 /\ inputsLeft' = inputsLeft - 1

TypeTitle ==
  /\ Input
  /\ form' = [form EXCEPT !.title = TRUE]
  /\ UNCHANGED <<event, mode, requests, offered, strained>>

\* A row is typed under the fields that are shown; what it holds under other
\* ids stays.
TypeRow(k) ==
  /\ Input
  /\ form' = [form EXCEPT !.rows[k] = form.fields \cup {f \in @ : f.id \notin Ids(form.fields)}]
  /\ UNCHANGED <<event, mode, requests, offered, strained>>

AddRow ==
  /\ Input
  /\ form.fields # {}
  /\ Len(form.rows) < MaxRows
  /\ form' = [form EXCEPT !.rows = Append(@, NewRow(form.fields))]
  /\ UNCHANGED <<event, mode, requests, offered, strained>>

RemoveRow(k) ==
  /\ Input
  /\ form' = [form EXCEPT !.rows = RemoveAt(@, k)]
  /\ UNCHANGED <<event, mode, requests, offered, strained>>

\* Variant: the rows stay when another template is chosen.
SelectKeepsRows(i) ==
  /\ Input
  /\ offered[i] # NoContent
  /\ form' = [form EXCEPT !.fields = offered[i]]
  /\ Strain("replaced", mode = "edit")
  /\ UNCHANGED <<event, mode, requests, offered>>

SelectTemplate(i) ==
  /\ Input
  /\ offered[i] # NoContent
  /\ form' = NewForm(offered[i])
  /\ Strain("replaced", mode = "edit")
  /\ UNCHANGED <<event, mode, requests, offered>>

\* A sheet without a line replaces the fields and leaves the rows
\* (SlotOptionsSection.tsx:191, 238); one without a header does nothing.
UploadSheet(sheet) ==
  /\ Input
  /\ sheet.fields # {}
  /\ form' = [form EXCEPT !.fields = sheet.fields,
                          !.rows = IF sheet.rows = <<>> THEN @ ELSE sheet.rows]
  /\ strained' = strained \cup (IF mode = "edit" THEN {"replaced"} ELSE {})
                          \cup (IF sheet.rows = <<>> THEN {"headerOnly"} ELSE {})
  /\ UNCHANGED <<event, mode, requests, offered>>

\* eventSchema: a title, and a value in every row for every field.
Valid == form.title /\ \A k \in DOMAIN form.rows : Ids(form.fields) \subseteq Ids(form.rows[k])

\* Only values under the ids of the fields are sent.
Normalised(row) == {f \in row : f.id \in Ids(form.fields)}

SubmitNew ==
  /\ mode = "create" /\ Valid
  /\ event' = [schema |-> form.fields,
               infos |-> [k \in DOMAIN form.rows |-> Normalised(form.rows[k])]]
  /\ mode' = "closed"
  /\ UNCHANGED <<requests, offered, form, inputsLeft, strained>>

\* An update sends the fields and not the rows.
SubmitEdit ==
  /\ mode = "edit" /\ Valid
  /\ event' = [event EXCEPT !.schema = form.fields]
  /\ mode' = "closed"
  /\ Strain("unloaded", eventIn # "done")
  /\ UNCHANGED <<requests, offered, form, inputsLeft>>
-----------------------------------------------------------------------------
\* What the page does alone, and the two calls that administrators may make.
FormAlone ==
  \/ TemplatesShown \/ TemplatesFail
  \/ EventRead \/ EventShown \/ EventFails
  \/ TypeTitle \/ AddRow \/ \E k \in DOMAIN form.rows : TypeRow(k) \/ RemoveRow(k)
  \/ \E i \in TemplateId : SelectTemplate(i)
  \/ \E s \in Upload : UploadSheet(s)

FormCall == TemplatesRead \/ SubmitNew \/ SubmitEdit

FormNext == FormAlone \/ FormCall
-----------------------------------------------------------------------------
\* The slots of an event hold a value for each of its fields, and each value
\* was entered for the field it is shown under (EventCreatePage.tsx:83-132).
\* What breaks this: templates that arrive after the event and replace its
\* fields, a template or sheet chosen while editing, an event saved before it
\* was loaded, a sheet with a header and no line.
SchemaFitsSlots ==
  strained = {} /\ event # NoEvent =>
    \A k \in DOMAIN event.infos : event.infos[k] = event.schema
=============================================================================
