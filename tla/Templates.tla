----------------------------- MODULE Templates -----------------------------
(***************************************************************************)
(* The templates of slot fields (backend/src/templates/templates.service.ts) *)
(* and the page that manages them (useTemplates.ts).  The page loads the   *)
(* table once and from then on only replays on its list what the server    *)
(* answered to its own calls, which may run together and answer in any     *)
(* order; the optimistic copy it shows meanwhile goes away with each call. *)
(* Only the fields of a template matter here; titles are payload.  The     *)
(* list has an order of its own: what is added comes last, when the answer *)
(* arrives, while the server lists by creation.                            *)
(***************************************************************************)
EXTENDS PageLists

CONSTANTS
  MaxTemplates,        \* bound: the ids that are given out
  Content,             \* what a template may hold: sets of fields
  NoContent,
  Call,                \* slots of concurrent calls of the page
  Table                \* the tables a behaviour may begin with

ASSUME TemplatesAreBounded == MaxTemplates \in Nat
ASSUME NoContentIsNone == NoContent \notin Content
ASSUME TablesFit == \A t \in Table : t \in Seq(Content) /\ Len(t) <= MaxTemplates

VARIABLES
  template,     \* Template, by id: the serial ids are in the order of createdAt
  created,      \* how many ids were given out
  listed,       \* the state `templates' of the page
  load,         \* the request for the list
  call,         \* the calls under way
  callsLeft,    \* bound: how many writes of any page may still come
  unsynced      \* history: what may have separated the list from the table

templateVars == <<template, created, listed, load, call, callsLeft, unsynced>>
desk == <<listed, load>>

TemplateId == 1..MaxTemplates
Tables == [TemplateId -> Content \cup {NoContent}]
Empty == [i \in TemplateId |-> NoContent]
Lines == [id : TemplateId, content : Content]
NoCall == [kind |-> "none", at |-> "idle", id |-> 0, content |-> NoContent]

TemplatesTypeOK ==
  /\ template \in Tables
  /\ created \in 0..MaxTemplates
  /\ listed \in Seq(Lines)
  /\ load.at \in {"closed", "asked", "answered", "done"} /\ load.data \in Seq(Lines)
  /\ call \in [Call ->
       [kind : {"none", "add", "edit", "remove"},
        at : {"idle", "find", "write", "written"},
        id : 0..MaxTemplates, content : Content \cup {NoContent}]]
  /\ callsLeft \in Nat
  /\ unsynced \subseteq {"unloaded", "others", "overlap", "lost", "overtaken"}

TemplatesInit(calls) ==
  /\ \E t \in Table :
       /\ template = [i \in TemplateId |-> IF i \in DOMAIN t THEN t[i] ELSE NoContent]
       /\ created = Len(t)
  /\ listed = <<>>
  /\ load = [at |-> IF calls = 0 THEN "closed" ELSE "asked", data |-> <<>>]
  /\ call = [c \in Call |-> NoCall]
  /\ callsLeft = calls
  /\ unsynced = {}

Exists(i) == i \in TemplateId /\ template[i] # NoContent

\* findAll: by creation.
FindAll == Sublist([i \in TemplateId |-> [id |-> i, content |-> template[i]]], Lines)
-----------------------------------------------------------------------------
(* Loading the page; until it has, nothing but that is shown. *)

LoadRead ==
  /\ load.at = "asked"
  /\ load' = [at |-> "answered", data |-> FindAll]
  /\ UNCHANGED <<template, created, listed, call, callsLeft, unsynced>>

LoadShow ==
  /\ load.at = "answered"
  /\ listed' = load.data
  /\ load' = [at |-> "done", data |-> <<>>]
  /\ UNCHANGED <<template, created, call, callsLeft, unsynced>>

LoadFails ==
  /\ load.at \in {"asked", "answered"}
  /\ load' = [at |-> "done", data |-> <<>>]
  /\ unsynced' = unsynced \cup {"unloaded"}
  /\ UNCHANGED <<template, created, listed, call, callsLeft>>
-----------------------------------------------------------------------------
(* Calls of the page. *)

Start(c, kind, i, content) ==
  /\ load.at = "done"
  /\ call[c] = NoCall
  /\ callsLeft > 0
  /\ callsLeft' = callsLeft - 1
  /\ call' = [call EXCEPT ![c] =
       [kind |-> kind, at |-> IF kind = "add" THEN "write" ELSE "find",
        id |-> i, content |-> content]]
  /\ unsynced' = IF \E d \in Call : i # 0 /\ call[d].id = i
                 THEN unsynced \cup {"overlap"} ELSE unsynced
  /\ UNCHANGED <<template, created, desk>>

AddTemplate(c, content) == Start(c, "add", 0, content)
IsListed(i) == \E k \in DOMAIN listed : listed[k].id = i
EditTemplate(c, i, content) == IsListed(i) /\ Start(c, "edit", i, content)
RemoveTemplate(c, i) == IsListed(i) /\ Start(c, "remove", i, NoContent)

CallTo(c, at) == call' = [call EXCEPT ![c].at = at]
CallEnds(c) == call' = [call EXCEPT ![c] = NoCall]

Find(c) ==
  /\ call[c].at = "find"
  /\ IF Exists(call[c].id) THEN CallTo(c, "write") ELSE CallEnds(c)
  /\ UNCHANGED <<template, created, desk, callsLeft, unsynced>>

Create(c) ==
  /\ call[c].kind = "add" /\ call[c].at = "write"
  /\ created < MaxTemplates
  /\ created' = created + 1
  /\ template' = [template EXCEPT ![created'] = call[c].content]
  /\ call' = [call EXCEPT ![c].at = "written", ![c].id = created']
  /\ UNCHANGED <<desk, callsLeft, unsynced>>

\* An update or a deletion of a row that is gone fails (CallFails).
Write(c) ==
  /\ call[c].kind \in {"edit", "remove"} /\ call[c].at = "write"
  /\ Exists(call[c].id)
  /\ template' = [template EXCEPT ![call[c].id] = call[c].content]
  /\ CallTo(c, "written")
  /\ UNCHANGED <<created, desk, callsLeft, unsynced>>

\* Variant: what is added comes first.
AppliedFirst(list, answer) ==
  LET line == [id |-> answer.id, content |-> answer.content]
  IN CASE answer.kind = "add" -> <<line>> \o list
       [] answer.kind = "edit" ->
            [k \in DOMAIN list |-> IF list[k].id = line.id THEN line ELSE list[k]]
       [] answer.kind = "remove" -> Sublist(list, {e \in Lines : e.id # answer.id})

\* An answer is applied to the list as it is then: what is added comes last, an
\* edit changes a line that is still there.
Applied(list, answer) ==
  LET line == [id |-> answer.id, content |-> answer.content]
  IN CASE answer.kind = "add" -> Append(list, line)
       [] answer.kind = "edit" ->
            [k \in DOMAIN list |-> IF list[k].id = line.id THEN line ELSE list[k]]
       [] answer.kind = "remove" -> Sublist(list, {e \in Lines : e.id # answer.id})

\* A template that was added before has not been answered yet.
Overtakes(c) ==
  call[c].kind = "add" /\ \E d \in Call : /\ call[d].kind = "add" /\ call[d].at = "written"
                                         /\ call[d].id < call[c].id

Answer(c) ==
  /\ call[c].at = "written"
  /\ listed' = Applied(listed, call[c])
  /\ CallEnds(c)
  /\ unsynced' = IF Overtakes(c) THEN unsynced \cup {"overtaken"} ELSE unsynced
  /\ UNCHANGED <<template, created, load, callsLeft>>

\* A call fails before its write, or its answer is lost.
CallFails(c) ==
  /\ call[c] # NoCall
  /\ unsynced' = IF call[c].at = "written" THEN unsynced \cup {"lost"} ELSE unsynced
  /\ CallEnds(c)
  /\ UNCHANGED <<template, created, desk, callsLeft>>

\* Another administrator adds, edits or removes a template.
OthersWrite(i, content) ==
  /\ callsLeft > 0
  /\ callsLeft' = callsLeft - 1
  /\ Exists(i) \/ (i = created + 1 /\ content # NoContent)
  /\ template' = [template EXCEPT ![i] = content]
  /\ created' = IF i > created THEN i ELSE created
  /\ unsynced' = IF load.at = "asked" THEN unsynced ELSE unsynced \cup {"others"}
  /\ UNCHANGED <<desk, call>>
-----------------------------------------------------------------------------
\* The calls of administrators, and what follows on them.
TemplatesCall ==
  \/ LoadRead
  \/ \E c \in Call, content \in Content :
       AddTemplate(c, content) \/ \E i \in TemplateId : EditTemplate(c, i, content)
  \/ \E c \in Call, i \in TemplateId : RemoveTemplate(c, i)

TemplatesStep ==
  \/ LoadShow \/ LoadFails
  \/ \E c \in Call : Find(c) \/ Create(c) \/ Write(c) \/ Answer(c) \/ CallFails(c)
  \/ \E i \in TemplateId, content \in Content \cup {NoContent} : OthersWrite(i, content)

TemplatesNext == TemplatesCall \/ TemplatesStep
-----------------------------------------------------------------------------
\* When no call is under way the page lists every template once, as it is, unless
\* another administrator wrote, the list or an answer was lost, or two calls about
\* one template overlapped; and in the order of their creation, as the server lists
\* them (useTemplates.ts:63, templates.service.ts:20-24), unless the answer to an
\* addition overtook that to an earlier one.
ListsTheTable ==
  load.at = "done" /\ (\A c \in Call : call[c] = NoCall) =>
    /\ unsynced \subseteq {"overtaken"} =>
         /\ \A i \in TemplateId :
              {e.content : e \in {listed[k] : k \in {j \in DOMAIN listed : listed[j].id = i}}}
                = {template[i]} \ {NoContent}
         /\ \A j, k \in DOMAIN listed : listed[j].id = listed[k].id => j = k
    /\ "overtaken" \notin unsynced =>
         \A j, k \in DOMAIN listed : j < k => listed[j].id < listed[k].id
=============================================================================
