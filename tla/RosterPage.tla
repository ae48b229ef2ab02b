----------------------------- MODULE RosterPage -----------------------------
(***************************************************************************)
(* The page of the campers of an organization (ManageCamper.tsx and the    *)
(* hooks of its rows).  It loads the list once and replays on it what the  *)
(* server answered to its own calls; after a sheet was uploaded it reads   *)
(* the list again.  Every row on the page in view is there twice, as a card *)
(* for narrow windows and as a row of a table for wide ones                *)
(* (CamperListTable.tsx): two components, of which the window shows one at *)
(* a time, each with inputs of its own that start with what the row said   *)
(* when it came into view.                                                 *)
(* The handlers of the server are taken as a whole: their steps and the    *)
(* memberships are in CamperRoster.  A row is known by its camper id,      *)
(* which an active row keeps; names and groups are its data.               *)
(***************************************************************************)
EXTENDS PageLists

CONSTANTS
  MaxLine,        \* the rows, in the order of their camper ids
  Data, NoData,   \* what a row says
  PageSize,       \* ITEMS_PER_PAGE
  CamperSheet,    \* the sheets that may be uploaded
  RosterCall,     \* slots of concurrent calls of the page
  Enrolment       \* what the table may be at first

Line == 1..MaxLine
Layout == {"card", "row"}
Enlistments == [Line -> Data \cup {NoData}]

ASSUME PagesHoldRows == MaxLine \in Nat /\ PageSize \in Nat \ {0}
ASSUME EnrolmentsFit == Enrolment \subseteq Enlistments
ASSUME NoDataIsNone == NoData \notin Data
ASSUME SheetsEnlist == \A s \in CamperSheet : DOMAIN s \subseteq Line /\ \A l \in DOMAIN s : s[l] \in Data

VARIABLES
  enlisted,     \* the rows that are not REVOKED, and what they say
  campers,      \* the state `campers' of the page
  currentPage,
  drafts,       \* the inputs of each row in view, in each layout
  editing,      \* isEditing of each row in view, in each layout
  fetched,      \* the request for the list when the page opens
  rosterCall,   \* the calls under way
  rosterActs,   \* bound: the calls that may still come, from any page
  strain,       \* history: what may have separated page and table
  astray        \* history: whose inputs, while mounted, the list or the user left behind

rosterPageVars == <<enlisted, campers, currentPage, drafts, editing, fetched,
                    rosterCall, rosterActs, strain, astray>>
view == <<campers, currentPage, drafts, editing, astray>>

Idler == [kind |-> "none", at |-> "idle", from |-> "row", line |-> 0, data |-> NoData, page |-> 0,
          here |-> FALSE, list |-> <<>>, sheet |-> <<>>]
Entries == [line : Line, data : Data]

RosterPageTypeOK ==
  /\ enlisted \in Enlistments
  /\ campers \in Seq(Entries)
  /\ currentPage \in Nat \ {0}
  /\ drafts \in [Layout -> Enlistments]
  /\ editing \in [Layout -> SUBSET Line]
  /\ fetched.at \in {"closed", "asked", "answered", "done", "stuck"} /\ fetched.list \in Seq(Entries)
  /\ \A c \in RosterCall :
       /\ rosterCall[c].kind \in {"none", "add", "edit", "remove", "upload"}
       /\ rosterCall[c].at \in {"idle", "sent", "refresh", "answered"}
       /\ rosterCall[c].from \in Layout /\ rosterCall[c].line \in Line \cup {0}
       /\ rosterCall[c].list \in Seq(Entries)
  /\ rosterActs \in Nat
  /\ strain \subseteq {"others", "lost", "overlap", "turned"}
  /\ astray \in [Layout -> SUBSET Line]

\* findCampers: the active rows, by camper id.
Rows == Sublist([l \in Line |-> [line |-> l, data |-> enlisted[l]]], Entries)

RosterPageInit(acts) ==
  /\ enlisted \in IF acts = 0 THEN {[l \in Line |-> NoData]} ELSE Enrolment
  /\ campers = <<>> /\ currentPage = 1
  /\ drafts = [v \in Layout |-> [l \in Line |-> NoData]]
  /\ editing = [v \in Layout |-> {}] /\ astray = [v \in Layout |-> {}]
  /\ fetched = [at |-> IF acts = 0 THEN "closed" ELSE "asked", list |-> <<>>]
  /\ rosterCall = [c \in RosterCall |-> Idler]
  /\ rosterActs = acts
  /\ strain = {}
-----------------------------------------------------------------------------
(* What is in view, and how it changes. *)

TotalPages(list) == (Len(list) + PageSize - 1) \div PageSize
Slice(list, page) ==
  {list[k] : k \in DOMAIN list \cap ((page - 1) * PageSize + 1)..(page * PageSize)}
Mounted(list, page) == {e.line : e \in Slice(list, page)}
InView == Mounted(campers, currentPage)
Says(list, l) == (CHOOSE e \in {list[k] : k \in DOMAIN list} : e.line = l).data

\* A row that stays in view keeps its inputs; one that comes into view starts
\* with what the list says.  `closed' are the editors that close, `behind' the
\* inputs that what they stand for may have changed under.
Render(list, page, closed, behind) ==
  LET after == Mounted(list, page)
  IN /\ campers' = list
     /\ currentPage' = page
     /\ drafts' = [v \in Layout |-> [l \in Line |->
                    IF l \notin after THEN NoData
                    ELSE IF l \in InView THEN drafts[v][l] ELSE Says(list, l)]]
     /\ editing' = [v \in Layout |-> (editing[v] \cap after) \ closed[v]]
     /\ astray' = [v \in Layout |-> (astray[v] \cup behind[v]) \cap after \cap InView]
None == [v \in Layout |-> {}]

\* A call that a row made forgets the row when that goes out of view.
Calls(calls, list, page) ==
  [c \in RosterCall |->
     [calls[c] EXCEPT !.here = @ /\ (calls[c].line \in Mounted(list, page) \/ calls[c].kind = "add")]]
CallOver(c) == [rosterCall EXCEPT ![c] = Idler]

\* A call about a row that is under way while another page comes into view.
Turned(calls, page) ==
  {"turned" : c \in {b \in RosterCall : calls[b].kind \in {"edit", "remove"} /\ page # currentPage}}
-----------------------------------------------------------------------------
(* Opening the page. *)

FetchRead ==
  /\ fetched.at = "asked"
  /\ fetched' = [at |-> "answered", list |-> Rows]
  /\ UNCHANGED <<enlisted, view, rosterCall, rosterActs, strain>>

FetchShow ==
  /\ fetched.at = "answered"
  /\ Render(fetched.list, currentPage, None, None)
  /\ fetched' = [at |-> "done", list |-> <<>>]
  /\ UNCHANGED <<enlisted, rosterCall, rosterActs, strain>>

\* Nothing catches the failure: the page goes on loading.
FetchFails ==
  /\ fetched.at \in {"asked", "answered"}
  /\ fetched' = [at |-> "stuck", list |-> <<>>]
  /\ UNCHANGED <<enlisted, view, rosterCall, rosterActs, strain>>
-----------------------------------------------------------------------------
(* The calls of the page. *)

\* Two calls that may spoil each other: about one row, or one of them reads the
\* list again.
Overlaps(kind, l) ==
  \E c \in RosterCall : /\ rosterCall[c] # Idler
                        /\ \/ "upload" \in {kind, rosterCall[c].kind}
                           \/ rosterCall[c].line = l

Ask(c, record) ==
  /\ fetched.at = "done"
  /\ rosterCall[c] = Idler
  /\ rosterActs > 0
  /\ rosterActs' = rosterActs - 1
  /\ rosterCall' = [rosterCall EXCEPT ![c] = record]
  /\ strain' = IF Overlaps(record.kind, record.line) THEN strain \cup {"overlap"} ELSE strain
  /\ UNCHANGED <<enlisted, fetched>>

Posted(kind, v, l, d) == [Idler EXCEPT !.kind = kind, !.at = "sent", !.from = v, !.line = l,
                                     !.data = d, !.page = currentPage, !.here = TRUE]
Busy(kind, v, l) ==
  \E c \in RosterCall : /\ rosterCall[c].here /\ rosterCall[c].from = v
                        /\ rosterCall[c].kind = kind /\ rosterCall[c].line = l

\* What the buttons of a layout allow: one camper is added at a time; an editor
\* rests while it is saved, and nothing is deleted while it is edited.  A row of the
\* table rests while it is deleted (CamperRow.tsx:93), a card does not.
Barred(v, l) == v = "row" /\ Busy("remove", v, l)
MayAdd(v) == \A c \in RosterCall : rosterCall[c].kind = "add" => rosterCall[c].from # v
MaySave(v, l) == l \in InView /\ ~Busy("edit", v, l) /\ ~Barred(v, l)
MayDelete(v, l) == l \in InView \ editing[v] /\ ~Barred(v, l)

\* useCamperAdd
AddCamper(c, v, l, d) ==
  /\ MayAdd(v)
  /\ Ask(c, Posted("add", v, l, d))
  /\ UNCHANGED view

\* useCamperEdit: the inputs are sent as they are, whether touched or not.
SaveCamper(c, v, l, d) ==
  /\ MaySave(v, l)
  /\ Ask(c, Posted("edit", v, l, d))
  /\ drafts' = [drafts EXCEPT ![v][l] = d]
  /\ editing' = [editing EXCEPT ![v] = @ \cup {l}]
  /\ astray' = [astray EXCEPT ![v] = @ \ {l}]
  /\ UNCHANGED <<campers, currentPage>>

\* The inputs stay open while they are saved.
TypeOn(v, l, d) ==
  /\ Busy("edit", v, l)
  /\ drafts' = [drafts EXCEPT ![v][l] = d]
  /\ astray' = [astray EXCEPT ![v] = @ \cup {l}]
  /\ UNCHANGED <<enlisted, campers, currentPage, editing, fetched, rosterCall, rosterActs, strain>>

CancelEdit(v, l) ==
  /\ MaySave(v, l)
  /\ drafts' = [drafts EXCEPT ![v][l] = Says(campers, l)]
  /\ editing' = [editing EXCEPT ![v] = @ \ {l}]
  /\ astray' = [astray EXCEPT ![v] = @ \ {l}]
  /\ UNCHANGED <<enlisted, campers, currentPage, fetched, rosterCall, rosterActs, strain>>

DeleteCamper(c, v, l) ==
  /\ MayDelete(v, l)
  /\ Ask(c, Posted("remove", v, l, NoData))
  /\ UNCHANGED view

\* The button stays on while a sheet is uploaded.
UploadCampers(c, sheet) ==
  /\ Ask(c, [Posted("upload", "row", 0, NoData) EXCEPT !.sheet = sheet])
  /\ UNCHANGED view

\* Pagination: a page of the list; deletions under way know the page they began on.
TurnTo(page) ==
  /\ fetched.at = "done"
  /\ page \in 1..TotalPages(campers) \ {currentPage}
  /\ Render(campers, page, None, None)
  /\ rosterCall' = Calls(rosterCall, campers, page)
  /\ strain' = strain \cup Turned(rosterCall, page)
  /\ UNCHANGED <<enlisted, fetched, rosterActs>>
-----------------------------------------------------------------------------
(* The server. *)

Answers(c) == rosterCall' = [rosterCall EXCEPT ![c].at = "answered"]

\* An active row refuses another one with its camper id; a revoked one comes back.
AddWrite(c) ==
  /\ rosterCall[c].kind = "add" /\ rosterCall[c].at = "sent"
  /\ IF enlisted[rosterCall[c].line] = NoData
     THEN /\ enlisted' = [enlisted EXCEPT ![rosterCall[c].line] = rosterCall[c].data]
          /\ Answers(c)
     ELSE /\ rosterCall' = CallOver(c)
          /\ UNCHANGED enlisted
  /\ UNCHANGED <<view, fetched, rosterActs, strain>>

\* A row that was revoked meanwhile takes the update and stays revoked.
SaveWrite(c) ==
  LET l == rosterCall[c].line
  IN /\ rosterCall[c].kind = "edit" /\ rosterCall[c].at = "sent"
     /\ enlisted' = [enlisted EXCEPT ![l] = IF @ = NoData THEN @ ELSE rosterCall[c].data]
     /\ Answers(c)
     /\ UNCHANGED <<view, fetched, rosterActs, strain>>

DeleteWrite(c) ==
  /\ rosterCall[c].kind = "remove" /\ rosterCall[c].at = "sent"
  /\ enlisted' = [enlisted EXCEPT ![rosterCall[c].line] = NoData]
  /\ Answers(c)
  /\ UNCHANGED <<view, fetched, rosterActs, strain>>

UploadWrite(c) ==
  /\ rosterCall[c].kind = "upload" /\ rosterCall[c].at = "sent"
  /\ enlisted' = [l \in Line |-> IF l \in DOMAIN rosterCall[c].sheet
                                 THEN rosterCall[c].sheet[l] ELSE enlisted[l]]
  /\ rosterCall' = [rosterCall EXCEPT ![c].at = "refresh"]
  /\ UNCHANGED <<view, fetched, rosterActs, strain>>

UploadRefresh(c) ==
  /\ rosterCall[c].at = "refresh"
  /\ rosterCall' = [rosterCall EXCEPT ![c].at = "answered", ![c].list = Rows]
  /\ UNCHANGED <<enlisted, view, fetched, rosterActs, strain>>
-----------------------------------------------------------------------------
(* The answers, on the page as it is then. *)

Shows(c, list, page, closed, behind) ==
  /\ rosterCall[c].at = "answered"
  /\ Render(list, page, closed, behind)
  /\ strain' = strain \cup Turned(CallOver(c), page)
  /\ rosterCall' = Calls(CallOver(c), list, page)
  /\ UNCHANGED <<enlisted, fetched, rosterActs>>

Added(c) == Append(campers, [line |-> rosterCall[c].line, data |-> rosterCall[c].data])

\* The page goes to the end, where the new row is.
AddShow(c) ==
  /\ rosterCall[c].kind = "add"
  /\ Shows(c, Added(c), TotalPages(Added(c)), None, None)

\* The editor that was saved closes; the other one of the row knows nothing of it.
SaveShow(c) ==
  LET l == rosterCall[c].line
      own == [v \in Layout |-> IF rosterCall[c].here /\ rosterCall[c].from = v THEN {l} ELSE {}]
      list == [k \in DOMAIN campers |->
                 IF campers[k].line = l THEN [campers[k] EXCEPT !.data = rosterCall[c].data]
                 ELSE campers[k]]
  IN /\ rosterCall[c].kind = "edit"
     /\ Shows(c, list, currentPage, own, [v \in Layout |-> {l} \ own[v]])

Without(l) == Sublist(campers, {e \in Entries : e.line # l})

\* Variant: the page in view stays, empty as it may be.
DeleteShowStays(c) ==
  /\ rosterCall[c].kind = "remove"
  /\ Shows(c, Without(rosterCall[c].line), currentPage, None, None)

\* A page that the deletion empties is left: the one the row was deleted on.
DeleteShow(c) ==
  LET list == Without(rosterCall[c].line)
      total == TotalPages(list)
  IN /\ rosterCall[c].kind = "remove"
     /\ Shows(c, list, IF rosterCall[c].page > total /\ total > 0 THEN total ELSE currentPage,
              None, None)

UploadShow(c) ==
  /\ rosterCall[c].kind = "upload"
  /\ Shows(c, rosterCall[c].list, 1, None, [v \in Layout |-> InView])

\* A call fails before its write, or its answer is lost: an edit stays open.
RosterCallFails(c) ==
  /\ rosterCall[c] # Idler
  /\ rosterCall' = CallOver(c)
  /\ strain' = IF rosterCall[c].at = "sent" THEN strain ELSE strain \cup {"lost"}
  /\ UNCHANGED <<enlisted, view, fetched, rosterActs>>

\* Another administrator enlists, changes or revokes a row.
OthersEnlist(l, d) ==
  /\ rosterActs > 0 /\ enlisted[l] # d
  /\ rosterActs' = rosterActs - 1
  /\ enlisted' = [enlisted EXCEPT ![l] = d]
  /\ strain' = IF fetched.at = "asked" THEN strain ELSE strain \cup {"others"}
  /\ UNCHANGED <<view, fetched, rosterCall>>
-----------------------------------------------------------------------------
\* The calls of an administrator, and what follows on them.
RosterPageCall ==
  /\ rosterActs > 0
  /\ \E c \in RosterCall :
       \/ \E v \in Layout, l \in Line, d \in Data : AddCamper(c, v, l, d) \/ SaveCamper(c, v, l, d)
       \/ \E v \in Layout, l \in Line : DeleteCamper(c, v, l)
       \/ \E sheet \in CamperSheet : UploadCampers(c, sheet)

RosterPageStep ==
  \/ FetchRead \/ FetchShow \/ FetchFails
  \/ \E v \in Layout, l \in Line : CancelEdit(v, l) \/ \E d \in Data : TypeOn(v, l, d)
  \/ \E page \in 1..(MaxLine + 1) : TurnTo(page)
  \/ \E c \in RosterCall :
       \/ AddWrite(c) \/ SaveWrite(c) \/ DeleteWrite(c) \/ UploadWrite(c) \/ UploadRefresh(c)
       \/ AddShow(c) \/ SaveShow(c) \/ DeleteShow(c) \/ UploadShow(c)
       \/ RosterCallFails(c)
  \/ \E l \in Line, d \in Data \cup {NoData} : OthersEnlist(l, d)
-----------------------------------------------------------------------------
RosterPageRests == fetched.at = "done" /\ \A c \in RosterCall : rosterCall[c] = Idler

\* When no call is under way:
\*  - the page lists every active row, once, as it is, unless others wrote, an
\*    answer was lost or two calls overlapped that spoil each other;
\*  - the page in view is not empty while there are campers (ManageCamper.tsx:74),
\*    unless another page came into view while a row was saved or deleted;
\*  - in each layout an editor that is opened starts with what the row says, unless
\*    since it came into view or was last left the row was saved in the other layout,
\*    it was typed in while it was saved, or the list was read again (and nothing
\*    spoilt the list).
RosterPageFollows ==
  RosterPageRests =>
    /\ strain \cap {"others", "lost", "overlap"} = {} =>
         /\ \A l \in Line :
              {campers[k].data : k \in {j \in DOMAIN campers : campers[j].line = l}} = {enlisted[l]} \ {NoData}
              /\ Cardinality({k \in DOMAIN campers : campers[k].line = l}) <= 1
         /\ \A v \in Layout : \A l \in InView \ (editing[v] \cup astray[v]) :
              drafts[v][l] = Says(campers, l)
    /\ "turned" \notin strain /\ campers # <<>> => InView # {}
=============================================================================
