------------------------ MODULE OrganizationsProofs ------------------------
(***************************************************************************)
(* What holds of the organizations for any number of them and of calls     *)
(* that overlap: an invariant of the steps of module Organizations, which  *)
(* BackofficeProofs carries to the back office.                            *)
(*                                                                         *)
(* An update computes what it will write when it reads the row, so each    *)
(* part of the invariant speaks of the rows and, in the same words, of the *)
(* calls that have read and still have to write.                           *)
(***************************************************************************)
EXTENDS Organizations, TLAPS

Strained(what, o) == <<what, o>> \in orgStrain

WritersOf(o) == {c \in OrgCall : orgCall[c].org = o /\ orgCall[c].kind \in Writers}
LinksOf(o) == {c \in OrgCall : orgCall[c].org = o /\ orgCall[c].kind = "link"}

\* A row is not there at all or has a name, and everything that names an
\* organization, the lists, the form, the calls and the account of the member,
\* names one that is there.
Named ==
  /\ \A o \in Org : o \notin Made =>
       /\ org[o] = Unmade
       /\ organizations[o] = Unlisted /\ orgList.list[o] = Unlisted
       /\ modal.org # o /\ linkedIn[o] = NoSpace
       /\ \A c \in OrgCall : orgCall[c].org # o
  /\ \A c \in OrgCall : orgCall[c].kind \in {"none", "link"} \/ orgCall[c].name # NoLabel
  /\ profile.open => Home \in Made

\* The stages of each kind of call, and what a call holds.
Staged ==
  \A c \in OrgCall : LET call == orgCall[c] IN
    /\ call.kind = "none" => call = NoOrgCall
    /\ call.kind = "create" => call.at = IF call.org = NoOrg THEN "read" ELSE "answered"
    /\ call.kind \in Writers =>
         call.at \in {"read", "write", "answered"} /\ call.org \in Org
    /\ call.kind \in {"clear", "space"} => ~call.mine /\ call.token = NoToken
    /\ call.kind # "none" /\ call.kind # "link" /\ call.at = "answered" => call.mine
    /\ call.kind = "link" =>
         /\ call.at \in {"read", "cache", "check", "write", "answered"}
         /\ call.org = Home /\ profile.open /\ ~call.mine /\ call.space # NoSpace
         /\ call.at \in {"cache", "check"} => call.held # NoToken

\* One save of the page at a time, and only when the list is shown.
PageFirst ==
  /\ modal.open => orgList.at = "done"
  /\ \A c \in OrgCall : orgCall[c].mine => orgList.at = "done"
  /\ \A c, d \in OrgCall : orgCall[c].mine /\ orgCall[d].mine => c = d

\* Unless two updates overlapped, the row has the token that was given last,
\* and an update that has read will write what its caller meant.
TokenStands ==
  \A o \in Org : ~Strained("overlap", o) =>
    /\ org[o].token = given[o]
    /\ \A c, d \in WritersOf(o) : c = d
    /\ \A c \in WritersOf(o) : orgCall[c].at = "write" => orgCall[c].held = Meant(c)

\* A save of the page that is answered, with what the answer brings.
SavedOf(o) == {c \in OrgCall : orgCall[c].mine /\ orgCall[c].at = "answered" /\ orgCall[c].org = o}
Brings(c) == [name |-> orgCall[c].name, space |-> orgCall[c].space]

\* Unless others wrote or an answer was lost, the list that comes is the table,
\* and the one that is shown is it but for a save that is answered.
PageFollows ==
  \A o \in Org : ~Strained("others", o) /\ ~Strained("lost", o) =>
    /\ orgList.at = "answered" => orgList.list[o] = Lists[o]
    /\ \A c \in SavedOf(o) : Brings(c) = Lists[o]
    /\ orgList.at = "done" /\ SavedOf(o) = {} => organizations[o] = Lists[o]

\* The workspace of a row, or of an update that has read, is that of its token.
SpaceOfToken ==
  \A o \in Org : ~Strained("hand", o) =>
    /\ org[o].token # NoToken => org[o].space = SpaceOf[org[o].token]
    /\ \A c \in WritersOf(o) :
         orgCall[c].at = "write" /\ orgCall[c].kind # "space" /\ orgCall[c].held # NoToken =>
           orgCall[c].space = SpaceOf[orgCall[c].held]

\* The client, or the one that is about to be kept, has the token of the row.
ClientOfToken ==
  \A o \in Org : ~Strained("replaced", o) =>
    /\ client[o] \in {NoToken, org[o].token}
    /\ \A c \in LinksOf(o) : orgCall[c].at = "cache" => orgCall[c].held = org[o].token

\* The account that is linked, or passed the check, is of the workspace.
AccountOfSpace ==
  \A o \in Org : ~Strained("moved", o) =>
    /\ NoSpace \in {linkedIn[o], org[o].space} \/ linkedIn[o] = org[o].space
    /\ \A c \in LinksOf(o) : orgCall[c].at = "write" => org[o].space \in {NoSpace, orgCall[c].space}

\* The page of the member shows the account but for one that is answered.
ProfileFollows ==
  profile.open /\ ~Strained("links", Home) /\ ~Strained("lost", Home) =>
    /\ \A c, d \in LinksOf(Home) : c = d
    /\ \A c \in LinksOf(Home) : orgCall[c].at = "answered" => orgCall[c].space = linkedIn[Home]
    /\ (\A c \in LinksOf(Home) : orgCall[c].at # "answered") => profile.account = linkedIn[Home]

OrgShape == OrganizationsTypeOK /\ Named /\ Staged /\ PageFirst
OrgInv ==
  /\ OrgShape /\ TokenStands /\ PageFollows /\ SpaceOfToken /\ ClientOfToken /\ AccountOfSpace
  /\ ProfileFollows
-----------------------------------------------------------------------------
OrgNext == OrganizationsCall \/ OrganizationsStep

CallRecord ==
  [kind : {"none", "create", "edit", "clear", "space", "link"},
   at : {"idle", "read", "cache", "check", "write", "answered"}, org : Org \cup {NoOrg},
   name : Label \cup {NoLabel}, token : Token \cup {NoToken}, held : Token \cup {NoToken},
   space : Space \cup {NoSpace}, mine : BOOLEAN]

LEMMA NoOrgCallIs ==
  /\ NoOrgCall \in CallRecord
  /\ NoOrgCall.kind = "none" /\ NoOrgCall.at = "idle" /\ NoOrgCall.org = NoOrg /\ ~NoOrgCall.mine
  BY DEF NoOrgCall, CallRecord

LEMMA TeamType ==
  ASSUME NEW t \in Token \cup {NoToken}
  PROVE  TeamOf(t) \in Space \cup {NoSpace}
  BY TokensHaveSpaces DEF TeamOf

\* What a call may be when it arrives: the page saves, others call the API, or
\* the member links an account.
FromPage(call) ==
  /\ MaySubmit /\ call.mine /\ call.name \in Label /\ call.space = NoSpace
  /\ call.org = modal.org /\ call.kind = IF modal.org = NoOrg THEN "create" ELSE "edit"
FromApi(call) ==
  /\ ~call.mine /\ call.name \in Label
  /\ call.kind \in {"create", "edit", "clear", "space"}
  /\ call.org \in IF call.kind = "create" THEN {NoOrg} ELSE Made
  /\ call.kind \in {"clear", "space"} => call.token = NoToken
FromMember(call) ==
  MayLink /\ ~call.mine /\ call.kind = "link" /\ call.org = Home /\ call.space \in Space

Arrives(c, call) ==
  /\ call \in CallRecord /\ call.at = "read"
  /\ OrgCallArrives(c, call) /\ UNCHANGED orgPage
  /\ FromPage(call) \/ FromApi(call) \/ FromMember(call)

LEMMA CallArrivals ==
  ASSUME OrganizationsTypeOK,
         OrganizationsCall \/ \E c \in OrgCall, space \in Space : EditSave(c, space)
  PROVE  \E c \in OrgCall, call \in CallRecord : Arrives(c, call)
<1>1. ASSUME NEW c \in OrgCall, NEW name \in Label, NEW token \in Token \cup {NoToken},
             Submit(c, name, token)
      PROVE  \E call \in CallRecord : Arrives(c, call)
  <2> DEFINE call == [NoOrgCall EXCEPT
                        !.kind = IF modal.org = NoOrg THEN "create" ELSE "edit", !.at = "read",
                        !.org = modal.org, !.name = name, !.token = token, !.mine = TRUE]
  <2>1. modal.org \in Org \cup {NoOrg}
    BY DEF OrganizationsTypeOK
  <2>2. call \in CallRecord /\ call.at = "read" /\ FromPage(call)
    BY <1>1, <2>1 DEF Submit, FromPage, CallRecord, NoOrgCall
  <2>3. OrgCallArrives(c, call) /\ UNCHANGED orgPage
    BY <1>1 DEF Submit
  <2> HIDE DEF call
  <2>4. QED
    BY <2>2, <2>3 DEF Arrives
<1>2. ASSUME NEW c \in OrgCall, NEW kind \in {"create", "edit", "clear", "space"},
             NEW o \in Org \cup {NoOrg}, NEW name \in Label,
             NEW token \in Token \cup {NoToken}, NEW space \in Space \cup {NoSpace},
             OthersCall(c, kind, o, name, token, space)
      PROVE  \E call \in CallRecord : Arrives(c, call)
  <2> DEFINE call == [NoOrgCall EXCEPT !.kind = kind, !.at = "read", !.org = o, !.name = name,
                                   !.token = token, !.space = space]
  <2>1. call \in CallRecord /\ call.at = "read" /\ FromApi(call)
    BY <1>2 DEF OthersCall, FromApi, CallRecord, NoOrgCall
  <2>2. OrgCallArrives(c, call) /\ UNCHANGED orgPage
    BY <1>2 DEF OthersCall
  <2> HIDE DEF call
  <2>3. QED
    BY <2>1, <2>2 DEF Arrives
<1>3. ASSUME NEW c \in OrgCall, NEW space \in Space, EditSave(c, space)
      PROVE  \E call \in CallRecord : Arrives(c, call)
  <2> DEFINE call == [NoOrgCall EXCEPT !.kind = "link", !.at = "read", !.org = Home,
                                          !.space = space]
  <2>1. call \in CallRecord /\ call.at = "read" /\ FromMember(call)
    BY <1>3, HomeIsAnOrg DEF EditSave, FromMember, CallRecord, NoOrgCall
  <2>2. OrgCallArrives(c, call) /\ UNCHANGED orgPage
    BY <1>3 DEF EditSave
  <2> HIDE DEF call
  <2>3. QED
    BY <2>1, <2>2 DEF Arrives
<1>4. QED
  BY <1>1, <1>2, <1>3 DEF OrganizationsCall

\* Every step: a call arrives, one goes on, or the pages alone change.
PagesAlone ==
  OrgFetchRead \/ OrgFetchShow \/ OrgFetchFails \/ CloseForm \/ OpenProfile
    \/ HandleCreate \/ \E o \in Org : HandleEdit(o)

CallGoesOn(c) ==
  \/ SaveAnswered(c) \/ CreateOrganization(c) \/ UpdateRead(c) \/ UpdateOrganization(c)
  \/ LinkRead(c) \/ KeepClient(c) \/ LinkCheck(c) \/ LinkWrite(c) \/ LinkAnswered(c)
  \/ OrgCallFails(c)

LEMMA OrgSteps ==
  ASSUME OrganizationsTypeOK, OrgNext
  PROVE  \/ PagesAlone \/ Restarts
         \/ \E c \in OrgCall, call \in CallRecord : Arrives(c, call)
         \/ \E c \in OrgCall : CallGoesOn(c)
  BY CallArrivals DEF OrgNext, OrganizationsStep, PagesAlone, CallGoesOn

\* The types of the rows and of the pages.
RowTypes ==
  /\ org \in [Org -> OrgRow]
  /\ linkedIn \in [Org -> Space \cup {NoSpace}]
  /\ client \in [Org -> Token \cup {NoToken}]
  /\ given \in [Org -> Token \cup {NoToken}]
  /\ orgActs \in Nat
  /\ orgStrain \subseteq OrgStrains \X Org
PageTypes ==
  /\ orgList \in [at : {"closed", "asked", "answered", "done", "stuck"}, list : Listing]
  /\ organizations \in Listing
  /\ modal \in [open : BOOLEAN, org : Org \cup {NoOrg}]
  /\ profile \in [open : BOOLEAN, enabled : BOOLEAN, account : Space \cup {NoSpace}]
CallTypes == orgCall \in [OrgCall -> CallRecord]

LEMMA OrgTypes == OrganizationsTypeOK <=> RowTypes /\ PageTypes /\ CallTypes
  BY DEF OrganizationsTypeOK, RowTypes, PageTypes, CallTypes, CallRecord

\* How the call of a step looks after it: the fields that the step does not
\* name stay as they are.
Keeps(new, call, fields) ==
  /\ "kind" \in fields => new.kind = call.kind
  /\ "org" \in fields => new.org = call.org
  /\ "name" \in fields => new.name = call.name
  /\ "token" \in fields => new.token = call.token
  /\ "held" \in fields => new.held = call.held
  /\ "space" \in fields => new.space = call.space
  /\ "mine" \in fields => new.mine = call.mine
AllFields == {"kind", "org", "name", "token", "held", "space", "mine"}
Becomes(c, new) == new \in CallRecord /\ orgCall' = [orgCall EXCEPT ![c] = new]

LEMMA RepliesIs ==
  ASSUME NEW c \in OrgCall, NEW call \in CallRecord, Replies(c, call)
  PROVE  \E new : /\ Becomes(c, new)
                  /\ \/ ~call.mine /\ new = NoOrgCall
                     \/ call.mine /\ new.at = "answered" /\ Keeps(new, call, AllFields)
<1> DEFINE new == IF call.mine THEN [call EXCEPT !.at = "answered"] ELSE NoOrgCall
<1>1. new \in CallRecord
  BY NoOrgCallIs DEF CallRecord
<1>2. call.mine => new.at = "answered" /\ Keeps(new, call, AllFields)
  BY DEF CallRecord, Keeps
<1>3. orgCall' = [orgCall EXCEPT ![c] = new]
  BY DEF Replies
<1>4. ~call.mine => new = NoOrgCall
  OBVIOUS
<1> HIDE DEF new
<1>5. QED
  BY <1>1, <1>2, <1>3, <1>4 DEF Becomes

LEMMA CreateIs ==
  ASSUME RowTypes, CallTypes, NEW c \in OrgCall, CreateOrganization(c)
  PROVE  \E o \in Org \ Made, new \in CallRecord :
           LET call == orgCall[c] space == TeamOf(call.token) IN
           /\ Becomes(c, new) /\ call.kind = "create" /\ call.at = "read"
           /\ org' = [org EXCEPT ![o] = [name |-> call.name, token |-> call.token,
                                         space |-> space]]
           /\ given' = [given EXCEPT ![o] = call.token]
           /\ orgStrain' = orgStrain \cup FromOthers(c, o)
           /\ \/ ~call.mine /\ new = NoOrgCall
              \/ /\ call.mine /\ new.at = "answered" /\ new.org = o /\ new.space = space
                 /\ Keeps(new, call, AllFields \ {"org", "space"})
<1> DEFINE call == orgCall[c]
           space == TeamOf(call.token)
<1>1. call \in CallRecord /\ space \in Space \cup {NoSpace}
  BY TeamType DEF CallTypes, CallRecord
<1>2. PICK o \in Org \ Made :
        /\ org' = [org EXCEPT ![o] = [name |-> call.name, token |-> call.token, space |-> space]]
        /\ given' = [given EXCEPT ![o] = call.token]
        /\ Replies(c, [call EXCEPT !.org = o, !.space = space])
        /\ orgStrain' = orgStrain \cup FromOthers(c, o)
  BY DEF CreateOrganization
<1> DEFINE made == [call EXCEPT !.org = o, !.space = space]
<1>3. /\ made \in CallRecord /\ made.org = o /\ made.space = space
      /\ Keeps(made, call, AllFields \ {"org", "space"})
  BY <1>1 DEF CallRecord, Keeps, AllFields
<1>4. Replies(c, made)
  BY <1>2
<1> HIDE DEF made
<1>5. PICK new : /\ Becomes(c, new)
                 /\ \/ ~made.mine /\ new = NoOrgCall
                    \/ made.mine /\ new.at = "answered" /\ Keeps(new, made, AllFields)
  BY <1>3, <1>4, RepliesIs
<1>6. call.kind = "create" /\ call.at = "read"
  BY DEF CreateOrganization
<1>7. \/ ~call.mine /\ new = NoOrgCall
      \/ /\ call.mine /\ new.at = "answered" /\ new.org = o /\ new.space = space
         /\ Keeps(new, call, AllFields \ {"org", "space"})
  BY <1>3, <1>5 DEF Keeps, AllFields
<1>8. new \in CallRecord
  BY <1>5 DEF Becomes
<1>9. QED
  BY <1>2, <1>5, <1>6, <1>7, <1>8

LEMMA UpdateReadIs ==
  ASSUME RowTypes, CallTypes, Staged, NEW c \in OrgCall, UpdateRead(c)
  PROVE  \E new : LET call == orgCall[c] row == org[call.org] IN
           /\ Becomes(c, new) /\ new.at = "write" /\ Keeps(new, call, AllFields \ {"held", "space"})
           /\ call.org \in Org
           /\ new.held = IF call.kind = "clear" THEN NoToken
                         ELSE IF call.token # NoToken THEN call.token ELSE row.token
           /\ new.space = IF call.kind = "clear" THEN NoSpace
                          ELSE IF call.kind = "space" THEN call.space
                          ELSE IF call.token # NoToken THEN TeamOf(call.token) ELSE row.space
<1> DEFINE call == orgCall[c]
           row == org[call.org]
           held == CASE call.kind = "clear" -> NoToken
                     [] call.token # NoToken -> call.token
                     [] OTHER -> row.token
           space == CASE call.kind = "clear" -> NoSpace
                      [] call.kind = "space" -> call.space
                      [] call.token # NoToken -> TeamOf(call.token)
                      [] OTHER -> row.space
<1>1. /\ call \in CallRecord /\ call.kind \in Writers /\ call.org \in Org
      /\ call.kind \in {"clear", "space"} => call.token = NoToken
  BY DEF CallTypes, UpdateRead, Staged
<1>2. row \in OrgRow /\ TeamOf(call.token) \in Space \cup {NoSpace}
  BY <1>1, TeamType DEF RowTypes, CallRecord
<1>3. held = IF call.kind = "clear" THEN NoToken
             ELSE IF call.token # NoToken THEN call.token ELSE row.token
  BY <1>1
<1>4. space = IF call.kind = "clear" THEN NoSpace
              ELSE IF call.kind = "space" THEN call.space
              ELSE IF call.token # NoToken THEN TeamOf(call.token) ELSE row.space
  BY <1>1
<1>5. orgCall' = [orgCall EXCEPT ![c].at = "write", ![c].held = held, ![c].space = space]
  BY DEF UpdateRead
<1>6. held \in Token \cup {NoToken} /\ space \in Space \cup {NoSpace}
  BY <1>1, <1>2, <1>3, <1>4 DEF CallRecord, OrgRow
<1> HIDE DEF held, space
<1> DEFINE new == [call EXCEPT !.at = "write", !.held = held, !.space = space]
<1>7. /\ new \in CallRecord /\ new.at = "write" /\ new.held = held /\ new.space = space
      /\ Keeps(new, call, AllFields \ {"held", "space"})
  BY <1>1, <1>6 DEF CallRecord, Keeps, AllFields
<1>8. orgCall' = [orgCall EXCEPT ![c] = new]
  BY <1>5 DEF CallTypes
<1> HIDE DEF new
<1>9. QED
  BY <1>1, <1>3, <1>4, <1>7, <1>8 DEF Becomes

LEMMA UpdateIs ==
  ASSUME CallTypes, Staged, NEW c \in OrgCall, UpdateOrganization(c)
  PROVE  \E new : LET call == orgCall[c] IN
           /\ Becomes(c, new) /\ call.org \in Org
           /\ \/ ~call.mine /\ new = NoOrgCall
              \/ call.mine /\ new.at = "answered" /\ Keeps(new, call, AllFields)
<1>1. orgCall[c] \in CallRecord
  BY DEF CallTypes
<1>2. orgCall[c].org \in Org /\ Replies(c, orgCall[c])
  BY DEF UpdateOrganization, Staged
<1>3. QED
  BY <1>1, <1>2, RepliesIs

LEMMA LinkToIs ==
  ASSUME CallTypes, NEW c \in OrgCall, NEW stage \in {"cache", "check", "write"},
         NEW t \in Token \cup {NoToken}, LinkTo(c, stage, t)
  PROVE  \E new : /\ Becomes(c, new) /\ new.at = stage /\ new.held = t
                  /\ Keeps(new, orgCall[c], AllFields \ {"held"})
<1> DEFINE new == [orgCall[c] EXCEPT !.at = stage, !.held = t]
<1>1. orgCall[c] \in CallRecord
  BY DEF CallTypes
<1>2. /\ new \in CallRecord /\ new.at = stage /\ new.held = t
      /\ Keeps(new, orgCall[c], AllFields \ {"held"})
  BY <1>1 DEF CallRecord, Keeps, AllFields
<1>3. orgCall' = [orgCall EXCEPT ![c] = new]
  BY DEF LinkTo, CallTypes
<1> HIDE DEF new
<1>4. QED
  BY <1>2, <1>3 DEF Becomes

LEMMA LinkWriteIs ==
  ASSUME CallTypes, NEW c \in OrgCall, LinkWrite(c)
  PROVE  \E new : /\ Becomes(c, new) /\ new.at = "answered"
                  /\ Keeps(new, orgCall[c], AllFields)
<1> DEFINE new == [orgCall[c] EXCEPT !.at = "answered"]
<1>1. orgCall[c] \in CallRecord
  BY DEF CallTypes
<1>2. new \in CallRecord /\ new.at = "answered" /\ Keeps(new, orgCall[c], AllFields)
  BY <1>1 DEF CallRecord, Keeps
<1>3. orgCall' = [orgCall EXCEPT ![c] = new]
  BY DEF LinkWrite
<1> HIDE DEF new
<1>4. QED
  BY <1>2, <1>3 DEF Becomes

\* A call that ends leaves its place.
LEMMA EndsIs ==
  ASSUME NEW c \in OrgCall,
         \/ SaveAnswered(c) \/ LinkAnswered(c) \/ OrgCallFails(c)
         \/ OrgCallEnds(c)
  PROVE  Becomes(c, NoOrgCall)
  BY NoOrgCallIs DEF SaveAnswered, LinkAnswered, OrgCallFails, OrgCallEnds, Becomes

\* A link goes from stage to stage.
LEMMA LinkReadIs ==
  ASSUME RowTypes, CallTypes, Staged, NEW c \in OrgCall, LinkRead(c)
  PROVE  LET call == orgCall[c] o == call.org IN
         /\ call.kind = "link" /\ o = Home /\ UNCHANGED orgRows /\ UNCHANGED client
         /\ \/ Becomes(c, NoOrgCall)
            \/ \E new : /\ Becomes(c, new) /\ new.at \in {"cache", "check"}
                        /\ new.held \in Token /\ Keeps(new, call, AllFields \ {"held"})
                        /\ new.at = "check" => new.held = client[o]
                        /\ new.at = "cache" => new.held = org[o].token /\ client[o] = NoToken
<1> DEFINE call == orgCall[c]
           o == call.org
<1>1. call.kind = "link" /\ o = Home /\ o \in Org
  BY HomeIsAnOrg DEF LinkRead, Staged
<1>2. client[o] \in Token \cup {NoToken} /\ org[o].token \in Token \cup {NoToken}
  BY <1>1 DEF RowTypes, OrgRow
<1>3. CASE LinkTo(c, "check", client[o]) /\ client[o] # NoToken
  <2>1. PICK new : /\ Becomes(c, new) /\ new.at = "check" /\ new.held = client[o]
                   /\ Keeps(new, call, AllFields \ {"held"})
    BY <1>2, <1>3, LinkToIs
  <2>2. new.held \in Token
    BY <1>2, <1>3, <2>1
  <2>3. QED
    BY <1>1, <2>1, <2>2 DEF LinkRead
<1>4. CASE LinkTo(c, "cache", org[o].token) /\ org[o].token # NoToken /\ client[o] = NoToken
  <2>1. PICK new : /\ Becomes(c, new) /\ new.at = "cache" /\ new.held = org[o].token
                   /\ Keeps(new, call, AllFields \ {"held"})
    <3> DEFINE t == org[o].token
    <3>1. t \in Token \cup {NoToken} /\ LinkTo(c, "cache", t)
      BY <1>2, <1>4
    <3> HIDE DEF t
    <3>2. \E new : /\ Becomes(c, new) /\ new.at = "cache" /\ new.held = t
                   /\ Keeps(new, call, AllFields \ {"held"})
      BY <3>1, LinkToIs
    <3>3. QED
      BY <3>2 DEF t
  <2>2. new.held \in Token
    BY <1>2, <1>4, <2>1
  <2>3. QED
    BY <1>1, <1>4, <2>1, <2>2 DEF LinkRead
<1>5. CASE OrgCallEnds(c)
  BY <1>1, <1>5, EndsIs DEF LinkRead
<1>6. QED
  BY <1>3, <1>4, <1>5 DEF LinkRead

LEMMA KeepClientIs ==
  ASSUME RowTypes, CallTypes, Staged, NEW c \in OrgCall, KeepClient(c)
  PROVE  LET call == orgCall[c] IN
         /\ call.kind = "link" /\ call.org = Home /\ call.held \in Token
         /\ client' = [client EXCEPT ![Home] = call.held]
         /\ \E new : Becomes(c, new) /\ new.at = "check" /\ Keeps(new, call, AllFields)
<1>1. /\ orgCall[c] \in CallRecord /\ orgCall[c].kind = "link" /\ orgCall[c].org = Home
      /\ orgCall[c].held # NoToken
  BY DEF KeepClient, Staged, CallTypes
<1>2. orgCall[c].held \in Token
  BY <1>1 DEF CallRecord
<1>3. PICK new : /\ Becomes(c, new) /\ new.at = "check" /\ new.held = orgCall[c].held
                 /\ Keeps(new, orgCall[c], AllFields \ {"held"})
  BY <1>2, LinkToIs DEF KeepClient
<1>4. Keeps(new, orgCall[c], AllFields)
  BY <1>3 DEF Keeps, AllFields
<1>5. QED
  BY <1>1, <1>2, <1>3, <1>4 DEF KeepClient

LEMMA LinkCheckIs ==
  ASSUME CallTypes, Staged, NEW c \in OrgCall, LinkCheck(c)
  PROVE  LET call == orgCall[c] IN
         /\ call.kind = "link" /\ call.org = Home /\ UNCHANGED orgRows /\ UNCHANGED client
         /\ \/ Becomes(c, NoOrgCall)
            \/ \E new : /\ Becomes(c, new) /\ new.at = "write"
                        /\ Keeps(new, call, AllFields \ {"held"})
                        /\ org[Home].space \in {NoSpace, call.space}
<1>1. orgCall[c].kind = "link" /\ orgCall[c].org = Home
  BY DEF LinkCheck, Staged
<1>2. CASE LinkTo(c, "write", NoToken) /\ org[orgCall[c].org].space \in {NoSpace, orgCall[c].space}
  BY <1>1, <1>2, LinkToIs DEF LinkCheck
<1>3. CASE OrgCallEnds(c)
  BY <1>1, <1>3, EndsIs DEF LinkCheck
<1>4. QED
  BY <1>2, <1>3 DEF LinkCheck

LEMMA OrgTypeStep ==
  ASSUME OrgShape, OrgNext
  PROVE  OrganizationsTypeOK'
<1> USE DEF OrgShape
<1>1. RowTypes /\ PageTypes /\ CallTypes
  BY OrgTypes
<1>2. CASE PagesAlone
  <2>1. UNCHANGED <<orgRows, client, orgCall, orgActs, orgStrain>>
    BY <1>2 DEF PagesAlone, OrgFetchRead, OrgFetchShow, OrgFetchFails, CloseForm, OpenProfile,
       HandleCreate, HandleEdit, OpenForm
  <2>2. Lists \in Listing
    BY <1>1 DEF Lists, Listing, RowTypes, OrgRow
  <2>3. PageTypes'
    <3>1. CASE OrgFetchRead
      BY <1>1, <2>2, <3>1 DEF OrgFetchRead, PageTypes
    <3>2. CASE OrgFetchShow
      BY <1>1, <3>2 DEF OrgFetchShow, PageTypes
    <3>3. CASE OrgFetchFails
      BY <1>1, <3>3 DEF OrgFetchFails, PageTypes
    <3>4. CASE CloseForm
      BY <1>1, <3>4 DEF CloseForm, PageTypes, Closed
    <3>5. CASE OpenProfile
      <4>1. MyProfile \in [open : BOOLEAN, enabled : BOOLEAN, account : Space \cup {NoSpace}]
        BY <1>1, HomeIsAnOrg DEF MyProfile, RowTypes
      <4>2. profile' = MyProfile /\ UNCHANGED orgPage
        BY <3>5, <2>1 DEF OpenProfile
      <4>3. QED
        BY <1>1, <4>1, <4>2 DEF PageTypes, orgPage
    <3>6. ASSUME NEW o \in Org \cup {NoOrg}, OpenForm(o) PROVE PageTypes'
      BY <1>1, <3>6 DEF OpenForm, PageTypes
    <3>7. QED
      BY <1>2, <3>1, <3>2, <3>3, <3>4, <3>5, <3>6 DEF PagesAlone, HandleCreate, HandleEdit
  <2>4. RowTypes' /\ CallTypes'
    BY <1>1, <2>1 DEF RowTypes, CallTypes, orgRows
  <2>5. QED
    BY <2>3, <2>4 DEF RowTypes, PageTypes, CallTypes, OrganizationsTypeOK, CallRecord
<1>3. CASE Restarts
  <2>1. CallTypes'
    BY <1>1, <1>3, NoOrgCallIs DEF Restarts, CallTypes
  <2>2. RowTypes' /\ PageTypes'
    BY <1>1, <1>3 DEF Restarts, RowTypes, PageTypes, orgRows, orgPage
  <2>3. QED
    BY <2>1, <2>2 DEF RowTypes, PageTypes, CallTypes, OrganizationsTypeOK, CallRecord
<1>4. ASSUME NEW c \in OrgCall, NEW call \in CallRecord, Arrives(c, call)
      PROVE  OrganizationsTypeOK'
  <2>1. CallTypes' /\ PageTypes'
    BY <1>1, <1>4 DEF Arrives, OrgCallArrives, CallTypes, PageTypes, orgPage
  <2>2. RowTypes'
    BY <1>1, <1>4 DEF Arrives, OrgCallArrives, RowTypes, orgRows, OrgStrains
  <2>3. QED
    BY <2>1, <2>2 DEF RowTypes, PageTypes, CallTypes, OrganizationsTypeOK, CallRecord
<1>5. ASSUME NEW c \in OrgCall, CallGoesOn(c) PROVE OrganizationsTypeOK'
  <2> DEFINE call == orgCall[c]
  <2>1. call \in CallRecord
    BY <1>1 DEF CallTypes
  <2>2. ASSUME NEW new, Becomes(c, new) PROVE CallTypes'
    BY <1>1, <2>2 DEF CallTypes, Becomes
  <2>3. CallTypes'
    BY <1>1, <1>5, <2>2, EndsIs, CreateIs, UpdateReadIs, UpdateIs, LinkReadIs, KeepClientIs,
       LinkCheckIs, LinkWriteIs DEF CallGoesOn
  <2>4. PageTypes'
    <3>1. CASE SaveAnswered(c)
      <4>1. call.org \in Org
        BY <2>1, <3>1 DEF SaveAnswered, Staged, Writers, CallRecord, NoOrgCall
      <4>2. QED
        BY <1>1, <2>1, <3>1, <4>1 DEF SaveAnswered, PageTypes, CallRecord, Listing, Closed
    <3>2. CASE LinkAnswered(c)
      BY <1>1, <2>1, <3>2 DEF LinkAnswered, PageTypes, CallRecord, orgPage
    <3>3. CASE UNCHANGED <<orgPage, profile>>
      BY <1>1, <3>3 DEF PageTypes, orgPage
    <3>4. QED
      BY <1>5, <3>1, <3>2, <3>3 DEF CallGoesOn, CreateOrganization, UpdateRead, UpdateOrganization,
         LinkRead, KeepClient, LinkCheck, LinkWrite, OrgCallFails
  <2>5. RowTypes'
    <3>1. CASE CreateOrganization(c)
      <4>1. PICK o \in Org \ Made, new \in CallRecord :
              /\ org' = [org EXCEPT ![o] = [name |-> call.name, token |-> call.token,
                                            space |-> TeamOf(call.token)]]
              /\ given' = [given EXCEPT ![o] = call.token]
              /\ orgStrain' = orgStrain \cup FromOthers(c, o)
        BY <1>1, <3>1, CreateIs
      <4>2. QED
        BY <1>1, <2>1, <3>1, <4>1, TeamType
        DEF CreateOrganization, RowTypes, CallRecord, OrgRow, FromOthers, OrgStrains
    <3>2. CASE UpdateOrganization(c)
      <4>1. call.org \in Org /\ Meant(c) \in Token \cup {NoToken}
        BY <1>1, <2>1, <3>2, UpdateIs DEF Meant, RowTypes, CallRecord
      <4>2. QED
        BY <1>1, <2>1, <3>2, <4>1
        DEF UpdateOrganization, RowTypes, CallRecord, OrgRow, FromOthers, OrgStrains
    <3>3. CASE KeepClient(c)
      <4>1. client' \in [Org -> Token \cup {NoToken}]
        BY <1>1, <3>3, KeepClientIs, HomeIsAnOrg DEF RowTypes
      <4>2. QED
        BY <1>1, <3>3, <4>1 DEF KeepClient, RowTypes, orgRows
    <3>4. CASE LinkWrite(c)
      BY <1>1, <2>1, <3>4 DEF LinkWrite, RowTypes, CallRecord
    <3>5. CASE OrgCallFails(c)
      <4>1. call.at = "answered" => call.org \in Org
        BY <2>1, <3>5, HomeIsAnOrg DEF Staged, Writers, CallRecord, NoOrgCall
      <4>2. QED
        BY <1>1, <3>5, <4>1 DEF OrgCallFails, RowTypes, orgRows, OrgStrains
    <3>6. CASE UNCHANGED <<orgRows, client, orgActs, orgStrain>>
      BY <1>1, <3>6 DEF RowTypes, orgRows
    <3>7. QED
      BY <1>5, <3>1, <3>2, <3>3, <3>4, <3>5, <3>6 DEF CallGoesOn, SaveAnswered, UpdateRead,
         LinkRead, LinkCheck, LinkAnswered
  <2>6. QED
    BY <2>3, <2>4, <2>5 DEF RowTypes, PageTypes, CallTypes, OrganizationsTypeOK, CallRecord
<1>6. QED
  BY <1>1, <1>2, <1>3, <1>4, <1>5, OrgSteps
-----------------------------------------------------------------------------
\* What arrives: a new call where there was none, and the strains it brings.
LEMMA ArrivesIs ==
  ASSUME CallTypes, NEW c \in OrgCall, NEW call, Arrives(c, call)
  PROVE  /\ orgCall[c] = NoOrgCall /\ Becomes(c, call) /\ orgStrain \subseteq orgStrain'
         /\ UNCHANGED orgRows /\ UNCHANGED client /\ UNCHANGED profile /\ UNCHANGED orgPage
  BY DEF Arrives, OrgCallArrives, Becomes

\* The calls after a step on one of them.
LEMMA OtherCalls ==
  ASSUME CallTypes, NEW c \in OrgCall, NEW new, Becomes(c, new)
  PROVE  orgCall'[c] = new /\ \A d \in OrgCall \ {c} : orgCall'[d] = orgCall[d]
  BY DEF CallTypes, Becomes

\* A call that goes on is for the same organization, or is gone; one that creates
\* gets its organization.
Follows(c, call, new) ==
  \/ new = NoOrgCall
  \/ /\ call.kind = "create" /\ CreateOrganization(c)
     /\ call.mine /\ new.at = "answered" /\ new.org \in Org
     /\ Keeps(new, call, AllFields \ {"org", "space"})
  \/ /\ call.kind \in Writers /\ Keeps(new, call, AllFields \ {"held", "space"})
     /\ \/ UpdateRead(c) /\ new.at = "write"
        \/ UpdateOrganization(c) /\ new.at = "answered" /\ call.mine
  \/ /\ call.kind = "link" /\ Keeps(new, call, AllFields \ {"held"})
     /\ \/ /\ LinkRead(c) /\ new.at \in {"cache", "check"} /\ new.held # NoToken
           /\ new.at = "cache" => new.held = org[Home].token
        \/ KeepClient(c) /\ new.at = "check" /\ new.held # NoToken
        \/ LinkCheck(c) /\ new.at = "write" /\ org[Home].space \in {NoSpace, call.space}
        \/ LinkWrite(c) /\ new.at = "answered"

LEMMA GoesOn ==
  ASSUME RowTypes, CallTypes, Staged, NEW c \in OrgCall, CallGoesOn(c)
  PROVE  \E new : Becomes(c, new) /\ Follows(c, orgCall[c], new)
<1> DEFINE call == orgCall[c]
<1>1. ASSUME Becomes(c, NoOrgCall)
      PROVE  \E new : Becomes(c, new) /\ Follows(c, call, new)
  BY <1>1 DEF Follows
<1>2. CASE CreateOrganization(c)
  BY <1>2, CreateIs DEF Follows
<1>3. CASE UpdateRead(c)
  BY <1>3, UpdateReadIs DEF UpdateRead, Follows
<1>4. CASE UpdateOrganization(c)
  <2>1. PICK new : /\ Becomes(c, new)
                   /\ \/ ~call.mine /\ new = NoOrgCall
                      \/ call.mine /\ new.at = "answered" /\ Keeps(new, call, AllFields)
    BY <1>4, UpdateIs
  <2>2. Keeps(new, call, AllFields) => Keeps(new, call, AllFields \ {"held", "space"})
    BY DEF Keeps, AllFields
  <2>3. QED
    BY <1>4, <2>1, <2>2 DEF UpdateOrganization, Follows
<1>5. CASE LinkRead(c)
  BY <1>5, LinkReadIs, NoneIsNone DEF Follows
<1>6. CASE KeepClient(c)
  <2>1. PICK new : Becomes(c, new) /\ new.at = "check" /\ Keeps(new, call, AllFields)
    BY <1>6, KeepClientIs
  <2>2. new.held # NoToken /\ call.kind = "link"
    BY <1>6, <2>1, KeepClientIs, NoneIsNone DEF Keeps, AllFields
  <2>3. Keeps(new, call, AllFields \ {"held"})
    BY <2>1 DEF Keeps, AllFields
  <2>4. QED
    BY <1>6, <2>1, <2>2, <2>3 DEF Follows
<1>7. CASE LinkCheck(c)
  BY <1>7, LinkCheckIs DEF Follows
<1>8. CASE LinkWrite(c)
  <2>1. PICK new : Becomes(c, new) /\ new.at = "answered" /\ Keeps(new, call, AllFields)
    BY <1>8, LinkWriteIs
  <2>2. Keeps(new, call, AllFields \ {"held"})
    BY <2>1 DEF Keeps, AllFields
  <2>3. QED
    BY <1>8, <2>1, <2>2 DEF LinkWrite, Follows
<1>9. CASE SaveAnswered(c) \/ LinkAnswered(c) \/ OrgCallFails(c)
  BY <1>1, <1>9, EndsIs
<1>10. QED
  BY <1>2, <1>3, <1>4, <1>5, <1>6, <1>7, <1>8, <1>9 DEF CallGoesOn

\* A part of the invariant about the calls is kept when what they become has it.
StagedCall(call, open) ==
  /\ call.kind = "none" => call = NoOrgCall
  /\ call.kind = "create" => call.at = IF call.org = NoOrg THEN "read" ELSE "answered"
  /\ call.kind \in Writers =>
       call.at \in {"read", "write", "answered"} /\ call.org \in Org
  /\ call.kind \in {"clear", "space"} => ~call.mine /\ call.token = NoToken
  /\ call.kind # "none" /\ call.kind # "link" /\ call.at = "answered" => call.mine
  /\ call.kind = "link" =>
       /\ call.at \in {"read", "cache", "check", "write", "answered"}
       /\ call.org = Home /\ open /\ ~call.mine /\ call.space # NoSpace
       /\ call.at \in {"cache", "check"} => call.held # NoToken

LEMMA StagedIs == Staged <=> \A c \in OrgCall : StagedCall(orgCall[c], profile.open)
  BY DEF Staged, StagedCall

LEMMA StagedStep ==
  ASSUME OrgShape, OrgNext
  PROVE  Staged'
<1> USE DEF OrgShape
<1>1. RowTypes /\ PageTypes /\ CallTypes
  BY OrgTypes
<1>2. \A c \in OrgCall : StagedCall(orgCall[c], profile.open)
  BY StagedIs
<1>3. StagedCall(NoOrgCall, profile'.open)
  BY NoOrgCallIs DEF StagedCall, Writers
<1>4. profile.open => profile'.open
  <2>1. CASE OpenProfile
    BY <2>1 DEF OpenProfile
  <2>2. ASSUME NEW c \in OrgCall, LinkAnswered(c) PROVE profile'.open = profile.open
    BY <1>1, <2>2 DEF LinkAnswered, PageTypes
  <2>3. CASE UNCHANGED profile
    BY <2>3
  <2>4. QED
    BY <2>1, <2>2, <2>3, OrgSteps
    DEF PagesAlone, OrgFetchRead, OrgFetchShow, OrgFetchFails, CloseForm, HandleCreate, HandleEdit,
        OpenForm, Restarts, Arrives, OrgCallArrives, CallGoesOn, SaveAnswered, CreateOrganization,
        UpdateRead, UpdateOrganization, LinkRead, KeepClient, LinkCheck, LinkWrite, OrgCallFails
<1>5. ASSUME NEW c \in OrgCall, NEW new, Becomes(c, new), StagedCall(new, profile'.open)
      PROVE  Staged'
  BY <1>1, <1>2, <1>4, <1>5, OtherCalls DEF Staged, StagedCall
<1>6. CASE PagesAlone
  BY <1>2, <1>4, <1>6 DEF Staged, StagedCall, PagesAlone, OrgFetchRead, OrgFetchShow, OrgFetchFails,
     CloseForm, OpenProfile, HandleCreate, HandleEdit, OpenForm
<1>7. CASE Restarts
  BY <1>2, <1>3, <1>4, <1>7 DEF Staged, StagedCall, Restarts
<1>8. ASSUME NEW c \in OrgCall, NEW call \in CallRecord, Arrives(c, call) PROVE Staged'
  <2>1. Becomes(c, call) /\ UNCHANGED profile
    BY <1>1, <1>8, ArrivesIs
  <2>2. StagedCall(call, profile'.open)
    <3>1. modal.org \in Org \cup {NoOrg}
      BY <1>1 DEF PageTypes
    <3>2. QED
      BY <1>8, <2>1, <3>1, NoneIsNone
      DEF Arrives, FromPage, FromApi, FromMember, StagedCall, Writers, Made, MayLink
  <2>3. QED
    BY <1>5, <2>1, <2>2
<1>9. ASSUME NEW c \in OrgCall, CallGoesOn(c) PROVE Staged'
  <2>1. PICK new : Becomes(c, new) /\ Follows(c, orgCall[c], new)
    BY <1>1, <1>9, GoesOn
  <2>2. StagedCall(new, profile'.open)
    BY <1>2, <1>3, <1>4, <2>1, NoneIsNone DEF Follows, StagedCall, Keeps, AllFields, Writers
  <2>3. QED
    BY <1>5, <2>1, <2>2
<1>10. QED
  BY <1>1, <1>6, <1>7, <1>8, <1>9, OrgSteps
-----------------------------------------------------------------------------
\* Rows are made by calls with a name, and never taken away.
LEMMA MadeStays ==
  ASSUME OrgShape, OrgNext
  PROVE  Made \subseteq Made' /\ \A o \in Org \ Made' : org'[o] = org[o] /\ linkedIn'[o] = linkedIn[o]
<1> USE DEF OrgShape
<1>1. RowTypes /\ CallTypes
  BY OrgTypes
<1>2. CASE UNCHANGED <<org, linkedIn>>
  BY <1>2 DEF Made
<1>3. ASSUME NEW c \in OrgCall, CreateOrganization(c)
      PROVE  Made \subseteq Made' /\ \A o \in Org \ Made' : org'[o] = org[o] /\ linkedIn'[o] = linkedIn[o]
  <2>1. PICK o \in Org \ Made :
           /\ orgCall[c].kind = "create"
           /\ org' = [org EXCEPT ![o] = [name |-> orgCall[c].name, token |-> orgCall[c].token,
                                         space |-> TeamOf(orgCall[c].token)]]
    BY <1>1, <1>3, CreateIs
  <2>2. orgCall[c].name # NoLabel /\ linkedIn' = linkedIn
    BY <1>3, <2>1 DEF Named, CreateOrganization
  <2>3. QED
    BY <1>1, <2>1, <2>2 DEF Made, RowTypes
<1>4. ASSUME NEW c \in OrgCall, UpdateOrganization(c)
      PROVE  Made \subseteq Made' /\ \A o \in Org \ Made' : org'[o] = org[o] /\ linkedIn'[o] = linkedIn[o]
  <2>1. orgCall[c].name # NoLabel /\ linkedIn' = linkedIn
    BY <1>4 DEF Named, UpdateOrganization, Writers
  <2>2. orgCall[c].org \in Org
    BY <1>1, <1>4, UpdateIs
  <2>3. QED
    BY <1>1, <1>4, <2>1, <2>2 DEF UpdateOrganization, Made, RowTypes
<1>5. ASSUME NEW c \in OrgCall, LinkWrite(c)
      PROVE  Made \subseteq Made' /\ \A o \in Org \ Made' : org'[o] = org[o] /\ linkedIn'[o] = linkedIn[o]
  <2>1. orgCall[c].org = Home /\ Home \in Made
    BY <1>5 DEF Named, LinkWrite, Staged
  <2>2. QED
    BY <1>1, <1>5, <2>1 DEF LinkWrite, Made, RowTypes
<1>6. QED
  BY <1>1, <1>2, <1>3, <1>4, <1>5, OrgSteps
  DEF PagesAlone, OrgFetchRead, OrgFetchShow, OrgFetchFails, CloseForm, OpenProfile, HandleCreate,
      HandleEdit, OpenForm, Restarts, Arrives, OrgCallArrives, CallGoesOn, SaveAnswered, UpdateRead,
      LinkRead, KeepClient, LinkCheck, LinkAnswered, OrgCallFails, orgRows

LEMMA NamedStep ==
  ASSUME OrgShape, OrgNext
  PROVE  Named'
<1> USE DEF OrgShape
<1>1. RowTypes /\ PageTypes /\ CallTypes
  BY OrgTypes
<1>2. Made \subseteq Made' /\ \A o \in Org \ Made' : org'[o] = org[o] /\ linkedIn'[o] = linkedIn[o]
  BY MadeStays
<1>3. ASSUME NEW o \in Org, o \notin Made'
      PROVE  org'[o] = Unmade /\ linkedIn'[o] = NoSpace
  BY <1>2, <1>3 DEF Named
<1>4. ASSUME NEW o \in Org, o \notin Made'
      PROVE  /\ organizations'[o] = Unlisted /\ orgList'.list[o] = Unlisted /\ modal'.org # o
  <2>1. /\ org[o] = Unmade /\ organizations[o] = Unlisted /\ orgList.list[o] = Unlisted
        /\ modal.org # o /\ Closed.org # o /\ NoOrg # o
        /\ \A c \in OrgCall : orgCall[c].org # o
    BY <1>2, <1>4, NoneIsNone DEF Named, Closed
  <2>2. Lists[o] = Unlisted
    BY <2>1 DEF Lists, Unlisted, Unmade
  <2>3. CASE PagesAlone
    <3>1. CASE OrgFetchRead
      BY <2>1, <2>2, <3>1 DEF OrgFetchRead
    <3>2. CASE OrgFetchShow \/ OrgFetchFails
      BY <1>1, <2>1, <3>2 DEF OrgFetchShow, OrgFetchFails, PageTypes
    <3>3. CASE CloseForm \/ OpenProfile
      BY <2>1, <3>3 DEF CloseForm, OpenProfile, orgPage
    <3>4. CASE HandleCreate
      BY <2>1, <3>4 DEF HandleCreate, OpenForm
    <3>5. ASSUME NEW p \in Org, HandleEdit(p)
          PROVE  /\ organizations'[o] = Unlisted /\ orgList'.list[o] = Unlisted /\ modal'.org # o
      BY <2>1, <3>5 DEF HandleEdit, OpenForm, InTable
    <3>6. QED
      BY <2>3, <3>1, <3>2, <3>3, <3>4, <3>5 DEF PagesAlone
  <2>4. ASSUME NEW c \in OrgCall, SaveAnswered(c)
        PROVE  /\ organizations'[o] = Unlisted /\ orgList'.list[o] = Unlisted /\ modal'.org # o
    BY <1>1, <2>1, <2>4 DEF SaveAnswered, PageTypes, Listing
  <2>5. CASE UNCHANGED orgPage
    BY <2>1, <2>5 DEF orgPage
  <2>6. QED
    BY <1>1, <2>3, <2>4, <2>5, OrgSteps
    DEF Restarts, Arrives, CallGoesOn, CreateOrganization, UpdateRead, UpdateOrganization, LinkRead,
        KeepClient, LinkCheck, LinkWrite, LinkAnswered, OrgCallFails
<1>5. ASSUME NEW c \in OrgCall
      PROVE  /\ \A o \in Org \ Made' : orgCall'[c].org # o
             /\ orgCall'[c].kind \in {"none", "link"} \/ orgCall'[c].name # NoLabel
  <2>1. /\ \A o \in Org \ Made' : orgCall[c].org # o /\ NoOrgCall.org # o
        /\ orgCall[c].kind \in {"none", "link"} \/ orgCall[c].name # NoLabel
        /\ NoOrgCall.kind = "none"
    BY <1>2, NoOrgCallIs, NoneIsNone DEF Named
  <2>2. CASE PagesAlone
    BY <2>1, <2>2 DEF PagesAlone, OrgFetchRead, OrgFetchShow, OrgFetchFails, CloseForm, OpenProfile,
       HandleCreate, HandleEdit, OpenForm
  <2>3. CASE Restarts
    BY <2>1, <2>3 DEF Restarts
  <2>4. ASSUME NEW d \in OrgCall, NEW call \in CallRecord, Arrives(d, call)
        PROVE  /\ \A o \in Org \ Made' : orgCall'[c].org # o
               /\ orgCall'[c].kind \in {"none", "link"} \/ orgCall'[c].name # NoLabel
    <3>1. Becomes(d, call)
      BY <1>1, <2>4, ArrivesIs
    <3>2. orgCall'[d] = call /\ \A e \in OrgCall \ {d} : orgCall'[e] = orgCall[e]
      BY <1>1, <3>1, OtherCalls
    <3>3. \A o \in Org \ Made' : call.org # o
      BY <1>2, <2>4, NoneIsNone DEF Arrives, FromPage, FromApi, FromMember, MayLink, Named
    <3>4. call.kind \in {"none", "link"} \/ call.name # NoLabel
      BY <2>4, NoneIsNone DEF Arrives, FromPage, FromApi, FromMember
    <3>5. QED
      BY <2>1, <3>2, <3>3, <3>4
  <2>5. ASSUME NEW d \in OrgCall, CallGoesOn(d)
        PROVE  /\ \A o \in Org \ Made' : orgCall'[c].org # o
               /\ orgCall'[c].kind \in {"none", "link"} \/ orgCall'[c].name # NoLabel
    <3>1. CASE CreateOrganization(d)
      <4>1. PICK o \in Org \ Made, new \in CallRecord :
              /\ Becomes(d, new) /\ orgCall[d].kind = "create"
              /\ org' = [org EXCEPT ![o] = [name |-> orgCall[d].name, token |-> orgCall[d].token,
                                            space |-> TeamOf(orgCall[d].token)]]
              /\ \/ new = NoOrgCall
                 \/ new.org = o /\ Keeps(new, orgCall[d], AllFields \ {"org", "space"})
        BY <1>1, <3>1, CreateIs
      <4>2. orgCall'[d] = new /\ \A e \in OrgCall \ {d} : orgCall'[e] = orgCall[e]
        BY <1>1, <4>1, OtherCalls
      <4>3. orgCall[d].name # NoLabel
        BY <4>1 DEF Named
      <4>4. o \in Made'
        BY <1>1, <4>1, <4>3 DEF Made, RowTypes
      <4>5. new = NoOrgCall \/ (new.org = o /\ new.name = orgCall[d].name)
        BY <4>1 DEF Keeps, AllFields
      <4>6. QED
        BY <2>1, <4>2, <4>3, <4>4, <4>5
    <3>2. CASE ~CreateOrganization(d)
      <4>1. PICK new : Becomes(d, new) /\ Follows(d, orgCall[d], new)
        BY <1>1, <2>5, GoesOn
      <4>2. orgCall'[d] = new /\ \A e \in OrgCall \ {d} : orgCall'[e] = orgCall[e]
        BY <1>1, <4>1, OtherCalls
      <4>3. \/ new = NoOrgCall
            \/ new.org = orgCall[d].org /\ new.name = orgCall[d].name /\ new.kind = orgCall[d].kind
        BY <3>2, <4>1 DEF Follows, Keeps, AllFields
      <4>4. QED
        BY <2>1, <4>2, <4>3
    <3>3. QED
      BY <3>1, <3>2
  <2>6. QED
    BY <1>1, <2>2, <2>3, <2>4, <2>5, OrgSteps
<1>6. profile'.open => Home \in Made'
  <2>1. profile'.open => profile.open \/ Home \in Made
    <3>1. CASE OpenProfile
      BY <3>1 DEF OpenProfile
    <3>2. ASSUME NEW c \in OrgCall, LinkAnswered(c) PROVE profile'.open = profile.open
      BY <1>1, <3>2 DEF LinkAnswered, PageTypes
    <3>3. CASE UNCHANGED profile
      BY <3>3
    <3>4. QED
      BY <1>1, <3>1, <3>2, <3>3, OrgSteps
      DEF PagesAlone, OrgFetchRead, OrgFetchShow, OrgFetchFails, CloseForm, HandleCreate, HandleEdit,
          OpenForm, Restarts, Arrives, OrgCallArrives, CallGoesOn, SaveAnswered, CreateOrganization,
          UpdateRead, UpdateOrganization, LinkRead, KeepClient, LinkCheck, LinkWrite, OrgCallFails
  <2>2. QED
    BY <1>2, <2>1 DEF Named
<1>7. QED
  BY <1>3, <1>4, <1>5, <1>6 DEF Named

\* While the page saves nothing else of it is under way.
LEMMA PageFirstStep ==
  ASSUME OrgShape, OrgNext
  PROVE  PageFirst'
<1> USE DEF OrgShape
<1>1. RowTypes /\ PageTypes /\ CallTypes
  BY OrgTypes
<1>2. ~NoOrgCall.mine
  BY NoOrgCallIs
<1>3. CASE PagesAlone
  <2>1. CASE OrgFetchRead \/ OrgFetchShow \/ OrgFetchFails
    BY <1>1, <2>1 DEF OrgFetchRead, OrgFetchShow, OrgFetchFails, PageFirst, PageTypes
  <2>2. CASE CloseForm \/ OpenProfile
    BY <2>2 DEF CloseForm, OpenProfile, orgPage, PageFirst, Closed
  <2>3. ASSUME NEW o, OpenForm(o) PROVE PageFirst'
    BY <2>3 DEF OpenForm, PageFirst
  <2>4. QED
    BY <1>3, <2>1, <2>2, <2>3 DEF PagesAlone, HandleCreate, HandleEdit
<1>4. CASE Restarts
  BY <1>2, <1>4 DEF Restarts, PageFirst, orgPage
<1>5. ASSUME NEW c \in OrgCall, NEW call \in CallRecord, Arrives(c, call) PROVE PageFirst'
  <2>1. orgCall'[c] = call /\ \A e \in OrgCall \ {c} : orgCall'[e] = orgCall[e]
    BY <1>1, <1>5, ArrivesIs, OtherCalls
  <2>2. UNCHANGED orgPage
    BY <1>5 DEF Arrives
  <2>3. call.mine => MaySubmit
    BY <1>5 DEF Arrives, FromPage, FromApi, FromMember
  <2>4. QED
    BY <2>1, <2>2, <2>3 DEF PageFirst, orgPage, MaySubmit
<1>6. ASSUME NEW c \in OrgCall, CallGoesOn(c) PROVE PageFirst'
  <2>1. PICK new : Becomes(c, new) /\ Follows(c, orgCall[c], new)
    BY <1>1, <1>6, GoesOn
  <2>2. orgCall'[c] = new /\ \A e \in OrgCall \ {c} : orgCall'[e] = orgCall[e]
    BY <1>1, <2>1, OtherCalls
  <2>3. new.mine => orgCall[c].mine
    BY <1>2, <2>1 DEF Follows, Keeps, AllFields
  <2>4. orgList' = orgList /\ (modal'.open => modal.open)
    <3>1. CASE SaveAnswered(c)
      BY <3>1 DEF SaveAnswered, Closed
    <3>2. CASE ~SaveAnswered(c)
      BY <1>6, <3>2 DEF CallGoesOn, CreateOrganization, UpdateRead, UpdateOrganization,
         LinkRead, KeepClient, LinkCheck, LinkWrite, LinkAnswered, OrgCallFails, orgPage
    <3>3. QED
      BY <3>1, <3>2
  <2>5. QED
    BY <2>2, <2>3, <2>4 DEF PageFirst
<1>7. QED
  BY <1>1, <1>3, <1>4, <1>5, <1>6, OrgSteps
-----------------------------------------------------------------------------
\* Every step: the strains it adds are named, and none but "replaced" goes away.
LEMMA StrainsStay ==
  ASSUME OrgShape, OrgNext, NEW what, NEW o, what # "replaced", ~Strained(what, o)'
  PROVE  ~Strained(what, o)
<1> USE DEF OrgShape
<1>1. orgStrain \subseteq orgStrain' \/ Restarts
  BY OrgSteps
  DEF PagesAlone, OrgFetchRead, OrgFetchShow, OrgFetchFails, CloseForm, OpenProfile, HandleCreate,
      HandleEdit, OpenForm, Arrives, OrgCallArrives, CallGoesOn, SaveAnswered,
      CreateOrganization, UpdateRead, UpdateOrganization, LinkRead, KeepClient, LinkCheck, LinkWrite,
      LinkAnswered, OrgCallFails
<1>2. CASE Restarts
  BY <1>2 DEF Restarts, Strained
<1>3. CASE orgStrain \subseteq orgStrain'
  BY <1>3 DEF Strained
<1>4. QED
  BY <1>1, <1>2, <1>3

\* Only the steps of the database write the rows.
RowsSame == UNCHANGED <<org, given>>

LEMMA WhoWritesRows ==
  ASSUME OrgShape, OrgNext
  PROVE  RowsSame \/ \E c \in OrgCall : CreateOrganization(c) \/ UpdateOrganization(c)
<1> USE DEF OrgShape
<1>1. QED
  BY OrgSteps
  DEF RowsSame, PagesAlone, OrgFetchRead, OrgFetchShow, OrgFetchFails, CloseForm, OpenProfile,
      HandleCreate, HandleEdit, OpenForm, Arrives, OrgCallArrives, CallGoesOn, SaveAnswered,
      UpdateRead, LinkRead, KeepClient, LinkCheck, LinkWrite, LinkAnswered, OrgCallFails, orgRows,
      Restarts

LEMMA TokenStandsStep ==
  ASSUME OrgShape, TokenStands, OrgNext
  PROVE  TokenStands'
<1> USE DEF OrgShape
<1>1. RowTypes /\ PageTypes /\ CallTypes
  BY OrgTypes
<1>2. NoOrgCall.kind \notin Writers
  BY NoOrgCallIs DEF Writers
<1> DEFINE Holds(o) ==
      /\ org[o].token = given[o]
      /\ \A c, d \in WritersOf(o) : c = d
      /\ \A c \in WritersOf(o) : orgCall[c].at = "write" => orgCall[c].held = Meant(c)
<1> SUFFICES ASSUME NEW o \in Org, ~Strained("overlap", o)' PROVE Holds(o)'
  BY DEF TokenStands
<1>3. Holds(o)
  BY StrainsStay DEF TokenStands
<1>4. ASSUME UNCHANGED <<orgRows, orgCall>> PROVE Holds(o)'
  BY <1>3, <1>4 DEF orgRows, WritersOf, Meant
\* The rows stay and so do the calls, but for some that are gone.
<1>5. ASSUME UNCHANGED orgRows,
             \A c \in OrgCall : orgCall'[c] = orgCall[c] \/ orgCall'[c].kind \notin Writers
      PROVE  Holds(o)'
  BY <1>3, <1>5 DEF orgRows, WritersOf, Meant
<1>6. CASE PagesAlone
  BY <1>4, <1>6 DEF PagesAlone, OrgFetchRead, OrgFetchShow, OrgFetchFails, CloseForm, OpenProfile,
     HandleCreate, HandleEdit, OpenForm
<1>7. CASE Restarts
  BY <1>2, <1>5, <1>7 DEF Restarts
<1>8. ASSUME NEW c \in OrgCall, NEW call \in CallRecord, Arrives(c, call) PROVE Holds(o)'
  <2>1. orgCall'[c] = call /\ \A e \in OrgCall \ {c} : orgCall'[e] = orgCall[e]
    BY <1>1, <1>8, ArrivesIs, OtherCalls
  <2>2. UNCHANGED orgRows /\ call.at = "read" /\ orgCall[c] = NoOrgCall
    BY <1>8 DEF Arrives, OrgCallArrives
  <2>3. CASE call.kind \in Writers /\ call.org = o
    <3>1. WritersOf(o) = {}
      <4>1. ~Meets(call.kind, o)
        BY <1>8, <2>3 DEF Arrives, OrgCallArrives, Strained
      <4>2. QED
        BY <2>3, <4>1 DEF Meets, WritersOf
    <3>2. WritersOf(o)' = {c}
      BY <2>1, <2>3, <3>1 DEF WritersOf
    <3>3. QED
      BY <1>3, <2>1, <2>2, <3>2 DEF orgRows
  <2>4. CASE ~(call.kind \in Writers /\ call.org = o)
    <3>1. WritersOf(o)' = WritersOf(o) /\ c \notin WritersOf(o)
      BY <1>2, <2>1, <2>2, <2>4 DEF WritersOf
    <3>2. QED
      BY <1>3, <2>1, <2>2, <3>1 DEF orgRows, Meant, WritersOf
  <2>5. QED
    BY <2>3, <2>4
<1>9. ASSUME NEW c \in OrgCall, CallGoesOn(c) PROVE Holds(o)'
  <2> DEFINE call == orgCall[c]
  <2>1. CASE CreateOrganization(c)
    <3>1. PICK p \in Org \ Made, new \in CallRecord :
            /\ Becomes(c, new) /\ call.kind = "create"
            /\ org' = [org EXCEPT ![p] = [name |-> call.name, token |-> call.token,
                                          space |-> TeamOf(call.token)]]
            /\ given' = [given EXCEPT ![p] = call.token]
            /\ new = NoOrgCall \/ Keeps(new, call, AllFields \ {"org", "space"})
      BY <1>1, <2>1, CreateIs
    <3>2. orgCall'[c] = new /\ \A e \in OrgCall \ {c} : orgCall'[e] = orgCall[e]
      BY <1>1, <3>1, OtherCalls
    <3>3. call.kind \notin Writers /\ new.kind \notin Writers
      BY <1>2, <3>1 DEF Keeps, AllFields, Writers
    <3>4. WritersOf(o)' = WritersOf(o)
      BY <3>2, <3>3 DEF WritersOf
    <3>5. o = p => WritersOf(o) = {}
      BY <3>1 DEF Named, WritersOf
    <3>6. org'[o].token = given'[o] /\ (o # p => org'[o] = org[o] /\ given'[o] = given[o])
      BY <1>1, <1>3, <3>1 DEF RowTypes
    <3>7. ASSUME NEW d \in WritersOf(o) PROVE orgCall'[d] = orgCall[d] /\ Meant(d)' = Meant(d)
      BY <3>2, <3>3, <3>5, <3>6, <3>7 DEF WritersOf, Meant
    <3>8. QED
      BY <1>3, <3>4, <3>6, <3>7
  <2>2. CASE UpdateRead(c)
    <3>1. PICK new : LET row == org[call.org] IN
            /\ Becomes(c, new) /\ new.at = "write" /\ Keeps(new, call, AllFields \ {"held", "space"})
            /\ new.held = IF call.kind = "clear" THEN NoToken
                          ELSE IF call.token # NoToken THEN call.token ELSE row.token
      BY <1>1, <2>2, UpdateReadIs
    <3>2. orgCall'[c] = new /\ \A e \in OrgCall \ {c} : orgCall'[e] = orgCall[e]
      BY <1>1, <3>1, OtherCalls
    <3>3. UNCHANGED orgRows
      BY <2>2 DEF UpdateRead
    <3>4. WritersOf(o)' = WritersOf(o)
      BY <3>1, <3>2 DEF WritersOf, Keeps, AllFields
    <3>5. ASSUME c \in WritersOf(o) PROVE new.held = Meant(c)'
      <4>1. /\ call.kind \in {"clear", "space"} => ~call.mine /\ call.token = NoToken
            /\ call.org = o /\ org[o].token = given[o]
        BY <1>3, <3>5 DEF Staged, WritersOf
      <4>2. QED
        BY <3>1, <3>2, <3>3, <4>1 DEF Meant, Keeps, AllFields, orgRows
    <3>6. ASSUME NEW d \in WritersOf(o), d # c
          PROVE  orgCall'[d] = orgCall[d] /\ Meant(d)' = Meant(d)
      BY <3>2, <3>3, <3>6 DEF WritersOf, Meant, orgRows
    <3>7. QED
      BY <1>3, <3>2, <3>3, <3>4, <3>5, <3>6 DEF orgRows
  <2>3. CASE UpdateOrganization(c)
    <3>1. PICK new : /\ Becomes(c, new) /\ call.org \in Org
                     /\ new = NoOrgCall \/ (new.at = "answered" /\ Keeps(new, call, AllFields))
      BY <1>1, <2>3, UpdateIs
    <3>2. orgCall'[c] = new /\ \A e \in OrgCall \ {c} : orgCall'[e] = orgCall[e]
      BY <1>1, <3>1, OtherCalls
    <3>3. WritersOf(o)' \subseteq WritersOf(o)
      BY <1>2, <3>1, <3>2 DEF WritersOf, Keeps, AllFields
    <3>4. CASE call.org = o
      <4>1. c \in WritersOf(o) /\ call.at = "write"
        BY <2>3, <3>4 DEF UpdateOrganization, WritersOf
      <4>2. org'[o].token = call.held /\ given'[o] = Meant(c)
        BY <1>1, <2>3, <3>4 DEF UpdateOrganization, RowTypes
      <4>3. \A d \in WritersOf(o)' : d = c /\ orgCall'[d].at # "write"
        BY <1>2, <1>3, <3>1, <3>2, <3>3, <4>1 DEF WritersOf
      <4>4. QED
        BY <1>3, <4>1, <4>2, <4>3
    <3>5. CASE call.org # o
      <4>1. org'[o] = org[o] /\ given'[o] = given[o] /\ c \notin WritersOf(o)
        BY <1>1, <2>3, <3>5 DEF UpdateOrganization, RowTypes, WritersOf
      <4>2. ASSUME NEW d \in WritersOf(o)
            PROVE  orgCall'[d] = orgCall[d] /\ Meant(d)' = Meant(d)
        BY <3>2, <4>1, <4>2 DEF WritersOf, Meant
      <4>3. QED
        BY <1>3, <3>3, <4>1, <4>2
    <3>6. QED
      BY <3>4, <3>5
  <2>4. CASE ~(CreateOrganization(c) \/ UpdateRead(c) \/ UpdateOrganization(c))
    <3>1. PICK new : Becomes(c, new) /\ Follows(c, call, new)
      BY <1>1, <1>9, GoesOn
    <3>2. orgCall'[c] = new /\ \A e \in OrgCall \ {c} : orgCall'[e] = orgCall[e]
      BY <1>1, <3>1, OtherCalls
    <3>3. new.kind \notin Writers
      BY <1>2, <2>4, <3>1 DEF Follows, Keeps, AllFields, Writers
    <3>4. UNCHANGED <<org, given>>
      BY <1>9, <2>4 DEF CallGoesOn, SaveAnswered, LinkRead, KeepClient, LinkCheck, LinkWrite,
         LinkAnswered, OrgCallFails, orgRows
    <3>5. WritersOf(o)' \subseteq WritersOf(o) \ {c}
      BY <3>2, <3>3 DEF WritersOf
    <3>6. \A d \in WritersOf(o) \ {c} : orgCall'[d] = orgCall[d] /\ Meant(d)' = Meant(d)
      BY <3>2, <3>4 DEF WritersOf, Meant
    <3>7. QED
      BY <1>3, <3>4, <3>5, <3>6
  <2>5. QED
    BY <2>1, <2>2, <2>3, <2>4
<1>10. QED
  BY <1>1, <1>6, <1>7, <1>8, <1>9, OrgSteps
-----------------------------------------------------------------------------
\* A call stays, goes, arrives or goes on.
LEMMA CallTurns ==
  ASSUME OrgShape, OrgNext, NEW d \in OrgCall
  PROVE  \/ orgCall'[d] \in {orgCall[d], NoOrgCall}
         \/ Arrives(d, orgCall'[d])
         \/ CallGoesOn(d) /\ Follows(d, orgCall[d], orgCall'[d])
<1> USE DEF OrgShape
<1>1. RowTypes /\ CallTypes
  BY OrgTypes
<1>2. CASE PagesAlone
  BY <1>2 DEF PagesAlone, OrgFetchRead, OrgFetchShow, OrgFetchFails, CloseForm, OpenProfile,
     HandleCreate, HandleEdit, OpenForm
<1>3. CASE Restarts
  BY <1>3 DEF Restarts
<1>4. ASSUME NEW c \in OrgCall, NEW call \in CallRecord, Arrives(c, call)
      PROVE  orgCall'[d] = orgCall[d] \/ Arrives(d, orgCall'[d])
  <2>1. orgCall'[c] = call /\ \A e \in OrgCall \ {c} : orgCall'[e] = orgCall[e]
    BY <1>1, <1>4, ArrivesIs, OtherCalls
  <2>2. QED
    BY <1>4, <2>1
<1>5. ASSUME NEW c \in OrgCall, CallGoesOn(c)
      PROVE  orgCall'[d] = orgCall[d] \/ (CallGoesOn(d) /\ Follows(d, orgCall[d], orgCall'[d]))
  <2>1. PICK new : Becomes(c, new) /\ Follows(c, orgCall[c], new)
    BY <1>1, <1>5, GoesOn
  <2>2. orgCall'[c] = new /\ \A e \in OrgCall \ {c} : orgCall'[e] = orgCall[e]
    BY <1>1, <2>1, OtherCalls
  <2>3. QED
    BY <1>5, <2>1, <2>2
<1>6. QED
  BY <1>1, <1>2, <1>3, <1>4, <1>5, OrgSteps

\* An update that is about to write has read just now, or was there before.
LEMMA WritesStay ==
  ASSUME OrgShape, OrgNext, NEW d \in OrgCall,
         orgCall'[d].kind \in Writers, orgCall'[d].at = "write", ~UpdateRead(d)
  PROVE  orgCall'[d] = orgCall[d]
  BY CallTurns, NoOrgCallIs DEF Follows, Keeps, AllFields, Writers, Arrives

\* So for the stages of a link.
LEMMA CachesStay ==
  ASSUME OrgShape, OrgNext, NEW d \in OrgCall,
         orgCall'[d].kind = "link", orgCall'[d].at = "cache"
  PROVE  \/ orgCall'[d] = orgCall[d]
         \/ LinkRead(d) /\ orgCall'[d].held = org[Home].token /\ orgCall'[d].held # NoToken
  BY CallTurns, NoOrgCallIs DEF Follows, Keeps, AllFields, Writers, Arrives

LEMMA ChecksStay ==
  ASSUME OrgShape, OrgNext, NEW d \in OrgCall,
         orgCall'[d].kind = "link", orgCall'[d].at = "write"
  PROVE  \/ orgCall'[d] = orgCall[d]
         \/ /\ LinkCheck(d) /\ orgCall'[d].space = orgCall[d].space
            /\ org[Home].space \in {NoSpace, orgCall[d].space}
  BY CallTurns, NoOrgCallIs DEF Follows, Keeps, AllFields, Writers, Arrives

LEMMA SpaceOfTokenStep ==
  ASSUME OrgShape, SpaceOfToken, OrgNext
  PROVE  SpaceOfToken'
<1> USE DEF OrgShape
<1>1. RowTypes /\ CallTypes
  BY OrgTypes
<1> SUFFICES ASSUME NEW o \in Org, ~Strained("hand", o)'
             PROVE  /\ org'[o].token # NoToken => org'[o].space = SpaceOf[org'[o].token]
                    /\ \A c \in WritersOf(o)' :
                         /\ orgCall'[c].at = "write" /\ orgCall'[c].kind # "space"
                         /\ orgCall'[c].held # NoToken
                         => orgCall'[c].space = SpaceOf[orgCall'[c].held]
  BY DEF SpaceOfToken
<1>2. /\ org[o].token # NoToken => org[o].space = SpaceOf[org[o].token]
      /\ \A c \in WritersOf(o) :
           orgCall[c].at = "write" /\ orgCall[c].kind # "space" /\ orgCall[c].held # NoToken =>
             orgCall[c].space = SpaceOf[orgCall[c].held]
  BY StrainsStay DEF SpaceOfToken
<1>3. org'[o].token # NoToken => org'[o].space = SpaceOf[org'[o].token]
  <2>1. ASSUME NEW c \in OrgCall, CreateOrganization(c)
        PROVE  org'[o].token # NoToken => org'[o].space = SpaceOf[org'[o].token]
    <3>1. PICK p \in Org :
            org' = [org EXCEPT ![p] = [name |-> orgCall[c].name, token |-> orgCall[c].token,
                                       space |-> TeamOf(orgCall[c].token)]]
      BY <1>1, <2>1, CreateIs
    <3>2. QED
      BY <1>1, <1>2, <3>1 DEF RowTypes, TeamOf
  <2>2. ASSUME NEW c \in OrgCall, UpdateOrganization(c)
        PROVE  org'[o].token # NoToken => org'[o].space = SpaceOf[org'[o].token]
    <3>1. CASE orgCall[c].org = o
      <4>1. orgCall[c].kind # "space"
        BY <2>2, <3>1 DEF UpdateOrganization, Strained
      <4>2. /\ c \in WritersOf(o) /\ orgCall[c].at = "write"
            /\ org'[o].token = orgCall[c].held /\ org'[o].space = orgCall[c].space
        BY <1>1, <2>2, <3>1 DEF UpdateOrganization, WritersOf, RowTypes
      <4>3. QED
        BY <1>2, <4>1, <4>2
    <3>2. CASE orgCall[c].org # o
      <4>1. org'[o] = org[o]
        BY <1>1, <2>2, <3>2 DEF UpdateOrganization, RowTypes
      <4>2. QED
        BY <1>2, <4>1
    <3>3. QED
      BY <3>1, <3>2
  <2>3. CASE RowsSame
    BY <1>2, <2>3 DEF RowsSame
  <2>4. QED
    BY <2>1, <2>2, <2>3, WhoWritesRows
<1>4. ASSUME NEW c \in WritersOf(o)', orgCall'[c].at = "write", orgCall'[c].kind # "space",
             orgCall'[c].held # NoToken
      PROVE  orgCall'[c].space = SpaceOf[orgCall'[c].held]
  <2>1. c \in OrgCall /\ orgCall'[c].kind \in Writers /\ orgCall'[c].org = o
    BY <1>4 DEF WritersOf
  <2>2. CASE UpdateRead(c)
    <3>1. PICK new : LET call == orgCall[c] row == org[call.org] IN
            /\ Becomes(c, new) /\ Keeps(new, call, AllFields \ {"held", "space"})
            /\ new.held = IF call.kind = "clear" THEN NoToken
                          ELSE IF call.token # NoToken THEN call.token ELSE row.token
            /\ new.space = IF call.kind = "clear" THEN NoSpace
                           ELSE IF call.kind = "space" THEN call.space
                           ELSE IF call.token # NoToken THEN TeamOf(call.token) ELSE row.space
      BY <1>1, <2>1, <2>2, UpdateReadIs
    <3>2. orgCall'[c] = new
      BY <1>1, <2>1, <3>1, OtherCalls
    <3>3. new.kind = orgCall[c].kind /\ new.org = orgCall[c].org
      BY <3>1 DEF Keeps, AllFields
    <3>4. QED
      BY <1>2, <1>4, <2>1, <3>1, <3>2, <3>3 DEF TeamOf
  <2>3. CASE ~UpdateRead(c)
    <3>1. orgCall'[c] = orgCall[c]
      BY <1>4, <2>1, <2>3, WritesStay
    <3>2. QED
      BY <1>2, <1>4, <2>1, <3>1 DEF WritersOf
  <2>4. QED
    BY <2>2, <2>3
<1>5. QED
  BY <1>3, <1>4

\* A row whose token an update takes away or replaces is marked, so without a
\* mark the client keeps the token it was made for.
LEMMA ClientOfTokenStep ==
  ASSUME OrgShape, ClientOfToken, OrgNext
  PROVE  ClientOfToken'
<1> USE DEF OrgShape
<1>1. RowTypes /\ CallTypes
  BY OrgTypes
<1>2. CASE Restarts
  <2>1. \A c \in OrgCall : orgCall'[c].at # "cache"
    BY <1>2, NoOrgCallIs DEF Restarts
  <2>2. QED
    BY <1>2, <2>1 DEF Restarts, ClientOfToken, LinksOf
<1>3. CASE ~Restarts
  <2> SUFFICES ASSUME NEW o \in Org, ~Strained("replaced", o)'
               PROVE  /\ client'[o] \in {NoToken, org'[o].token}
                      /\ \A c \in LinksOf(o)' :
                           orgCall'[c].at = "cache" => orgCall'[c].held = org'[o].token
    BY DEF ClientOfToken
  <2>1. ~Strained("replaced", o)
    BY <1>1, <1>3, OrgSteps
    DEF Strained, PagesAlone, OrgFetchRead, OrgFetchShow, OrgFetchFails, CloseForm, OpenProfile,
        HandleCreate, HandleEdit, OpenForm, Arrives, OrgCallArrives, CallGoesOn, SaveAnswered,
        CreateOrganization, UpdateRead, UpdateOrganization, LinkRead, KeepClient, LinkCheck,
        LinkWrite, LinkAnswered, OrgCallFails
  <2>2. /\ client[o] \in {NoToken, org[o].token}
        /\ \A c \in LinksOf(o) : orgCall[c].at = "cache" => orgCall[c].held = org[o].token
    BY <2>1 DEF ClientOfToken
  <2>3. org[o].token # NoToken => org'[o].token = org[o].token
    <3>1. ASSUME NEW c \in OrgCall, CreateOrganization(c), org[o].token # NoToken
          PROVE  org'[o].token = org[o].token
      <4>1. PICK p \in Org \ Made :
              org' = [org EXCEPT ![p] = [name |-> orgCall[c].name, token |-> orgCall[c].token,
                                         space |-> TeamOf(orgCall[c].token)]]
        BY <1>1, <3>1, CreateIs
      <4>2. p # o
        BY <3>1, <4>1 DEF Named, Unmade
      <4>3. QED
        BY <1>1, <4>1, <4>2 DEF RowTypes
    <3>2. ASSUME NEW c \in OrgCall, UpdateOrganization(c), org[o].token # NoToken
          PROVE  org'[o].token = org[o].token
      <4>1. orgCall[c].org = o => orgCall[c].held = org[o].token
        BY <3>2 DEF UpdateOrganization, Strained
      <4>2. QED
        BY <1>1, <3>2, <4>1 DEF UpdateOrganization, RowTypes
    <3>3. QED
      BY <3>1, <3>2, WhoWritesRows DEF RowsSame
  <2>4. ASSUME NEW c \in LinksOf(o)', orgCall'[c].at = "cache"
        PROVE  orgCall'[c].held = org'[o].token
    <3>1. c \in OrgCall /\ orgCall'[c].kind = "link" /\ orgCall'[c].org = o
      BY <2>4 DEF LinksOf
    <3>2. CASE orgCall'[c] = orgCall[c]
      <4>1. c \in LinksOf(o) /\ orgCall[c].at = "cache" /\ orgCall[c].held # NoToken
        BY <2>4, <3>1, <3>2 DEF LinksOf, Staged
      <4>2. QED
        BY <2>2, <2>3, <3>2, <4>1
    <3>3. CASE LinkRead(c) /\ orgCall'[c].held = org[Home].token /\ orgCall'[c].held # NoToken
      <4>1. org' = org /\ o = Home
        <5>1. Staged'
          BY StagedStep
        <5>2. QED
          BY <3>1, <3>3, <5>1 DEF LinkRead, orgRows, Staged
      <4>2. QED
        BY <3>3, <4>1
    <3>4. QED
      BY <2>4, <3>1, <3>2, <3>3, CachesStay
  <2>5. client'[o] \in {NoToken, org'[o].token}
    <3>1. ASSUME NEW c \in OrgCall, KeepClient(c) PROVE client'[o] \in {NoToken, org'[o].token}
      <4>1. /\ orgCall[c].kind = "link" /\ orgCall[c].org = Home /\ orgCall[c].at = "cache"
            /\ client' = [client EXCEPT ![Home] = orgCall[c].held] /\ org' = org
        BY <1>1, <3>1, KeepClientIs DEF KeepClient, orgRows
      <4>2. CASE o = Home
        BY <1>1, <2>2, <4>1, <4>2 DEF LinksOf, RowTypes
      <4>3. CASE o # Home
        BY <1>1, <2>2, <4>1, <4>3 DEF RowTypes
      <4>4. QED
        BY <4>2, <4>3
    <3>2. CASE client' = client
      BY <2>2, <2>3, <3>2
    <3>3. QED
      BY <1>3, <3>1, <3>2, OrgSteps
      DEF PagesAlone, OrgFetchRead, OrgFetchShow, OrgFetchFails, CloseForm, OpenProfile,
          HandleCreate, HandleEdit, OpenForm, Arrives, OrgCallArrives, CallGoesOn, SaveAnswered,
          CreateOrganization, UpdateRead, UpdateOrganization, LinkRead, LinkCheck,
          LinkWrite, LinkAnswered, OrgCallFails
  <2>6. QED
    BY <2>4, <2>5
<1>4. QED
  BY <1>2, <1>3

LEMMA AccountOfSpaceStep ==
  ASSUME OrgShape, AccountOfSpace, OrgNext
  PROVE  AccountOfSpace'
<1> USE DEF OrgShape
<1>1. RowTypes /\ CallTypes
  BY OrgTypes
<1> SUFFICES ASSUME NEW o \in Org, ~Strained("moved", o)'
             PROVE  /\ NoSpace \in {linkedIn'[o], org'[o].space} \/ linkedIn'[o] = org'[o].space
                    /\ \A c \in LinksOf(o)' :
                         orgCall'[c].at = "write" => org'[o].space \in {NoSpace, orgCall'[c].space}
  BY DEF AccountOfSpace
<1>2. /\ NoSpace \in {linkedIn[o], org[o].space} \/ linkedIn[o] = org[o].space
      /\ \A c \in LinksOf(o) :
           orgCall[c].at = "write" => org[o].space \in {NoSpace, orgCall[c].space}
  BY StrainsStay DEF AccountOfSpace
\* Where an account is linked or about to be, the workspace does not change.
<1>3. (linkedIn[o] # NoSpace \/ Linking(o)) => org'[o].space = org[o].space
  <2> SUFFICES ASSUME linkedIn[o] # NoSpace \/ Linking(o) PROVE org'[o].space = org[o].space
    OBVIOUS
  <2>1. ASSUME NEW c \in OrgCall, CreateOrganization(c) PROVE org'[o].space = org[o].space
    <3>1. PICK p \in Org \ Made :
            org' = [org EXCEPT ![p] = [name |-> orgCall[c].name, token |-> orgCall[c].token,
                                       space |-> TeamOf(orgCall[c].token)]]
      BY <1>1, <2>1, CreateIs
    <3>2. p # o
      BY <3>1 DEF Named, Linking
    <3>3. QED
      BY <1>1, <3>1, <3>2 DEF RowTypes
  <2>2. ASSUME NEW c \in OrgCall, UpdateOrganization(c) PROVE org'[o].space = org[o].space
    <3>1. orgCall[c].org = o => orgCall[c].space = org[o].space
      BY <2>2 DEF UpdateOrganization, Strained
    <3>2. QED
      BY <1>1, <2>2, <3>1 DEF UpdateOrganization, RowTypes
  <2>3. QED
    BY <2>1, <2>2, WhoWritesRows DEF RowsSame
<1>4. ASSUME NEW c \in LinksOf(o)', orgCall'[c].at = "write"
      PROVE  org'[o].space \in {NoSpace, orgCall'[c].space}
  <2>1. c \in OrgCall /\ orgCall'[c].kind = "link" /\ orgCall'[c].org = o
    BY <1>4 DEF LinksOf
  <2>2. CASE orgCall'[c] = orgCall[c]
    BY <1>2, <1>3, <1>4, <2>1, <2>2 DEF LinksOf, Linking
  <2>3. CASE /\ LinkCheck(c) /\ orgCall'[c].space = orgCall[c].space
             /\ org[Home].space \in {NoSpace, orgCall[c].space}
    <3>1. Staged'
      BY StagedStep
    <3>2. o = Home /\ org' = org
      BY <2>1, <2>3, <3>1 DEF Staged, LinkCheck, orgRows
    <3>3. QED
      BY <2>3, <3>2
  <2>4. QED
    BY <1>4, <2>1, <2>2, <2>3, ChecksStay
<1>5. NoSpace \in {linkedIn'[o], org'[o].space} \/ linkedIn'[o] = org'[o].space
  <2>1. ASSUME NEW c \in OrgCall, LinkWrite(c)
        PROVE  NoSpace \in {linkedIn'[o], org'[o].space} \/ linkedIn'[o] = org'[o].space
    <3>1. org' = org /\ linkedIn' = [linkedIn EXCEPT ![orgCall[c].org] = orgCall[c].space]
      BY <2>1 DEF LinkWrite
    <3>2. CASE orgCall[c].org = o
      <4>1. linkedIn'[o] = orgCall[c].space /\ c \in LinksOf(o) /\ orgCall[c].at = "write"
        BY <1>1, <2>1, <3>1, <3>2 DEF LinkWrite, LinksOf, RowTypes
      <4>2. QED
        BY <1>2, <3>1, <4>1
    <3>3. CASE orgCall[c].org # o
      BY <1>1, <1>2, <3>1, <3>3 DEF RowTypes
    <3>4. QED
      BY <3>2, <3>3
  <2>2. CASE linkedIn' = linkedIn
    BY <1>2, <1>3, <2>2
  <2>3. QED
    BY <1>1, <2>1, <2>2, OrgSteps
    DEF PagesAlone, OrgFetchRead, OrgFetchShow, OrgFetchFails, CloseForm, OpenProfile,
        HandleCreate, HandleEdit, OpenForm, Arrives, OrgCallArrives, CallGoesOn, SaveAnswered,
        CreateOrganization, UpdateRead, UpdateOrganization, LinkRead, KeepClient, LinkCheck,
        LinkAnswered, OrgCallFails, orgRows, Restarts
<1>6. QED
  BY <1>4, <1>5

LEMMA PageFollowsStep ==
  ASSUME OrgShape, PageFollows, OrgNext
  PROVE  PageFollows'
<1> USE DEF OrgShape
<1>1. RowTypes /\ PageTypes /\ CallTypes
  BY OrgTypes
<1> DEFINE Holds(o) ==
      /\ orgList.at = "answered" => orgList.list[o] = Lists[o]
      /\ \A c \in SavedOf(o) : Brings(c) = Lists[o]
      /\ orgList.at = "done" /\ SavedOf(o) = {} => organizations[o] = Lists[o]
<1> SUFFICES ASSUME NEW o \in Org, ~Strained("others", o)', ~Strained("lost", o)'
             PROVE  Holds(o)'
  BY DEF PageFollows
<1>2. Holds(o)
  BY StrainsStay DEF PageFollows
<1>3. \A c \in SavedOf(o) : orgList.at = "done" /\ SavedOf(o) = {c}
  BY DEF SavedOf, PageFirst
\* A step that leaves the row, the page and the answered saves.
<1>4. ASSUME org'[o] = org[o], UNCHANGED <<orgList, organizations>>,
             SavedOf(o)' = SavedOf(o), \A c \in SavedOf(o) : orgCall'[c] = orgCall[c]
      PROVE  Holds(o)'
  BY <1>2, <1>4 DEF Lists, Brings
<1>5. CASE PagesAlone
  <2>1. UNCHANGED <<org, orgCall>>
    BY <1>5 DEF PagesAlone, OrgFetchRead, OrgFetchShow, OrgFetchFails, CloseForm, OpenProfile,
       HandleCreate, HandleEdit, OpenForm, orgRows
  <2>2. Lists' = Lists /\ SavedOf(o)' = SavedOf(o) /\ \A c \in OrgCall : Brings(c)' = Brings(c)
    BY <2>1 DEF Lists, SavedOf, Brings
  <2>a. ASSUME NEW c \in SavedOf(o)' PROVE Brings(c)' = Lists'[o]
    <3>1. c \in SavedOf(o) /\ c \in OrgCall
      BY <2>2, <2>a DEF SavedOf
    <3>2. QED
      BY <1>2, <2>2, <3>1
  <2>b. ASSUME /\ orgList'.at = "answered" => orgList'.list[o] = Lists[o]
               /\ orgList'.at = "done" /\ SavedOf(o) = {} => organizations'[o] = Lists[o]
        PROVE  Holds(o)'
    BY <2>2, <2>a, <2>b
  <2> HIDE DEF Holds
  <2>3. CASE OrgFetchRead
    <3>1. orgList' = [at |-> "answered", list |-> Lists]
      BY <2>3 DEF OrgFetchRead
    <3>2. QED
      BY <2>b, <3>1
  <2>4. CASE OrgFetchShow
    <3>1. /\ orgList.at = "answered" /\ organizations' = orgList.list
          /\ orgList'.at = "done"
      BY <1>1, <2>4 DEF OrgFetchShow, PageTypes
    <3>2. QED
      BY <1>2, <2>b, <3>1 DEF Holds
  <2>5. CASE OrgFetchFails
    <3>1. orgList'.at = "stuck"
      BY <1>1, <2>5 DEF OrgFetchFails, PageTypes
    <3>2. QED
      BY <2>b, <3>1
  <2>6. CASE UNCHANGED <<orgList, organizations>>
    BY <1>2, <2>b, <2>6 DEF Holds
  <2>7. QED
    BY <1>5, <2>3, <2>4, <2>5, <2>6 DEF PagesAlone, CloseForm, OpenProfile, HandleCreate, HandleEdit,
       OpenForm, orgPage
<1>6. CASE Restarts
  <2>1. SavedOf(o)' = SavedOf(o) /\ \A c \in SavedOf(o) : orgCall'[c] = orgCall[c]
    BY <1>6, NoOrgCallIs DEF Restarts, SavedOf
  <2>2. org' = org /\ UNCHANGED <<orgList, organizations>>
    BY <1>6 DEF Restarts, orgRows, orgPage
  <2>3. QED
    BY <1>4, <2>1, <2>2
<1>7. ASSUME NEW c \in OrgCall, NEW call \in CallRecord, Arrives(c, call) PROVE Holds(o)'
  <2>1. orgCall'[c] = call /\ \A e \in OrgCall \ {c} : orgCall'[e] = orgCall[e]
    BY <1>1, <1>7, ArrivesIs, OtherCalls
  <2>2. /\ UNCHANGED orgRows /\ UNCHANGED orgPage /\ orgCall[c] = NoOrgCall /\ call.at = "read"
    BY <1>7 DEF Arrives, OrgCallArrives
  <2>3. SavedOf(o)' = SavedOf(o) /\ \A d \in SavedOf(o) : orgCall'[d] = orgCall[d]
    BY <2>1, <2>2, NoOrgCallIs DEF SavedOf
  <2>4. QED
    BY <1>4, <2>2, <2>3 DEF orgRows, orgPage
<1>8. ASSUME NEW c \in OrgCall, SaveAnswered(c) PROVE Holds(o)'
  <2>1. orgCall'[c] = NoOrgCall /\ \A e \in OrgCall \ {c} : orgCall'[e] = orgCall[e]
    BY <1>1, <1>8, EndsIs, OtherCalls
  <2>2. /\ orgCall[c].mine /\ orgCall[c].at = "answered" /\ org' = org /\ orgList' = orgList
        /\ organizations' = [organizations EXCEPT ![orgCall[c].org] = Brings(c)]
    BY <1>8 DEF SaveAnswered, Brings, orgRows
  <2>3. SavedOf(o)' = {} /\ orgList.at = "done" /\ Lists' = Lists
    BY <2>1, <2>2, NoOrgCallIs DEF SavedOf, PageFirst, Lists
  <2>4. CASE orgCall[c].org = o
    <3>1. c \in SavedOf(o) /\ organizations'[o] = Brings(c)
      BY <1>1, <2>2, <2>4 DEF SavedOf, PageTypes, Listing
    <3>2. QED
      BY <1>2, <2>2, <2>3, <3>1
  <2>5. CASE orgCall[c].org # o
    <3>1. organizations'[o] = organizations[o] /\ SavedOf(o) = {}
      BY <1>1, <2>2, <2>5 DEF SavedOf, PageTypes, Listing, PageFirst
    <3>2. QED
      BY <1>2, <2>2, <2>3, <3>1
  <2>6. QED
    BY <2>4, <2>5
<1>9. ASSUME NEW c \in OrgCall, CreateOrganization(c) PROVE Holds(o)'
  <2>1. PICK p \in Org \ Made, new \in CallRecord :
          LET call == orgCall[c] space == TeamOf(call.token) IN
          /\ Becomes(c, new) /\ call.kind = "create" /\ call.at = "read"
          /\ org' = [org EXCEPT ![p] = [name |-> call.name, token |-> call.token,
                                        space |-> space]]
          /\ orgStrain' = orgStrain \cup FromOthers(c, p)
          /\ \/ ~call.mine /\ new = NoOrgCall
             \/ /\ call.mine /\ new.at = "answered" /\ new.org = p /\ new.space = space
                /\ Keeps(new, call, AllFields \ {"org", "space"})
    BY <1>1, <1>9, CreateIs
  <2>2. orgCall'[c] = new /\ \A e \in OrgCall \ {c} : orgCall'[e] = orgCall[e]
    BY <1>1, <2>1, OtherCalls
  <2>3. UNCHANGED <<orgList, organizations>>
    BY <1>9 DEF CreateOrganization, orgPage
  <2>4. CASE p = o
    <3>1. orgCall[c].mine /\ orgList.at = "done"
      BY <2>1, <2>4 DEF FromOthers, Strained, PageFirst
    <3>2. new.mine /\ new.at = "answered" /\ new.org = o
      BY <2>1, <2>4, <3>1 DEF Keeps, AllFields
    <3>3. SavedOf(o)' = {c}
      BY <2>1, <2>2, <3>1, <3>2 DEF SavedOf, PageFirst
    <3>4. Lists'[o] = Brings(c)'
      BY <1>1, <2>1, <2>2, <2>4, <3>1, <3>2 DEF Lists, Brings, Keeps, AllFields, RowTypes
    <3>5. QED
      BY <2>3, <3>1, <3>3, <3>4
  <2>5. CASE p # o
    <3>1. SavedOf(o)' = SavedOf(o) /\ \A d \in SavedOf(o) : orgCall'[d] = orgCall[d]
      BY <2>1, <2>2, <2>5, NoOrgCallIs DEF SavedOf
    <3>2. org'[o] = org[o]
      BY <1>1, <2>1, <2>5 DEF RowTypes
    <3>3. QED
      BY <1>4, <2>3, <3>1, <3>2
  <2>6. QED
    BY <2>4, <2>5
<1>10. ASSUME NEW c \in OrgCall, UpdateOrganization(c) PROVE Holds(o)'
  <2>1. PICK new : LET call == orgCall[c] IN
          /\ Becomes(c, new) /\ call.org \in Org
          /\ \/ ~call.mine /\ new = NoOrgCall
             \/ call.mine /\ new.at = "answered" /\ Keeps(new, call, AllFields)
    BY <1>1, <1>10, UpdateIs
  <2>2. orgCall'[c] = new /\ \A e \in OrgCall \ {c} : orgCall'[e] = orgCall[e]
    BY <1>1, <2>1, OtherCalls
  <2>3. UNCHANGED <<orgList, organizations>> /\ orgCall[c].at = "write"
    BY <1>10 DEF UpdateOrganization, orgPage
  <2>4. CASE orgCall[c].org = o
    <3>1. orgCall[c].mine /\ orgList.at = "done"
      BY <1>10, <2>4 DEF UpdateOrganization, FromOthers, Strained, PageFirst
    <3>2. new.mine /\ new.at = "answered" /\ new.org = o
      BY <2>1, <2>4, <3>1 DEF Keeps, AllFields
    <3>3. SavedOf(o)' = {c}
      BY <2>1, <2>2, <3>1, <3>2 DEF SavedOf, PageFirst
    <3>4. Lists'[o] = Brings(c)'
      BY <1>1, <1>10, <2>1, <2>2, <2>4, <3>1
      DEF UpdateOrganization, Lists, Brings, Keeps, AllFields, RowTypes
    <3>5. QED
      BY <2>3, <3>1, <3>3, <3>4
  <2>5. CASE orgCall[c].org # o
    <3>1. SavedOf(o)' = SavedOf(o) /\ \A d \in SavedOf(o) : orgCall'[d] = orgCall[d]
      BY <2>1, <2>2, <2>3, <2>5, NoOrgCallIs DEF SavedOf, Keeps, AllFields
    <3>2. org'[o] = org[o]
      BY <1>1, <1>10, <2>5 DEF UpdateOrganization, RowTypes
    <3>3. QED
      BY <1>4, <2>3, <3>1, <3>2
  <2>6. QED
    BY <2>4, <2>5
<1>11. ASSUME NEW c \in OrgCall, CallGoesOn(c),
              ~(SaveAnswered(c) \/ CreateOrganization(c) \/ UpdateOrganization(c))
       PROVE  Holds(o)'
  <2>1. PICK new : Becomes(c, new) /\ Follows(c, orgCall[c], new)
    BY <1>1, <1>11, GoesOn
  <2>2. orgCall'[c] = new /\ \A e \in OrgCall \ {c} : orgCall'[e] = orgCall[e]
    BY <1>1, <2>1, OtherCalls
  <2>3. UNCHANGED <<org, orgList, organizations>>
    BY <1>11 DEF CallGoesOn, UpdateRead, LinkRead, KeepClient, LinkCheck, LinkWrite, LinkAnswered,
       OrgCallFails, orgRows, orgPage
  <2>4. c \notin SavedOf(o)
    <3>1. CASE UpdateRead(c)
      BY <3>1 DEF UpdateRead, SavedOf
    <3>2. CASE OrgCallFails(c)
      BY <3>2 DEF OrgCallFails, SavedOf, Strained
    <3>3. CASE orgCall[c].kind = "link"
      BY <3>3 DEF Staged, SavedOf
    <3>4. QED
      BY <1>11, <3>1, <3>2, <3>3 DEF CallGoesOn, LinkRead, KeepClient, LinkCheck, LinkWrite,
         LinkAnswered
  <2>5. ~(new.mine /\ new.at = "answered")
    BY <1>11, <2>1, NoOrgCallIs DEF Follows, Keeps, AllFields, Staged
  <2>6. SavedOf(o)' = SavedOf(o) /\ \A d \in SavedOf(o) : orgCall'[d] = orgCall[d]
    BY <2>2, <2>4, <2>5 DEF SavedOf
  <2>7. QED
    BY <1>4, <2>3, <2>6
<1>12. QED
  BY <1>1, <1>5, <1>6, <1>7, <1>8, <1>9, <1>10, <1>11, OrgSteps DEF CallGoesOn

LEMMA ProfileFollowsStep ==
  ASSUME OrgShape, ProfileFollows, OrgNext
  PROVE  ProfileFollows'
<1> USE DEF OrgShape
<1>1. RowTypes /\ PageTypes /\ CallTypes
  BY OrgTypes
<1> DEFINE Holds ==
      /\ \A c, d \in LinksOf(Home) : c = d
      /\ \A c \in LinksOf(Home) : orgCall[c].at = "answered" => orgCall[c].space = linkedIn[Home]
      /\ (\A c \in LinksOf(Home) : orgCall[c].at # "answered") => profile.account = linkedIn[Home]
<1> SUFFICES ASSUME profile'.open, ~Strained("links", Home)', ~Strained("lost", Home)'
             PROVE  Holds'
  BY DEF ProfileFollows
<1>2. ~Strained("links", Home) /\ ~Strained("lost", Home)
  BY StrainsStay
<1>3. profile.open => Holds
  BY <1>2 DEF ProfileFollows
<1>4. ~profile.open => LinksOf(Home) = {}
  BY DEF LinksOf, Staged
<1>5. CASE OpenProfile
  <2>1. orgCall' = orgCall /\ linkedIn' = linkedIn /\ profile' = MyProfile /\ ~profile.open
    BY <1>5 DEF OpenProfile, orgRows
  <2>2. LinksOf(Home)' = {} /\ profile'.account = linkedIn'[Home]
    BY <1>4, <2>1 DEF LinksOf, MyProfile
  <2>3. QED
    BY <2>2
\* The links stay, or those that are not answered go.
<1>6. ASSUME UNCHANGED <<linkedIn, profile>>, LinksOf(Home)' \subseteq LinksOf(Home),
             \A c \in LinksOf(Home)' : orgCall'[c] = orgCall[c],
             \A c \in LinksOf(Home) : orgCall[c].at = "answered" => c \in LinksOf(Home)'
      PROVE  Holds'
  BY <1>3, <1>6
<1>7. CASE PagesAlone /\ ~OpenProfile
  <2>1. UNCHANGED <<orgCall, linkedIn, profile>>
    BY <1>7 DEF PagesAlone, OrgFetchRead, OrgFetchShow, OrgFetchFails, CloseForm,
       HandleCreate, HandleEdit, OpenForm, orgRows
  <2>2. QED
    BY <1>6, <2>1 DEF LinksOf
<1>8. CASE Restarts
  <2>1. UNCHANGED <<linkedIn, profile>>
    BY <1>8 DEF Restarts, orgRows
  <2>2. \A c \in OrgCall : orgCall'[c] = IF orgCall[c].at = "answered" THEN orgCall[c] ELSE NoOrgCall
    BY <1>8 DEF Restarts
  <2>3. QED
    BY <1>6, <2>1, <2>2, NoOrgCallIs DEF LinksOf
<1>9. ASSUME NEW c \in OrgCall, NEW call \in CallRecord, Arrives(c, call) PROVE Holds'
  <2>1. orgCall'[c] = call /\ \A e \in OrgCall \ {c} : orgCall'[e] = orgCall[e]
    BY <1>1, <1>9, ArrivesIs, OtherCalls
  <2>2. /\ UNCHANGED <<linkedIn, profile>> /\ orgCall[c].kind = "none" /\ call.at = "read"
    BY <1>9, NoOrgCallIs DEF Arrives, OrgCallArrives, orgRows
  <2>3. CASE call.kind = "link" /\ call.org = Home
    <3>1. LinksOf(Home) = {}
      BY <1>9, <2>3, HomeIsAnOrg DEF Arrives, OrgCallArrives, MeetsLink, LinksOf, Strained
    <3>2. LinksOf(Home)' = {c}
      BY <2>1, <2>3, <3>1 DEF LinksOf
    <3>3. QED
      BY <1>3, <2>1, <2>2, <3>1, <3>2
  <2>4. CASE ~(call.kind = "link" /\ call.org = Home)
    BY <1>6, <2>1, <2>2, <2>4 DEF LinksOf
  <2>5. QED
    BY <2>3, <2>4
<1>10. ASSUME NEW c \in OrgCall, LinkWrite(c) PROVE Holds'
  <2>1. PICK new : Becomes(c, new) /\ new.at = "answered" /\ Keeps(new, orgCall[c], AllFields)
    BY <1>1, <1>10, LinkWriteIs
  <2>2. orgCall'[c] = new /\ \A e \in OrgCall \ {c} : orgCall'[e] = orgCall[e]
    BY <1>1, <2>1, OtherCalls
  <2>3. orgCall[c].kind = "link" /\ orgCall[c].org = Home /\ profile.open
    BY <1>10 DEF LinkWrite, Staged
  <2>4. linkedIn'[Home] = new.space
    BY <1>1, <1>10, <2>1, <2>3, HomeIsAnOrg DEF LinkWrite, RowTypes, Keeps, AllFields
  <2>5. LinksOf(Home)' = {c}
    BY <1>3, <2>1, <2>2, <2>3 DEF LinksOf, Keeps, AllFields
  <2>6. QED
    BY <2>1, <2>2, <2>4, <2>5
<1>11. ASSUME NEW c \in OrgCall, LinkAnswered(c) PROVE Holds'
  <2>1. orgCall'[c] = NoOrgCall /\ \A e \in OrgCall \ {c} : orgCall'[e] = orgCall[e]
    BY <1>1, <1>11, EndsIs, OtherCalls
  <2>2. orgCall[c].kind = "link" /\ orgCall[c].org = Home /\ profile.open
        /\ orgCall[c].at = "answered"
    BY <1>11 DEF LinkAnswered, Staged
  <2>3. LinksOf(Home) = {c} /\ orgCall[c].space = linkedIn[Home]
    BY <1>3, <2>2 DEF LinksOf
  <2>4. LinksOf(Home)' = {}
    BY <2>1, <2>3, NoOrgCallIs DEF LinksOf
  <2>5. linkedIn' = linkedIn /\ profile'.account = orgCall[c].space
    BY <1>1, <1>11 DEF LinkAnswered, orgRows, PageTypes
  <2>6. QED
    BY <2>3, <2>4, <2>5
<1>12. ASSUME NEW c \in OrgCall, CallGoesOn(c), ~(LinkWrite(c) \/ LinkAnswered(c)) PROVE Holds'
  <2>1. PICK new : Becomes(c, new) /\ Follows(c, orgCall[c], new)
    BY <1>1, <1>12, GoesOn
  <2>2. orgCall'[c] = new /\ \A e \in OrgCall \ {c} : orgCall'[e] = orgCall[e]
    BY <1>1, <2>1, OtherCalls
  <2>3. UNCHANGED <<linkedIn, profile>>
    BY <1>12 DEF CallGoesOn, SaveAnswered, CreateOrganization, UpdateRead, UpdateOrganization,
       LinkRead, KeepClient, LinkCheck, OrgCallFails, orgRows
  <2>4. ~(orgCall[c].kind = "link" /\ orgCall[c].at = "answered" /\ orgCall[c].org = Home)
    <3>1. CASE OrgCallFails(c)
      BY <3>1 DEF OrgCallFails, Strained
    <3>2. CASE SaveAnswered(c)
      BY <3>2 DEF SaveAnswered, Staged
    <3>3. QED
      BY <1>12, <3>1, <3>2 DEF CallGoesOn, CreateOrganization, UpdateRead, UpdateOrganization,
         LinkRead, KeepClient, LinkCheck, Writers
  <2>5. CASE orgCall[c].kind = "link" /\ orgCall[c].org = Home
    <3>1. c \in LinksOf(Home) /\ profile.open
      BY <2>5 DEF LinksOf, Staged
    <3>2. LinksOf(Home) = {c} /\ orgCall[c].at # "answered"
      BY <1>3, <2>4, <2>5, <3>1 DEF LinksOf
    <3>3. new = NoOrgCall \/ new.at # "answered"
      BY <1>12, <2>1, <2>5 DEF Follows, Writers
    <3>4. new.at # "answered"
      BY <3>3, NoOrgCallIs
    <3>5. LinksOf(Home)' \subseteq {c}
      BY <2>2, <3>2 DEF LinksOf
    <3>6. QED
      BY <1>3, <2>2, <2>3, <3>1, <3>2, <3>4, <3>5
  <2>6. CASE ~(orgCall[c].kind = "link" /\ orgCall[c].org = Home)
    <3>1. ~(new.kind = "link" /\ new.org = Home)
      <4>1. orgCall[c].kind # "link"
        BY <2>6 DEF Staged
      <4>2. new.kind # "link"
        BY <2>1, <4>1, NoOrgCallIs DEF Follows, Keeps, AllFields, Writers
      <4>3. QED
        BY <4>2
    <3>2. LinksOf(Home)' = LinksOf(Home) /\ c \notin LinksOf(Home)
      BY <2>2, <2>6, <3>1 DEF LinksOf
    <3>3. \A d \in LinksOf(Home) : orgCall'[d] = orgCall[d]
      BY <2>2, <3>2 DEF LinksOf
    <3>4. QED
      BY <1>6, <2>3, <3>2, <3>3
  <2>7. QED
    BY <2>5, <2>6
<1>13. QED
  BY <1>1, <1>5, <1>7, <1>8, <1>9, <1>10, <1>11, <1>12, OrgSteps
-----------------------------------------------------------------------------
LEMMA OrgInit ==
  ASSUME NEW acts \in Nat, OrganizationsInit(acts)
  PROVE  OrgInv
<1>1. /\ org \in [Org -> OrgRow]
      /\ \A o \in Org : \/ org[o] = Unmade
                        \/ org[o].name # NoLabel
                           /\ (org[o].token # NoToken => org[o].space = SpaceOf[org[o].token])
  <2>1. CASE org = [o \in Org |-> Unmade]
    BY <2>1 DEF Unmade, OrgRow
  <2>2. CASE org \in OrgTable
    BY <2>2, TablesOfOrgs
  <2>3. QED
    BY <2>1, <2>2 DEF OrganizationsInit
<1>2. \A c \in OrgCall : orgCall[c] = NoOrgCall
  BY DEF OrganizationsInit
<1>3. \A o \in Org : WritersOf(o) = {} /\ LinksOf(o) = {} /\ SavedOf(o) = {}
  BY <1>2, NoOrgCallIs DEF WritersOf, LinksOf, SavedOf, Writers
<1>4. /\ orgList.at \in {"closed", "asked"} /\ orgList.list = [o \in Org |-> Unlisted]
      /\ orgList \in [at : {"closed", "asked", "answered", "done", "stuck"}, list : Listing]
  BY DEF OrganizationsInit, Listing, Unlisted
<1>5. organizations = [o \in Org |-> Unlisted] /\ organizations \in Listing
  BY DEF OrganizationsInit, Listing, Unlisted
<1>6. /\ modal = Closed /\ ~modal.open /\ modal.org = NoOrg
      /\ profile = [open |-> FALSE, enabled |-> FALSE, account |-> NoSpace]
      /\ ~profile.open
  BY DEF OrganizationsInit, Closed
<1>7. /\ linkedIn = [o \in Org |-> NoSpace] /\ client = [o \in Org |-> NoToken]
      /\ given = [o \in Org |-> org[o].token] /\ orgActs = acts /\ orgStrain = {}
      /\ orgCall = [c \in OrgCall |-> NoOrgCall]
  BY DEF OrganizationsInit
<1>8. RowTypes
  BY <1>1, <1>7 DEF RowTypes, OrgRow
<1>9. PageTypes
  BY <1>4, <1>5, <1>6 DEF PageTypes, Closed
<1>10. CallTypes
  BY <1>7, NoOrgCallIs DEF CallTypes
<1>11. OrganizationsTypeOK
  BY <1>8, <1>9, <1>10, OrgTypes
<1>12. Named
  BY <1>1, <1>2, <1>4, <1>5, <1>6, <1>7, NoneIsNone, NoOrgCallIs DEF Named, Made
<1>13. Staged
  BY <1>2, NoOrgCallIs DEF Staged, Writers
<1>14. PageFirst
  BY <1>2, <1>6, NoOrgCallIs DEF PageFirst
<1>15. TokenStands
  BY <1>3, <1>7 DEF TokenStands
<1>16. PageFollows
  BY <1>3, <1>4 DEF PageFollows
<1>17. SpaceOfToken
  BY <1>1, <1>3 DEF SpaceOfToken, Unmade
<1>18. ClientOfToken
  BY <1>3, <1>7 DEF ClientOfToken
<1>19. AccountOfSpace
  BY <1>3, <1>7 DEF AccountOfSpace
<1>20. ProfileFollows
  BY <1>6 DEF ProfileFollows
<1>21. QED
  BY <1>11, <1>12, <1>13, <1>14, <1>15, <1>16, <1>17, <1>18, <1>19, <1>20 DEF OrgInv, OrgShape

LEMMA OrgStays == OrgInv /\ UNCHANGED orgVars => OrgInv'
<1> SUFFICES ASSUME OrgInv, UNCHANGED orgVars PROVE OrgInv'
  OBVIOUS
<1>1. /\ UNCHANGED <<org, linkedIn, given, client, orgCall, orgList, organizations, modal>>
      /\ UNCHANGED <<profile, orgActs, orgStrain>>
  BY DEF orgVars, orgRows, orgPage
<1>2. OrganizationsTypeOK'
  BY <1>1 DEF OrgInv, OrgShape, OrganizationsTypeOK
<1>3. Named'
  BY <1>1 DEF OrgInv, OrgShape, Named, Made
<1>4. Staged' /\ PageFirst'
  BY <1>1 DEF OrgInv, OrgShape, Staged, PageFirst
<1>5. TokenStands'
  BY <1>1 DEF OrgInv, TokenStands, Strained, WritersOf, Meant
<1>6. PageFollows'
  BY <1>1 DEF OrgInv, PageFollows, Strained, SavedOf, Brings, Lists
<1>7. SpaceOfToken' /\ ClientOfToken'
  BY <1>1 DEF OrgInv, SpaceOfToken, ClientOfToken, Strained, WritersOf, LinksOf
<1>8. AccountOfSpace' /\ ProfileFollows'
  BY <1>1 DEF OrgInv, AccountOfSpace, ProfileFollows, Strained, LinksOf
<1>9. QED
  BY <1>2, <1>3, <1>4, <1>5, <1>6, <1>7, <1>8 DEF OrgInv, OrgShape

LEMMA OrgInvStep == OrgInv /\ OrgNext => OrgInv'
<1> SUFFICES ASSUME OrgInv, OrgNext PROVE OrgInv'
  OBVIOUS
<1>1. OrgShape'
  BY OrgTypeStep, NamedStep, StagedStep, PageFirstStep DEF OrgInv, OrgShape
<1>2. QED
  BY <1>1, TokenStandsStep, PageFollowsStep, SpaceOfTokenStep, ClientOfTokenStep,
     AccountOfSpaceStep, ProfileFollowsStep DEF OrgInv

\* The properties of the runs say what happened with a set; here it is one word.
LEMMA HappenedIs ==
  ASSUME OrganizationsTypeOK, NEW what, NEW o \in Org
  PROVE  Happened(what, o) <=> \E w \in what : Strained(w, o)
<1>1. \A s \in orgStrain : s = <<s[1], s[2]>>
  BY DEF OrganizationsTypeOK
<1>2. ASSUME NEW w \in what, Strained(w, o) PROVE Happened(what, o)
  <2>1. <<w, o>> \in {u \in orgStrain : u[2] = o} /\ <<w, o>>[1] = w
    BY <1>2 DEF Strained
  <2>2. w \in {s[1] : s \in {u \in orgStrain : u[2] = o}}
    BY <2>1
  <2>3. QED
    BY <2>2 DEF Happened
<1>3. ASSUME Happened(what, o) PROVE \E w \in what : Strained(w, o)
  <2>1. PICK w : w \in what /\ w \in {s[1] : s \in {u \in orgStrain : u[2] = o}}
    BY <1>3 DEF Happened
  <2>2. PICK s \in orgStrain : s[2] = o /\ w = s[1]
    BY <2>1
  <2>3. QED
    BY <1>1, <2>1, <2>2 DEF Strained
<1>4. QED
  BY <1>2, <1>3

LEMMA SavesStandIs == OrgInv => SavesStand
<1> SUFFICES ASSUME OrgInv, NEW o \in Org
             PROVE  /\ ~Happened({"overlap"}, o) /\ (\A c \in OrgCall : orgCall[c].org # o) =>
                          org[o].token = given[o]
                    /\ OrgPageRests /\ ~Happened({"others", "lost"}, o) =>
                          organizations[o] = Lists[o]
  BY DEF SavesStand
<1>1. OrganizationsTypeOK
  BY DEF OrgInv, OrgShape
<1>2. ~Happened({"overlap"}, o) => org[o].token = given[o]
  BY <1>1, HappenedIs DEF OrgInv, TokenStands
<1>3. ASSUME OrgPageRests, ~Happened({"others", "lost"}, o) PROVE organizations[o] = Lists[o]
  <2>1. SavedOf(o) = {} /\ orgList.at = "done"
    BY <1>3 DEF OrgPageRests, SavedOf
  <2>2. ~Strained("others", o) /\ ~Strained("lost", o)
    BY <1>1, <1>3, HappenedIs
  <2>3. QED
    BY <2>1, <2>2 DEF OrgInv, PageFollows
<1>4. QED
  BY <1>2, <1>3

LEMMA OneWorkspaceIs == OrgInv => OneWorkspace
<1> SUFFICES ASSUME OrgInv PROVE OneWorkspace
  OBVIOUS
<1>1. OrganizationsTypeOK
  BY DEF OrgInv, OrgShape
<1>2. ASSUME NEW o \in Org, NEW w, ~Happened({w}, o) PROVE ~Strained(w, o)
  BY <1>1, <1>2, HappenedIs
<1>3. ASSUME NEW o \in Org, profile.open, o = Home, ~Happened({"links", "lost"}, o),
             \A c \in OrgCall : orgCall[c].kind # "link"
      PROVE  profile.account = linkedIn[o]
  <2>1. ~Strained("links", Home) /\ ~Strained("lost", Home)
    BY <1>1, <1>3, HappenedIs
  <2>2. LinksOf(Home) = {}
    BY <1>3 DEF LinksOf
  <2>3. QED
    BY <1>3, <2>1, <2>2 DEF OrgInv, ProfileFollows
<1>4. ASSUME NEW o \in Org
      PROVE  /\ org[o].token # NoToken /\ ~Happened({"hand"}, o) =>
                  org[o].space = SpaceOf[org[o].token]
             /\ ~Happened({"replaced"}, o) => client[o] \in {NoToken, org[o].token}
             /\ ~Happened({"moved"}, o) => \/ NoSpace \in {linkedIn[o], org[o].space}
                                           \/ linkedIn[o] = org[o].space
  BY <1>2 DEF OrgInv, SpaceOfToken, ClientOfToken, AccountOfSpace
<1>5. QED
  BY <1>3, <1>4 DEF OneWorkspace
=============================================================================
