--------------------------- MODULE Organizations ---------------------------
(***************************************************************************)
(* Organizations and their Slack workspaces: the table, as                 *)
(* organizations.service.ts writes it; the page of the administrators that *)
(* edits it (ManageOrganization.tsx); the Slack client that the process    *)
(* keeps for each organization (slack.service.ts), which nothing drops     *)
(* when the token changes; and the page on which a member links a Slack    *)
(* account (CamperMyPage.tsx).  An account is known by its workspace, and  *)
(* the token that is stored is the token: encryption is left out.          *)
(***************************************************************************)
EXTENDS Naturals, FiniteSets

CONSTANTS
  Org, NoOrg,
  Label, NoLabel,      \* names of organizations
  Token, NoToken,
  Space, NoSpace,      \* workspaces of Slack
  SpaceOf,             \* the workspace that auth.test gives for a token
  OrgCall,             \* slots of concurrent calls
  OrgTable,            \* the rows there may be at first
  Home                 \* the organization of the member

OrgRow == [name : Label \cup {NoLabel}, token : Token \cup {NoToken}, space : Space \cup {NoSpace}]

ASSUME TokensHaveSpaces == SpaceOf \in [Token -> Space]
ASSUME NoneIsNone == /\ NoOrg \notin Org /\ NoLabel \notin Label
                     /\ NoToken \notin Token /\ NoSpace \notin Space
ASSUME HomeIsAnOrg == Home \in Org

Unmade == [name |-> NoLabel, token |-> NoToken, space |-> NoSpace]

\* A row that is there has a name, and the workspace that was found for its token.
ASSUME TablesOfOrgs ==
  OrgTable \subseteq {t \in [Org -> OrgRow] : \A o \in Org :
    \/ t[o] = Unmade
    \/ t[o].name # NoLabel /\ (t[o].token # NoToken => t[o].space = SpaceOf[t[o].token])}

VARIABLES
  org,          \* the rows; one without a name is not there
  linkedIn,     \* the account that a member linked in each organization
  client,       \* SlackService.clients: the token of the client of each organization
  orgCall,      \* the calls under way
  orgList,      \* the request for the list when the page opens
  organizations,\* the state `organizations' of the page
  modal,        \* the form of the page
  profile,      \* the page of the member
  orgActs,      \* bound: the calls that may still come
  given,        \* history: the token that was last given for each organization
  orgStrain     \* history: what happened to which organization

orgRows == <<org, linkedIn, given>>
orgPage == <<orgList, organizations, modal>>
orgVars == <<orgRows, client, orgCall, orgPage, profile, orgActs, orgStrain>>

Unlisted == [name |-> NoLabel, space |-> NoSpace]
Closed == [open |-> FALSE, org |-> NoOrg]
NoOrgCall == [kind |-> "none", at |-> "idle", org |-> NoOrg, name |-> NoLabel, token |-> NoToken,
           held |-> NoToken, space |-> NoSpace, mine |-> FALSE]

Listing == [Org -> [name : Label \cup {NoLabel}, space : Space \cup {NoSpace}]]
OrgStrains == {"overlap", "hand", "moved", "replaced", "others", "lost", "links"}

OrganizationsTypeOK ==
  /\ org \in [Org -> OrgRow]
  /\ linkedIn \in [Org -> Space \cup {NoSpace}]
  /\ client \in [Org -> Token \cup {NoToken}]
  /\ orgCall \in [OrgCall ->
       [kind : {"none", "create", "edit", "clear", "space", "link"},
        at : {"idle", "read", "cache", "check", "write", "answered"}, org : Org \cup {NoOrg},
        name : Label \cup {NoLabel}, token : Token \cup {NoToken}, held : Token \cup {NoToken},
        space : Space \cup {NoSpace}, mine : BOOLEAN]]
  /\ orgList \in [at : {"closed", "asked", "answered", "done", "stuck"}, list : Listing]
  /\ organizations \in Listing
  /\ modal \in [open : BOOLEAN, org : Org \cup {NoOrg}]
  /\ profile \in [open : BOOLEAN, enabled : BOOLEAN, account : Space \cup {NoSpace}]
  /\ orgActs \in Nat
  /\ given \in [Org -> Token \cup {NoToken}]
  /\ orgStrain \subseteq OrgStrains \X Org

Made == {o \in Org : org[o].name # NoLabel}
Lists == [o \in Org |-> [name |-> org[o].name, space |-> org[o].space]]

OrganizationsInit(acts) ==
  /\ org \in IF acts = 0 THEN {[o \in Org |-> Unmade]} ELSE OrgTable
  /\ linkedIn = [o \in Org |-> NoSpace]
  /\ client = [o \in Org |-> NoToken]
  /\ orgCall = [c \in OrgCall |-> NoOrgCall]
  /\ orgList = [at |-> IF acts = 0 THEN "closed" ELSE "asked", list |-> [o \in Org |-> Unlisted]]
  /\ organizations = [o \in Org |-> Unlisted]
  /\ modal = Closed
  /\ profile = [open |-> FALSE, enabled |-> FALSE, account |-> NoSpace]
  /\ orgActs = acts
  /\ given = [o \in Org |-> org[o].token]
  /\ orgStrain = {}
-----------------------------------------------------------------------------
(* The page of the administrators. *)

\* findMyOrganizations of an administrator: every organization.
OrgFetchRead ==
  /\ orgList.at = "asked"
  /\ orgList' = [at |-> "answered", list |-> Lists]
  /\ UNCHANGED <<orgRows, client, orgCall, organizations, modal, profile, orgActs, orgStrain>>

OrgFetchShow ==
  /\ orgList.at = "answered"
  /\ organizations' = orgList.list
  /\ orgList' = [orgList EXCEPT !.at = "done"]
  /\ UNCHANGED <<orgRows, client, orgCall, modal, profile, orgActs, orgStrain>>

\* Nothing catches the failure: the page goes on loading.
OrgFetchFails ==
  /\ orgList.at \in {"asked", "answered"}
  /\ orgList' = [orgList EXCEPT !.at = "stuck"]
  /\ UNCHANGED <<orgRows, client, orgCall, organizations, modal, profile, orgActs, orgStrain>>

OpenForm(o) ==
  /\ orgList.at = "done" /\ ~modal.open
  /\ modal' = [open |-> TRUE, org |-> o]
  /\ UNCHANGED <<orgRows, client, orgCall, orgList, organizations, profile, orgActs, orgStrain>>

HandleCreate == OpenForm(NoOrg)

\* Every row that is listed has a button.
InTable == {o \in Org : organizations[o] # Unlisted}
HandleEdit(o) == o \in InTable /\ OpenForm(o)

\* Escape, the cross and a click outside close it, while it is submitted too.
CloseForm ==
  /\ modal.open
  /\ modal' = Closed
  /\ UNCHANGED <<orgRows, client, orgCall, orgList, organizations, profile, orgActs, orgStrain>>

Writers == {"edit", "clear", "space"}
Meets(kind, o) ==
  \E c \in OrgCall : orgCall[c].org = o /\ orgCall[c].kind \in Writers /\ kind \in Writers
MeetsLink(kind) == kind = "link" /\ \E c \in OrgCall : orgCall[c].kind = "link"

OrgCallArrives(c, call) ==
  /\ orgCall[c] = NoOrgCall
  /\ orgActs > 0
  /\ orgActs' = orgActs - 1
  /\ orgCall' = [orgCall EXCEPT ![c] = call]
  /\ orgStrain' = orgStrain
       \cup {<<"overlap", o>> : o \in {p \in Org : p = call.org /\ Meets(call.kind, p)}}
       \cup {<<"links", o>> : o \in {p \in Org : p = call.org /\ MeetsLink(call.kind)}}
  /\ UNCHANGED <<orgRows, client, profile>>

\* The form cannot be used while a save of the page is under way.
MaySubmit == modal.open /\ \A c \in OrgCall : ~orgCall[c].mine

\* Variant: a token that was left blank is sent as it is.
SubmitBlank(c, name, token) ==
  /\ MaySubmit
  /\ OrgCallArrives(c, [NoOrgCall EXCEPT !.kind = IF modal.org = NoOrg THEN "create"
                                            ELSE IF token = NoToken THEN "clear" ELSE "edit",
                                   !.at = "read", !.org = modal.org, !.name = name,
                                   !.token = token, !.mine = TRUE])
  /\ UNCHANGED orgPage

\* handleSubmit: a blank token is not sent (`|| undefined'); a blank name is not saved.
Submit(c, name, token) ==
  /\ MaySubmit
  /\ OrgCallArrives(c, [NoOrgCall EXCEPT !.kind = IF modal.org = NoOrg THEN "create" ELSE "edit",
                                   !.at = "read", !.org = modal.org, !.name = name,
                                   !.token = token, !.mine = TRUE])
  /\ UNCHANGED orgPage

\* The answer: the form that is open then is closed, whichever it is.
SaveAnswered(c) ==
  LET call == orgCall[c]
  IN /\ call.mine /\ call.at = "answered"
     /\ organizations' = [organizations EXCEPT ![call.org] =
                          [name |-> call.name, space |-> call.space]]
     /\ modal' = Closed
     /\ orgCall' = [orgCall EXCEPT ![c] = NoOrgCall]
     /\ UNCHANGED <<orgRows, client, orgList, profile, orgActs, orgStrain>>
-----------------------------------------------------------------------------
(* Others, who are not at this page: another administrator, and clients of *)
(* the API, who may also clear a token or set a workspace by hand.         *)

OthersCall(c, kind, o, name, token, space) ==
  /\ o \in IF kind = "create" THEN {NoOrg} ELSE Made
  /\ kind \in {"clear", "space"} => token = NoToken
  /\ (kind = "space") = (space # NoSpace)
  /\ OrgCallArrives(c, [NoOrgCall EXCEPT !.kind = kind, !.at = "read", !.org = o, !.name = name,
                                   !.token = token, !.space = space])
  /\ UNCHANGED orgPage
-----------------------------------------------------------------------------
(* organizations.service.ts *)

OrgCallEnds(c) == orgCall' = [orgCall EXCEPT ![c] = NoOrgCall]
\* Only the page waits for its answer.
Replies(c, call) ==
  orgCall' = [orgCall EXCEPT ![c] =
                IF call.mine THEN [call EXCEPT !.at = "answered"] ELSE NoOrgCall]
FromOthers(c, o) == IF orgCall[c].mine THEN {} ELSE {<<"others", o>>}

\* auth.test
TeamOf(token) == IF token = NoToken THEN NoSpace ELSE SpaceOf[token]

\* createOrganization: the token is verified, then the row is made.
CreateOrganization(c) ==
  LET call == orgCall[c]
      space == TeamOf(call.token)
  IN /\ call.kind = "create" /\ call.at = "read"
     /\ \E o \in Org \ Made :
          /\ org' = [org EXCEPT ![o] = [name |-> call.name, token |-> call.token, space |-> space]]
          /\ given' = [given EXCEPT ![o] = call.token]
          /\ Replies(c, [call EXCEPT !.org = o, !.space = space])
          /\ orgStrain' = orgStrain \cup FromOthers(c, o)
     /\ UNCHANGED <<linkedIn, client, orgPage, profile, orgActs>>

\* updateOrganization reads the row and then verifies the token.
UpdateRead(c) ==
  LET call == orgCall[c]
      row == org[call.org]
  IN /\ call.kind \in Writers /\ call.at = "read"
     /\ orgCall' = [orgCall EXCEPT ![c].at = "write",
          ![c].held = CASE call.kind = "clear" -> NoToken
                        [] call.token # NoToken -> call.token
                        [] OTHER -> row.token,
          ![c].space = CASE call.kind = "clear" -> NoSpace
                         [] call.kind = "space" -> call.space
                         [] call.token # NoToken -> TeamOf(call.token)
                         [] OTHER -> row.space]
     /\ UNCHANGED <<orgRows, client, orgPage, profile, orgActs, orgStrain>>

\* What the caller meant; nobody can clear a token on the page.
Meant(c) ==
  LET call == orgCall[c]
  IN IF call.token # NoToken \/ (call.kind = "clear" /\ ~call.mine) THEN call.token
     ELSE given[call.org]

\* An account that passed every check and is not written yet.
Linking(o) ==
  \E c \in OrgCall : orgCall[c].kind = "link" /\ orgCall[c].org = o /\ orgCall[c].at = "write"

UpdateOrganization(c) ==
  LET call == orgCall[c]
      o == call.org
      row == org[o]
  IN /\ call.kind \in Writers /\ call.at = "write"
     /\ org' = [org EXCEPT ![o] = [name |-> call.name, token |-> call.held, space |-> call.space]]
     /\ given' = [given EXCEPT ![o] = Meant(c)]
     /\ orgStrain' = orgStrain \cup FromOthers(c, o)
          \cup (IF call.kind = "space" THEN {<<"hand", o>>} ELSE {})
          \cup (IF row.space # call.space /\ (linkedIn[o] # NoSpace \/ Linking(o))
                THEN {<<"moved", o>>} ELSE {})
          \cup (IF row.token \notin {NoToken, call.held} THEN {<<"replaced", o>>} ELSE {})
     /\ Replies(c, call)
     /\ UNCHANGED <<linkedIn, client, orgPage, profile, orgActs>>
-----------------------------------------------------------------------------
(* A member links a Slack account, once. *)

\* getMyCamperProfile
MyProfile == [open |-> TRUE, enabled |-> org[Home].token # NoToken, account |-> linkedIn[Home]]

OpenProfile ==
  /\ ~profile.open /\ Home \in Made
  /\ profile' = MyProfile
  /\ UNCHANGED <<orgRows, client, orgCall, orgPage, orgActs, orgStrain>>

\* The pencil is there while no account is shown; the button of the input stays
\* on while an account is saved.
MayLink == profile.open /\ profile.enabled /\ profile.account = NoSpace

EditSave(c, space) ==
  /\ MayLink
  /\ OrgCallArrives(c, [NoOrgCall EXCEPT !.kind = "link", !.at = "read", !.org = Home,
                                          !.space = space])
  /\ UNCHANGED orgPage

LinkTo(c, stage, token) == orgCall' = [orgCall EXCEPT ![c].at = stage, ![c].held = token]

\* The account is looked for by the member, then by getClient: the client of the
\* process, or one for the token in the row, which it keeps.
LinkRead(c) ==
  LET o == orgCall[c].org
  IN /\ orgCall[c].kind = "link" /\ orgCall[c].at = "read"
     /\ IF linkedIn[o] # NoSpace THEN OrgCallEnds(c)
        ELSE IF client[o] # NoToken THEN LinkTo(c, "check", client[o])
        ELSE IF org[o].token # NoToken THEN LinkTo(c, "cache", org[o].token)
        ELSE OrgCallEnds(c)
     /\ UNCHANGED <<orgRows, client, orgPage, profile, orgActs, orgStrain>>

KeepClient(c) ==
  /\ orgCall[c].kind = "link" /\ orgCall[c].at = "cache"
  /\ client' = [client EXCEPT ![orgCall[c].org] = orgCall[c].held]
  /\ LinkTo(c, "check", orgCall[c].held)
  /\ UNCHANGED <<orgRows, orgPage, profile, orgActs, orgStrain>>

\* users.info finds the accounts of the workspace of the client.
Found(c) == SpaceOf[orgCall[c].held] = orgCall[c].space

\* Variant: the workspace of the organization is not compared.
LinkCheckLax(c) ==
  /\ orgCall[c].kind = "link" /\ orgCall[c].at = "check"
  /\ IF Found(c) THEN LinkTo(c, "write", NoToken) ELSE OrgCallEnds(c)
  /\ UNCHANGED <<orgRows, client, orgPage, profile, orgActs, orgStrain>>

LinkCheck(c) ==
  /\ orgCall[c].kind = "link" /\ orgCall[c].at = "check"
  /\ IF Found(c) /\ org[orgCall[c].org].space \in {NoSpace, orgCall[c].space}
     THEN LinkTo(c, "write", NoToken) ELSE OrgCallEnds(c)
  /\ UNCHANGED <<orgRows, client, orgPage, profile, orgActs, orgStrain>>

LinkWrite(c) ==
  /\ orgCall[c].kind = "link" /\ orgCall[c].at = "write"
  /\ linkedIn' = [linkedIn EXCEPT ![orgCall[c].org] = orgCall[c].space]
  /\ orgCall' = [orgCall EXCEPT ![c].at = "answered"]
  /\ UNCHANGED <<org, given, client, orgPage, profile, orgActs, orgStrain>>

LinkAnswered(c) ==
  /\ orgCall[c].kind = "link" /\ orgCall[c].at = "answered"
  /\ profile' = [profile EXCEPT !.account = orgCall[c].space]
  /\ OrgCallEnds(c)
  /\ UNCHANGED <<orgRows, client, orgPage, orgActs, orgStrain>>
-----------------------------------------------------------------------------
\* A call fails before its write, as when Slack refuses the token, or its answer
\* is lost: the form stays open.
OrgCallFails(c) ==
  LET call == orgCall[c]
  IN /\ call # NoOrgCall
     /\ OrgCallEnds(c)
     /\ orgStrain' = IF call.at = "answered" THEN orgStrain \cup {<<"lost", call.org>>}
                     ELSE orgStrain
     /\ UNCHANGED <<orgRows, client, orgPage, profile, orgActs>>

\* The process starts anew: the calls it served are gone, and its clients.
Restarts ==
  /\ \E o \in Org : client[o] # NoToken
  /\ client' = [o \in Org |-> NoToken]
  /\ orgCall' = [c \in OrgCall |-> IF orgCall[c].at = "answered" THEN orgCall[c] ELSE NoOrgCall]
  /\ orgStrain' = {s \in orgStrain : s[1] # "replaced"}
  /\ UNCHANGED <<orgRows, orgPage, profile, orgActs>>
-----------------------------------------------------------------------------
\* The calls of administrators, and what follows on them.
OrganizationsCall ==
  /\ orgActs > 0
  /\ \E c \in OrgCall, name \in Label, token \in Token \cup {NoToken} :
       \/ Submit(c, name, token)
       \/ \E kind \in {"create", "edit", "clear", "space"}, o \in Org \cup {NoOrg},
             space \in Space \cup {NoSpace} : OthersCall(c, kind, o, name, token, space)

OrganizationsStep ==
  \/ OrgFetchRead \/ OrgFetchShow \/ OrgFetchFails
  \/ HandleCreate \/ \E o \in Org : HandleEdit(o)
  \/ CloseForm \/ OpenProfile \/ Restarts
  \/ \E c \in OrgCall, space \in Space : EditSave(c, space)
  \/ \E c \in OrgCall :
       \/ SaveAnswered(c) \/ CreateOrganization(c) \/ UpdateRead(c) \/ UpdateOrganization(c)
       \/ LinkRead(c) \/ KeepClient(c) \/ LinkCheck(c) \/ LinkWrite(c) \/ LinkAnswered(c)
       \/ OrgCallFails(c)
-----------------------------------------------------------------------------
Happened(what, o) == what \cap {s[1] : s \in {u \in orgStrain : u[2] = o}} # {}
OrgPageRests == orgList.at = "done" /\ \A c \in OrgCall : ~orgCall[c].mine

\* What was saved stands: the token of an organization is the one that was last
\* given for it, whatever was saved of the name since, and the page that rests
\* shows every organization as it is.  Two updates that overlap may undo each
\* other, for each writes all it read (organizations.service.ts:135-142).
SavesStand ==
  \A o \in Org :
    /\ ~Happened({"overlap"}, o) /\ (\A c \in OrgCall : orgCall[c].org # o) =>
         org[o].token = given[o]
    /\ OrgPageRests /\ ~Happened({"others", "lost"}, o) => organizations[o] = Lists[o]

\* Token, workspace, client and linked account belong together: the workspace is
\* that of the token unless it was set by hand; the client of the process speaks
\* for the token, unless that was replaced since the process started; a member's
\* account is of the workspace, unless that changed after the account was checked
\* (the old client still finds accounts when the organization has none); and the
\* page of the member shows it, unless it was saved twice at a time or the answer
\* was lost.
OneWorkspace ==
  \A o \in Org :
    /\ org[o].token # NoToken /\ ~Happened({"hand"}, o) => org[o].space = SpaceOf[org[o].token]
    /\ ~Happened({"replaced"}, o) => client[o] \in {NoToken, org[o].token}
    /\ ~Happened({"moved"}, o) => \/ NoSpace \in {linkedIn[o], org[o].space}
                                  \/ linkedIn[o] = org[o].space
    /\ profile.open /\ o = Home /\ ~Happened({"links", "lost"}, o)
         /\ (\A c \in OrgCall : orgCall[c].kind # "link") => profile.account = linkedIn[o]
=============================================================================
