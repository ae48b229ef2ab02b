----------------------------- MODULE AdminPage -----------------------------
(***************************************************************************)
(* The page of the administrators (ManageAdmin.tsx): the members and the   *)
(* pending invitations, read by two requests when the page opens, and then *)
(* replayed from the answers to the calls of the page itself.  The calls   *)
(* are the requests of module Accounts, with all their steps; the page     *)
(* learns how one of them ended.  Logins that accept an invitation and     *)
(* other administrators go on meanwhile, and the page never reads again.   *)
(***************************************************************************)
EXTENDS Accounts

CONSTANT Clerk           \* who sits at the pages of the administrators

ASSUME ClerkIsSomebody == Clerk \in Person

VARIABLES
  members, invitations,  \* the states of the page
  inviting,              \* isModalOpen
  opening,               \* the two requests of fetchData
  adminCall,             \* which requests are calls of the page
  drift                  \* history: what may have separated page and tables

shown == <<members, invitations, inviting>>
adminPageVars == <<shown, opening, adminCall, drift>>

NoAdminCall == [op |-> "none", at |-> "idle", who |-> Nobody, inv |-> NoInvitation]
Unread == [got |-> FALSE, all |-> {}]
Pending == {i \in Invitation : invitation[i].status = "PENDING"}

AdminPageTypeOK ==
  /\ members \subseteq Person /\ invitations \subseteq Invitation
  /\ inviting \in BOOLEAN
  /\ opening \in [at : {"closed", "asked", "done"},
                  members : [got : BOOLEAN, all : SUBSET Person],
                  invitations : [got : BOOLEAN, all : SUBSET Invitation]]
  /\ adminCall \in [Request ->
       [op : {"none", "invite", "revoke", "remove"}, at : {"idle", "sent", "answered"},
        who : Person \cup {Nobody}, inv : Invitation \cup {NoInvitation}]]
  /\ drift \subseteq {"others", "logins", "lost"}

AdminPageInit ==
  /\ members = {} /\ invitations = {} /\ inviting = FALSE
  /\ \E at \in {"closed", "asked"} :
       opening = [at |-> at, members |-> Unread, invitations |-> Unread]
  /\ adminCall = [r \in Request |-> NoAdminCall]
  /\ drift = {}
-----------------------------------------------------------------------------
(* fetchData: Promise.all of the two lists. *)

\* Variant: whoever has an account is listed.
GetAdminMembersAll ==
  /\ opening.at = "asked" /\ ~opening.members.got
  /\ opening' = [opening EXCEPT !.members = [got |-> TRUE, all |-> {p \in Person : role[p] # "none"}]]
  /\ UNCHANGED <<shown, adminCall, drift>>

GetAdminMembers ==
  /\ opening.at = "asked" /\ ~opening.members.got
  /\ opening' = [opening EXCEPT !.members = [got |-> TRUE, all |-> Admins]]
  /\ UNCHANGED <<shown, adminCall, drift>>

GetInvitations ==
  /\ opening.at = "asked" /\ ~opening.invitations.got
  /\ opening' = [opening EXCEPT !.invitations = [got |-> TRUE, all |-> Pending]]
  /\ UNCHANGED <<shown, adminCall, drift>>

FetchShown ==
  /\ opening.at = "asked" /\ opening.members.got /\ opening.invitations.got
  /\ members' = opening.members.all
  /\ invitations' = opening.invitations.all
  /\ opening' = [at |-> "done", members |-> Unread, invitations |-> Unread]
  /\ UNCHANGED <<inviting, adminCall, drift>>

\* One of the two fails: the page stays without either list, and may be used.
FetchRejected ==
  /\ opening.at = "asked"
  /\ opening' = [at |-> "done", members |-> Unread, invitations |-> Unread]
  /\ drift' = drift \cup {"lost"}
  /\ UNCHANGED <<shown, adminCall>>
-----------------------------------------------------------------------------
(* The calls of the page. *)

Calling(op) == \E r \in Request : adminCall[r].op = op

AdminPageCalls(r, op, who, inv) ==
  /\ opening.at = "done"
  /\ adminCall[r] = NoAdminCall
  /\ adminCall' = [adminCall EXCEPT ![r] = [op |-> op, at |-> "sent", who |-> who, inv |-> inv]]
  /\ UNCHANGED <<shown, opening, drift>>

\* The form rests while an invitation is sent; Escape closes it nevertheless.
OpenInvite ==
  /\ opening.at = "done" /\ ~inviting
  /\ inviting' = TRUE
  /\ UNCHANGED <<members, invitations, opening, adminCall, drift>>

CloseInvite ==
  /\ inviting
  /\ inviting' = FALSE
  /\ UNCHANGED <<members, invitations, opening, adminCall, drift>>

HandleInvite(r, who) ==
  /\ inviting /\ ~Calling("invite")
  /\ AdminPageCalls(r, "invite", who, NoInvitation)
  /\ InviteBegin(r, Clerk, who)

\* The button stays on: an invitation may be revoked twice.
HandleRevoke(r, i) ==
  /\ i \in invitations
  /\ AdminPageCalls(r, "revoke", Nobody, i)
  /\ RevokeBegin(r, Clerk, i)

\* Not oneself, and not the last one that the page lists.
HandleRemove(r, who) ==
  /\ who \in members \ {Clerk} /\ Cardinality(members) > 1
  /\ AdminPageCalls(r, "remove", who, NoInvitation)
  /\ RemoveBegin(r, Clerk, who)
-----------------------------------------------------------------------------
(* What a step of the requests means to the page. *)

EndsNow(r) == req[r] # Idle /\ req'[r] = Idle
Heard(r) == adminCall[r].at = "sent" /\ EndsNow(r)

\* The request did what it was for, and says which invitation it made.
Done(r) ==
  \/ req[r].at = "create" /\ invitation' # invitation
  \/ req[r].at = "revoke" /\ invitation'[req[r].inv].status = "REVOKED"
  \/ req[r].at = "demote" /\ role'[req[r].who] = "USER"
Told(r) ==
  IF req[r].at = "create"
  THEN CHOOSE i \in Invitation : invitation[i].status = "unused" /\ invitation'[i].status # "unused"
  ELSE adminCall[r].inv

\* Somebody else's request changes a list that the page has read.
Drifts ==
  LET changed == Admins' # Admins \/ Pending' # Pending
      login == \E r \in Request : req[r].op = "login" /\ req'[r] # req[r]
  IN IF changed /\ (opening.at = "done" \/ opening.members.got \/ opening.invitations.got)
     THEN {IF login THEN "logins" ELSE "others"} ELSE {}

\* The answer of a call that is done arrives, or is lost; any other is an error.
HearsAnswer(r) ==
  \/ /\ Done(r)
     /\ adminCall' = [adminCall EXCEPT ![r].at = "answered", ![r].inv = Told(r)]
     /\ UNCHANGED drift
  \/ /\ adminCall' = [adminCall EXCEPT ![r] = NoAdminCall]
     /\ drift' = IF Done(r) THEN drift \cup {"lost"} ELSE drift

Hears ==
  \/ /\ opening.at = "closed"
     /\ UNCHANGED adminPageVars
  \/ /\ opening.at # "closed" /\ ~\E r \in Request : Heard(r)
     /\ drift' = drift \cup Drifts
     /\ UNCHANGED <<shown, opening, adminCall>>
  \/ /\ \E r \in Request : Heard(r) /\ HearsAnswer(r)
     /\ UNCHANGED <<shown, opening>>

\* A new invitation is appended and the form closed, whichever is open; what was
\* revoked or removed is taken off the lists.
AnswerShown(r) ==
  LET done == adminCall[r]
  IN /\ done.at = "answered"
     /\ members' = members \ IF done.op = "remove" THEN {done.who} ELSE {}
     /\ invitations' = CASE done.op = "invite" -> invitations \cup {done.inv}
                         [] done.op = "revoke" -> invitations \ {done.inv}
                         [] OTHER -> invitations
     /\ inviting' = (inviting /\ done.op # "invite")
     /\ adminCall' = [adminCall EXCEPT ![r] = NoAdminCall]
     /\ UNCHANGED <<opening, drift>>
-----------------------------------------------------------------------------
AdminPageCall ==
  \E r \in Request :
    \/ \E who \in Person : HandleInvite(r, who) \/ HandleRemove(r, who)
    \/ \E i \in Invitation : HandleRevoke(r, i)

AdminPageStep ==
  \/ GetAdminMembers \/ GetInvitations \/ FetchShown \/ FetchRejected
  \/ OpenInvite \/ CloseInvite
  \/ \E r \in Request : AnswerShown(r)
-----------------------------------------------------------------------------
\* The page that rests tells the administrators and the pending invitations,
\* although it read them at two moments and never reads again: what its own
\* calls did is all there.  Unless others acted or an answer was lost, a login
\* that accepted an invitation only leaves names out of the administrators and
\* accepted invitations on the list, never shows somebody as administrator who
\* is none, nor hides an invitation that can still be revoked.
AdminPageFollows ==
  opening.at = "done" /\ (\A r \in Request : adminCall[r] = NoAdminCall) =>
    /\ drift \subseteq {"logins"} => members \subseteq Admins /\ Pending \subseteq invitations
    /\ drift = {} => members = Admins /\ invitations = Pending
=============================================================================
