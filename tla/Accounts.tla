------------------------------ MODULE Accounts ------------------------------
(***************************************************************************)
(* Users, their roles and the invitations of administrators                *)
(* (backend/src/auth/auth.service.ts, backend/src/admin/admin.service.ts). *)
(* A handler is a row of queries without a transaction around them: what   *)
(* it read may be stale when it writes.  The role of a caller comes from   *)
(* the payload of the JWT (auth/strategies/jwt.strategy.ts), so an         *)
(* administrator who lost the role keeps acting until the token goes.      *)
(*                                                                         *)
(* A person is a GitHub login; `^Founders^' are the administrators that    *)
(* prisma/seed.ts creates.  GitHub names are compared without case both    *)
(* here and there, so a name and the person are one thing.                 *)
(***************************************************************************)
EXTENDS Naturals, FiniteSets

CONSTANTS
  Person, Founder,
  Master,              \* who has a password beside GitHub
  Invitation,          \* identities of invitations
  Request,             \* slots of concurrent requests
  Nobody, NoInvitation,
  MaxRequests          \* bound: the requests of each kind in a behaviour

ASSUME FoundersExist == Founder \subseteq Person /\ Founder # {} /\ IsFiniteSet(Person)
                        /\ Master \subseteq Founder
ASSUME NobodyIsNoPerson == Nobody \notin Person /\ NoInvitation \notin Invitation
ASSUME MaxRequestsIsNat == MaxRequests \in Nat

VARIABLES
  role,         \* User.role, "none" while there is no row
  linked,       \* who has an AuthAccount of GITHUB
  token,        \* the role in the access_token cookie of each person
  invitation,   \* AdminInvitation
  req,          \* the requests under way
  left,         \* bound: how many requests of each kind may still come
  promoted,     \* history: how often a login made a person administrator
  demoted,      \* history: who was removed from the administrators
  shutOut,      \* history: whose login failed on the acceptance
  crossed       \* history: which kinds of requests ran into each other

rows == <<role, linked, invitation>>
history == <<promoted, demoted, shutOut, crossed>>
accountVars == <<rows, token, req, left, history>>

Roles == {"USER", "ADMIN"}
Idle == [op |-> "none", at |-> "idle", by |-> Nobody, who |-> Nobody,
         inv |-> NoInvitation]
Ops == {"none", "invite", "revoke", "remove", "login"}
Stages == {"idle", "admin", "pending", "create", "status", "revoke",
           "target", "count", "demote", "account", "user", "link",
           "invitation", "accept", "issue", "roster", "register", "commit"}

AccountsTypeOK ==
  /\ role \in [Person -> Roles \cup {"none"}]
  /\ linked \subseteq Person
  /\ token \in [Person -> Roles \cup {"none"}]
  /\ invitation \in [Invitation ->
       [to : Person \cup {Nobody}, by : Person \cup {Nobody},
        status : {"unused", "PENDING", "ACCEPTED", "REVOKED"},
        acceptedBy : Person \cup {Nobody}]]
  /\ req \in [Request ->
       [op : Ops, at : Stages, by : Person \cup {Nobody}, who : Person \cup {Nobody},
        inv : Invitation \cup {NoInvitation}]]
  /\ left \in [{"admin", "login"} -> 0..MaxRequests]
  /\ promoted \in [Person -> Nat]
  /\ demoted \subseteq Person
  /\ shutOut \subseteq Person
  /\ crossed \subseteq {"removals", "invites", "logins", "revocations"}

AccountsInit ==
  /\ role = [p \in Person |-> IF p \in Founder THEN "ADMIN" ELSE "none"]
  /\ linked = {}
  /\ token = [p \in Person |-> "none"]
  /\ invitation = [i \in Invitation |->
       [to |-> Nobody, by |-> Nobody, status |-> "unused", acceptedBy |-> Nobody]]
  /\ req = [r \in Request |-> Idle]
  /\ left \in [{"admin", "login"} -> 0..MaxRequests]
  /\ promoted = [p \in Person |-> 0]
  /\ demoted = {}
  /\ shutOut = {}
  /\ crossed = {}

Admins == {p \in Person : role[p] = "ADMIN"}
PendingFor(p) == {i \in Invitation : invitation[i].to = p /\ invitation[i].status = "PENDING"}
Accepted(p) == {i \in Invitation : invitation[i].acceptedBy = p}
-----------------------------------------------------------------------------
(* Requests: arriving, moving on, ending. *)

\* What two requests that run together may spoil.
Crossing(a, b) ==
  {c \in {"removals", "invites", "logins", "revocations"} :
     \/ c = "removals" /\ a.op = "remove" /\ b.op = "remove"
     \/ c = "invites" /\ a.op = "invite" /\ b.op \in {"invite", "login"} /\ a.who = b.who
     \/ c = "invites" /\ b.op = "invite" /\ a.op = "login" /\ a.who = b.who
     \/ c = "logins" /\ a.op = "login" /\ b.op = "login" /\ a.who = b.who
     \/ c = "revocations" /\ {a.op, b.op} = {"revoke", "login"}}

Begin(r, kind, request) ==
  /\ req[r] = Idle
  /\ left[kind] > 0
  /\ left' = [left EXCEPT ![kind] = @ - 1]
  /\ req' = [req EXCEPT ![r] = request]
  /\ crossed' = crossed \cup UNION {Crossing(request, req[q]) : q \in Request}
  /\ UNCHANGED <<rows, token, promoted, demoted, shutOut>>

MoveTo(r, stage) == req' = [req EXCEPT ![r].at = stage]
MoveWith(r, stage, i) == req' = [req EXCEPT ![r].at = stage, ![r].inv = i]
End(r) == req' = [req EXCEPT ![r] = Idle]

\* A query fails, or the process stops: the transaction under way is undone,
\* what earlier queries wrote stays.
CutShort(r) ==
  /\ req[r] # Idle
  /\ End(r)
  /\ UNCHANGED <<rows, token, left, history>>

\* RolesGuard looks at the token, never at the row.
MayAdminister(p) == token[p] = "ADMIN"
-----------------------------------------------------------------------------
(* admin.service.ts *)

InviteBegin(r, by, who) ==
  /\ MayAdminister(by)
  /\ Begin(r, "admin", [Idle EXCEPT !.op = "invite", !.at = "admin", !.by = by, !.who = who])

\* Variant: administrators may be invited.
InviteAnybody(r) ==
  /\ req[r].at = "admin"
  /\ MoveTo(r, "pending")
  /\ UNCHANGED <<rows, token, left, history>>

InviteCheckAdmin(r) ==
  /\ req[r].at = "admin"
  /\ IF role[req[r].who] = "ADMIN" THEN End(r) ELSE MoveTo(r, "pending")
  /\ UNCHANGED <<rows, token, left, history>>

\* Variant: a pending invitation is not looked for.
InviteTwice(r) ==
  /\ req[r].at = "pending"
  /\ MoveTo(r, "create")
  /\ UNCHANGED <<rows, token, left, history>>

InviteCheckPending(r) ==
  /\ req[r].at = "pending"
  /\ IF PendingFor(req[r].who) # {} THEN End(r) ELSE MoveTo(r, "create")
  /\ UNCHANGED <<rows, token, left, history>>

InviteCreate(r) ==
  /\ req[r].at = "create"
  /\ \E i \in Invitation :
       /\ invitation[i].status = "unused"
       /\ invitation' = [invitation EXCEPT ![i] =
            [to |-> req[r].who, by |-> req[r].by, status |-> "PENDING", acceptedBy |-> Nobody]]
  /\ End(r)
  /\ UNCHANGED <<role, linked, token, left, history>>

RevokeBegin(r, by, i) ==
  /\ MayAdminister(by)
  /\ invitation[i].status # "unused"
  /\ Begin(r, "admin", [Idle EXCEPT !.op = "revoke", !.at = "status", !.by = by, !.inv = i])

\* Variant: an accepted invitation may be revoked.
RevokeAny(r) ==
  /\ req[r].at = "status"
  /\ MoveTo(r, "revoke")
  /\ UNCHANGED <<rows, token, left, history>>

RevokeRead(r) ==
  /\ req[r].at = "status"
  /\ IF invitation[req[r].inv].status # "PENDING" THEN End(r) ELSE MoveTo(r, "revoke")
  /\ UNCHANGED <<rows, token, left, history>>

RevokeWrite(r) ==
  /\ req[r].at = "revoke"
  /\ invitation' = [invitation EXCEPT ![req[r].inv].status = "REVOKED"]
  /\ End(r)
  /\ UNCHANGED <<role, linked, token, left, history>>

RemoveBegin(r, by, who) ==
  /\ MayAdminister(by)
  /\ by # who
  /\ Begin(r, "admin", [Idle EXCEPT !.op = "remove", !.at = "target", !.by = by, !.who = who])

RemoveRead(r) ==
  /\ req[r].at = "target"
  /\ IF role[req[r].who] # "ADMIN" THEN End(r) ELSE MoveTo(r, "count")
  /\ UNCHANGED <<rows, token, left, history>>

\* Variant: the last administrator is not spared.
RemoveCountUnchecked(r) ==
  /\ req[r].at = "count"
  /\ MoveTo(r, "demote")
  /\ UNCHANGED <<rows, token, left, history>>

RemoveCount(r) ==
  /\ req[r].at = "count"
  /\ IF Cardinality(Admins) <= 1 THEN End(r) ELSE MoveTo(r, "demote")
  /\ UNCHANGED <<rows, token, left, history>>

RemoveWrite(r) ==
  /\ req[r].at = "demote"
  /\ role' = [role EXCEPT ![req[r].who] = "USER"]
  /\ demoted' = demoted \cup {req[r].who}
  /\ End(r)
  /\ UNCHANGED <<linked, invitation, token, left, promoted, shutOut, crossed>>
-----------------------------------------------------------------------------
(* auth.service.ts: findOrCreateGithubUser and the callback that sets the  *)
(* cookie.                                                                 *)

LoginBegin(r, p) ==
  Begin(r, "login", [Idle EXCEPT !.op = "login", !.at = "account", !.by = p, !.who = p])

LoginFindAccount(r) ==
  /\ req[r].at = "account"
  /\ MoveTo(r, IF req[r].who \in linked THEN "invitation" ELSE "user")
  /\ UNCHANGED <<rows, token, left, history>>

\* A row without a GitHub account, as the seed creates it, is linked.
LoginFindUser(r) ==
  /\ req[r].at = "user"
  /\ MoveTo(r, IF role[req[r].who] # "none" THEN "link" ELSE "roster")
  /\ UNCHANGED <<rows, token, left, history>>

LoginLink(r) ==
  /\ req[r].at = "link"
  /\ IF req[r].who \in linked THEN End(r) ELSE MoveTo(r, "invitation")
  /\ linked' = linked \cup {req[r].who}
  /\ UNCHANGED <<role, invitation, token, left, history>>

LoginFindInvitation(r) ==
  /\ req[r].at = "invitation"
  /\ \/ /\ PendingFor(req[r].who) = {}
        /\ MoveTo(r, "issue")
     \/ \E i \in PendingFor(req[r].who) :
          MoveWith(r, "accept", i)
  /\ UNCHANGED <<rows, token, left, history>>

Promote(p) ==
  /\ role' = [role EXCEPT ![p] = "ADMIN"]
  /\ promoted' = IF role[p] = "ADMIN" THEN promoted ELSE [promoted EXCEPT ![p] = @ + 1]

\* Variant: the invitation is not marked as used.
AcceptUnmarked(i, p) == invitation' = [invitation EXCEPT ![i].acceptedBy = p]

Accept(i, p) ==
  invitation' = [invitation EXCEPT ![i].status = "ACCEPTED", ![i].acceptedBy = p]

\* acceptedUserId is unique: a person accepts one invitation in a lifetime.
MayAccept(i, p) == Accepted(p) \subseteq {i}

LoginAccept(r) ==
  LET p == req[r].who
      i == req[r].inv
  IN /\ req[r].at = "accept"
     /\ MayAccept(i, p)
     /\ Promote(p)
     /\ Accept(i, p)
     /\ MoveTo(r, "issue")
     /\ UNCHANGED <<linked, token, left, demoted, shutOut, crossed>>

LoginAcceptRefused(r) ==
  LET p == req[r].who
  IN /\ req[r].at = "accept"
     /\ ~MayAccept(req[r].inv, p)
     /\ shutOut' = shutOut \cup {p}
     /\ End(r)
     /\ UNCHANGED <<rows, token, left, promoted, demoted, crossed>>

LoginIssue(r) ==
  /\ req[r].at = "issue"
  /\ token' = [token EXCEPT ![req[r].who] = role[req[r].who]]
  /\ End(r)
  /\ UNCHANGED <<rows, left, history>>

\* A first login looks for the rows of the camper roster that name it.
LoginReadRoster(r) ==
  /\ req[r].at = "roster"
  /\ MoveTo(r, "register")
  /\ UNCHANGED <<rows, token, left, history>>

\* The transaction of a first login: its query for an invitation, and its
\* commit, which gives the token the role the row was created with.
LoginRegister(r) ==
  /\ req[r].at = "register"
  /\ \/ /\ PendingFor(req[r].who) = {}
        /\ MoveTo(r, "commit")
     \/ \E i \in PendingFor(req[r].who) :
          MoveWith(r, "commit", i)
  /\ UNCHANGED <<rows, token, left, history>>

LoginCommit(r) ==
  LET p == req[r].who
      i == req[r].inv
  IN /\ req[r].at = "commit"
     /\ role[p] = "none"
     /\ linked' = linked \cup {p}
     /\ IF i = NoInvitation
        THEN /\ role' = [role EXCEPT ![p] = "USER"]
             /\ UNCHANGED <<invitation, promoted>>
        ELSE Promote(p) /\ Accept(i, p)
     /\ token' = [token EXCEPT ![p] = "USER"]
     /\ End(r)
     /\ UNCHANGED <<left, demoted, shutOut, crossed>>

\* The master account of the seed logs in with a password; any cookie may be
\* dropped or expire.
LoginInternal(p) ==
  /\ p \in Master
  /\ token' = [token EXCEPT ![p] = role[p]]
  /\ UNCHANGED <<rows, req, left, history>>

Logout(p) ==
  /\ token[p] # "none"
  /\ token' = [token EXCEPT ![p] = "none"]
  /\ UNCHANGED <<rows, req, left, history>>
-----------------------------------------------------------------------------
Arrival(r) ==
  \/ \E by, who \in Person : InviteBegin(r, by, who) \/ RemoveBegin(r, by, who)
  \/ \E by \in Person, i \in Invitation : RevokeBegin(r, by, i)
  \/ \E p \in Person : LoginBegin(r, p)

AdminStep(r) ==
  \/ InviteCheckAdmin(r) \/ InviteCheckPending(r) \/ InviteCreate(r)
  \/ RevokeRead(r) \/ RevokeWrite(r)
  \/ RemoveRead(r) \/ RemoveCount(r) \/ RemoveWrite(r)

LoginStep(r) ==
  \/ LoginFindAccount(r) \/ LoginFindUser(r) \/ LoginLink(r)
  \/ LoginFindInvitation(r) \/ LoginAccept(r) \/ LoginAcceptRefused(r)
  \/ LoginIssue(r) \/ LoginReadRoster(r) \/ LoginRegister(r) \/ LoginCommit(r)

AccountsNext ==
  \/ \E r \in Request : Arrival(r) \/ AdminStep(r) \/ LoginStep(r) \/ CutShort(r)
  \/ \E p \in Person : LoginInternal(p) \/ Logout(p)

AccountsSpec == AccountsInit /\ [][AccountsNext]_accountVars
-----------------------------------------------------------------------------
\* There is always an administrator (admin.service.ts:137, "at least one
\* administrator is needed"), although one who was removed goes on removing
\* others with an old token: only two removals that overlap can take the last.
LastAdminKept == "removals" \notin crossed => Admins # {}

\* A name has at most one pending invitation (admin.service.ts:34), unless two
\* requests about that name overlapped.
OnePendingEach ==
  "invites" \notin crossed => \A p \in Person : Cardinality(PendingFor(p)) <= 1

\* An invitation makes its addressee administrator once: who was removed
\* afterwards does not come back with it at the next login, unless two logins of
\* that person overlapped (auth.service.ts:173-197).
PromotedOncePerInvitation ==
  "logins" \notin crossed =>
    \A p \in Person : promoted[p] <= Cardinality(Accepted(p))

\* The unique acceptedUserId makes the login of a person fail who accepted an
\* invitation once and has another one: without overlapping requests that is
\* only someone who was removed and invited again.
OnlyDemotedAreShutOut ==
  crossed \cap {"invites", "logins"} = {} => shutOut \subseteq demoted

\* A revoked invitation made nobody administrator, and one that did is not
\* revoked afterwards, unless its revocation overlapped with a login.
RevokedGaveNothing ==
  "revocations" \notin crossed =>
    \A i \in Invitation : invitation[i].status = "REVOKED" => invitation[i].acceptedBy = Nobody

\* Every invitation comes from a founder or from someone whom an invitation
\* made administrator, however old the token of the inviter is.
InvitersWereAdmins ==
  \A i \in Invitation : invitation[i].status # "unused" =>
    invitation[i].by \in Founder \cup {p \in Person : Accepted(p) # {}}
=============================================================================
