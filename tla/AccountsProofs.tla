--------------------------- MODULE AccountsProofs ---------------------------
(***************************************************************************)
(* Theorems about Accounts, for any number of persons, invitations and     *)
(* requests.  Each request is one of a few records (Shape); what an        *)
(* invariant needs of the other requests is that none of a certain kind is *)
(* under way, and `crossed' says so: as long as a kind of meeting is not   *)
(* in it, no two requests under way are of that kind (Apart).              *)
(***************************************************************************)
EXTENDS Accounts, FiniteSetTheorems, TLAPS

InviteReq == [op : {"invite"}, at : {"admin", "pending", "create"}, by : Person,
              who : Person, inv : {NoInvitation}]
RevokeReq == [op : {"revoke"}, at : {"status", "revoke"}, by : Person,
              who : {Nobody}, inv : Invitation]
RemoveReq == [op : {"remove"}, at : {"target", "count", "demote"}, by : Person,
              who : Person, inv : {NoInvitation}]
LoginReq == [op : {"login"}, at : {"account", "user", "link", "invitation", "roster", "register"},
             by : Person, who : Person, inv : {NoInvitation}]
AcceptReq == [op : {"login"}, at : {"accept"}, by : Person, who : Person, inv : Invitation]
LateReq == [op : {"login"}, at : {"issue", "commit"}, by : Person, who : Person,
            inv : Invitation \cup {NoInvitation}]
AnyReq == {Idle} \cup InviteReq \cup RevokeReq \cup RemoveReq \cup LoginReq \cup AcceptReq
          \cup LateReq

Unsent == [to |-> Nobody, by |-> Nobody, status |-> "unused", acceptedBy |-> Nobody]
Sent == [to : Person, by : Person, status : {"PENDING", "ACCEPTED", "REVOKED"},
         acceptedBy : Person \cup {Nobody}]

Shape ==
  /\ role \in [Person -> Roles \cup {"none"}]
  /\ linked \subseteq Person
  /\ token \in [Person -> Roles \cup {"none"}]
  /\ invitation \in [Invitation -> {Unsent} \cup Sent]
  /\ req \in [Request -> AnyReq]
  /\ left \in [{"admin", "login"} -> 0..MaxRequests]
  /\ promoted \in [Person -> Nat]
  /\ demoted \subseteq Person
  /\ shutOut \subseteq Person
  /\ crossed \subseteq {"removals", "invites", "logins", "revocations"}

\* A request holds only invitations that were sent, a login only its own, and
\* who accepted an invitation is its addressee.
Addressed ==
  /\ \A r \in Request : req[r].inv \in Invitation =>
       /\ invitation[req[r].inv] \in Sent
       /\ req[r].op = "login" => invitation[req[r].inv].to = req[r].who
  /\ \A i \in Invitation :
       /\ invitation[i].acceptedBy \in {Nobody, invitation[i].to}
       /\ invitation[i].status = "PENDING" => invitation[i].acceptedBy = Nobody

\* Whoever may act as an administrator was made one.
Trusted == Founder \cup {p \in Person : Accepted(p) # {}}
Legitimate ==
  /\ \A p \in Person : role[p] = "ADMIN" \/ token[p] = "ADMIN" => p \in Trusted
  /\ \A r \in Request : req[r].op = "invite" => req[r].by \in Trusted
  /\ InvitersWereAdmins

Apart(kind) ==
  kind \notin crossed =>
    \A r, q \in Request : r # q => kind \notin Crossing(req[r], req[q])

Spared ==
  "removals" \notin crossed =>
    /\ Admins # {}
    /\ \A r \in Request : req[r].at = "demote" => \E p \in Admins : p # req[r].who

Single ==
  "invites" \notin crossed =>
    /\ \A p \in Person : \A i, j \in PendingFor(p) : i = j
    /\ \A r \in Request : req[r].at = "create" => PendingFor(req[r].who) = {}

Unrevoked ==
  "revocations" \notin crossed =>
    /\ RevokedGaveNothing
    /\ \A r \in Request : req[r].at = "revoke" => invitation[req[r].inv].acceptedBy = Nobody

Once ==
  "logins" \notin crossed =>
    \A p \in Person :
      /\ \A i, j \in Accepted(p) : i = j
      /\ promoted[p] \in {0, 1}
      /\ promoted[p] = 1 => Accepted(p) # {}
      /\ role[p] = "none" => Accepted(p) = {}
      /\ \A r \in Request : req[r].at = "accept" /\ req[r].who = p =>
           invitation[req[r].inv].acceptedBy = Nobody

\* Who accepted and was not removed since is administrator and has nothing
\* pending, now or soon.
Settled ==
  crossed \cap {"invites", "logins"} = {} =>
    /\ OnlyDemotedAreShutOut
    /\ \A p \in Person \ demoted : Accepted(p) # {} =>
         /\ role[p] = "ADMIN"
         /\ PendingFor(p) = {}
         /\ \A r \in Request : req[r].who = p =>
              /\ req[r].at \notin {"pending", "create", "accept"}
              /\ req[r].at = "commit" => req[r].inv = NoInvitation
    /\ \A r \in Request : req[r].at \in {"accept", "commit"} /\ req[r].inv # NoInvitation =>
         PendingFor(req[r].who) \subseteq {req[r].inv}
-----------------------------------------------------------------------------
\* The stage of a request tells which request it is.
LEMMA StageTells ==
  ASSUME NEW x \in AnyReq
  PROVE  /\ x.at = "idle" => x = Idle
         /\ x.at \in {"admin", "pending", "create"} => x \in InviteReq
         /\ x.at \in {"status", "revoke"} => x \in RevokeReq
         /\ x.at \in {"target", "count", "demote"} => x \in RemoveReq
         /\ x.at \in {"account", "user", "link", "invitation", "roster", "register"} => x \in LoginReq
         /\ x.at = "accept" => x \in AcceptReq
         /\ x.at \in {"issue", "commit"} => x \in LateReq
  BY DEF AnyReq, Idle, InviteReq, RevokeReq, RemoveReq, LoginReq, AcceptReq, LateReq

\* A stage of the same kind of request may be entered from another.
LEMMA StageMoves ==
  ASSUME NEW x, NEW s
  PROVE  /\ x \in InviteReq /\ s \in {"pending", "create"} => [x EXCEPT !.at = s] \in AnyReq
         /\ x \in RevokeReq /\ s = "revoke" => [x EXCEPT !.at = s] \in AnyReq
         /\ x \in RemoveReq /\ s \in {"count", "demote"} => [x EXCEPT !.at = s] \in AnyReq
         /\ x \in LoginReq /\ s \in {"user", "link", "invitation", "roster", "register", "issue", "commit"}
              => [x EXCEPT !.at = s] \in AnyReq
         /\ x \in AcceptReq /\ s = "issue" => [x EXCEPT !.at = s] \in AnyReq
         /\ \A i \in Invitation : x \in LoginReq /\ s \in {"accept", "commit"} =>
              [x EXCEPT !.at = s, !.inv = i] \in AnyReq
<1>1. x \in InviteReq /\ s \in {"pending", "create"} => [x EXCEPT !.at = s] \in InviteReq
  BY DEF InviteReq
<1>2. x \in RevokeReq /\ s = "revoke" => [x EXCEPT !.at = s] \in RevokeReq
  BY DEF RevokeReq
<1>3. x \in RemoveReq /\ s \in {"count", "demote"} => [x EXCEPT !.at = s] \in RemoveReq
  BY DEF RemoveReq
<1>4. x \in LoginReq /\ s \in {"user", "link", "invitation", "roster", "register"}
        => [x EXCEPT !.at = s] \in LoginReq
  BY DEF LoginReq
<1>5. x \in LoginReq /\ s \in {"issue", "commit"} => [x EXCEPT !.at = s] \in LateReq
  BY DEF LoginReq, LateReq
<1>6. x \in AcceptReq /\ s = "issue" => [x EXCEPT !.at = s] \in LateReq
  BY DEF AcceptReq, LateReq
<1>7. ASSUME NEW i \in Invitation, x \in LoginReq
      PROVE  /\ s = "accept" => [x EXCEPT !.at = s, !.inv = i] \in AcceptReq
             /\ s = "commit" => [x EXCEPT !.at = s, !.inv = i] \in LateReq
  BY <1>7 DEF AcceptReq, LateReq, LoginReq
<1>8. QED
  BY <1>1, <1>2, <1>3, <1>4, <1>5, <1>6, <1>7 DEF AnyReq

\* What arrives.
LEMMA Arrivals ==
  ASSUME NEW p \in Person
  PROVE  /\ \A q \in Person :
              [Idle EXCEPT !.op = "invite", !.at = "admin", !.by = p, !.who = q] \in InviteReq
         /\ \A i \in Invitation :
              [Idle EXCEPT !.op = "revoke", !.at = "status", !.by = p, !.inv = i] \in RevokeReq
         /\ \A q \in Person :
              [Idle EXCEPT !.op = "remove", !.at = "target", !.by = p, !.who = q] \in RemoveReq
         /\ [Idle EXCEPT !.op = "login", !.at = "account", !.by = p, !.who = p] \in LoginReq
  BY DEF Idle, InviteReq, RevokeReq, RemoveReq, LoginReq

LEMMA ShapeImpliesType == Shape => AccountsTypeOK
<1> SUFFICES ASSUME Shape PROVE AccountsTypeOK
  OBVIOUS
<1>1. AnyReq \subseteq [op : Ops, at : Stages, by : Person \cup {Nobody},
                        who : Person \cup {Nobody}, inv : Invitation \cup {NoInvitation}]
  BY DEF AnyReq, Idle, InviteReq, RevokeReq, RemoveReq, LoginReq, AcceptReq, LateReq, Ops, Stages
<1>2. {Unsent} \cup Sent \subseteq
        [to : Person \cup {Nobody}, by : Person \cup {Nobody},
         status : {"unused", "PENDING", "ACCEPTED", "REVOKED"},
         acceptedBy : Person \cup {Nobody}]
  BY DEF Unsent, Sent
<1>3. QED
  BY <1>1, <1>2 DEF Shape, AccountsTypeOK
-----------------------------------------------------------------------------
\* What a step does to the requests: one arrives, moves or ends, or all stay.
LEMMA RequestsKeepShape ==
  ASSUME Shape, AccountsNext
  PROVE  req' \in [Request -> AnyReq]
<1> USE DEF Shape
<1>1. Idle \in AnyReq
  BY DEF AnyReq
<1>2. ASSUME NEW r \in Request, End(r) PROVE req' \in [Request -> AnyReq]
  BY <1>1, <1>2 DEF End
<1>3. ASSUME NEW r \in Request, NEW s, MoveTo(r, s), [req[r] EXCEPT !.at = s] \in AnyReq
      PROVE  req' \in [Request -> AnyReq]
  BY <1>3 DEF MoveTo
<1>4. ASSUME NEW r \in Request, NEW x \in AnyReq, req' = [req EXCEPT ![r] = x]
      PROVE  req' \in [Request -> AnyReq]
  BY <1>4
<1>5. ASSUME NEW r \in Request, Arrival(r) PROVE req' \in [Request -> AnyReq]
  <2>1. ASSUME NEW by \in Person, NEW who \in Person, InviteBegin(r, by, who)
        PROVE  req' \in [Request -> AnyReq]
    BY <1>4, <2>1, Arrivals DEF InviteBegin, Begin, AnyReq
  <2>2. ASSUME NEW by \in Person, NEW who \in Person, RemoveBegin(r, by, who)
        PROVE  req' \in [Request -> AnyReq]
    BY <1>4, <2>2, Arrivals DEF RemoveBegin, Begin, AnyReq
  <2>3. ASSUME NEW by \in Person, NEW i \in Invitation, RevokeBegin(r, by, i)
        PROVE  req' \in [Request -> AnyReq]
    BY <1>4, <2>3, Arrivals DEF RevokeBegin, Begin, AnyReq
  <2>4. ASSUME NEW p \in Person, LoginBegin(r, p) PROVE req' \in [Request -> AnyReq]
    BY <1>4, <2>4, Arrivals DEF LoginBegin, Begin, AnyReq
  <2>5. QED
    BY <1>5, <2>1, <2>2, <2>3, <2>4 DEF Arrival
<1>6. ASSUME NEW r \in Request, AdminStep(r) PROVE req' \in [Request -> AnyReq]
  <2>0. req[r] \in AnyReq
    OBVIOUS
  <2>1. CASE InviteCheckAdmin(r)
    BY <1>2, <1>3, <2>0, <2>1, StageTells, StageMoves DEF InviteCheckAdmin
  <2>2. CASE InviteCheckPending(r)
    BY <1>2, <1>3, <2>0, <2>2, StageTells, StageMoves DEF InviteCheckPending
  <2>3. CASE RevokeRead(r)
    BY <1>2, <1>3, <2>0, <2>3, StageTells, StageMoves DEF RevokeRead
  <2>4. CASE RemoveRead(r)
    BY <1>2, <1>3, <2>0, <2>4, StageTells, StageMoves DEF RemoveRead
  <2>5. CASE RemoveCount(r)
    BY <1>2, <1>3, <2>0, <2>5, StageTells, StageMoves DEF RemoveCount
  <2>6. CASE InviteCreate(r) \/ RevokeWrite(r) \/ RemoveWrite(r)
    BY <1>2, <2>6 DEF InviteCreate, RevokeWrite, RemoveWrite
  <2>7. QED
    BY <1>6, <2>1, <2>2, <2>3, <2>4, <2>5, <2>6 DEF AdminStep
<1>7. ASSUME NEW r \in Request, LoginStep(r) PROVE req' \in [Request -> AnyReq]
  <2>0. req[r] \in AnyReq
    OBVIOUS
  <2>1. CASE LoginFindAccount(r)
    BY <1>3, <2>0, <2>1, StageTells, StageMoves DEF LoginFindAccount
  <2>2. CASE LoginFindUser(r)
    BY <1>3, <2>0, <2>2, StageTells, StageMoves DEF LoginFindUser
  <2>3. CASE LoginLink(r)
    BY <1>2, <1>3, <2>0, <2>3, StageTells, StageMoves DEF LoginLink
  <2>4. CASE LoginFindInvitation(r)
    <3>1. req[r] \in LoginReq
      BY <2>0, <2>4, StageTells DEF LoginFindInvitation
    <3>2. CASE MoveTo(r, "issue")
      BY <1>3, <3>1, <3>2, StageMoves
    <3>3. ASSUME NEW i \in PendingFor(req[r].who), MoveWith(r, "accept", i)
          PROVE  req' \in [Request -> AnyReq]
      <4>1. [req[r] EXCEPT !.at = "accept", !.inv = i] \in AnyReq
        BY <3>1, <3>3, StageMoves DEF PendingFor
      <4>2. QED
        BY <3>3, <4>1 DEF MoveWith
    <3>4. QED
      BY <2>4, <3>2, <3>3 DEF LoginFindInvitation
  <2>5. CASE LoginRegister(r)
    <3>1. req[r] \in LoginReq
      BY <2>0, <2>5, StageTells DEF LoginRegister
    <3>2. CASE MoveTo(r, "commit")
      BY <1>3, <3>1, <3>2, StageMoves
    <3>3. ASSUME NEW i \in PendingFor(req[r].who), MoveWith(r, "commit", i)
          PROVE  req' \in [Request -> AnyReq]
      <4>1. [req[r] EXCEPT !.at = "commit", !.inv = i] \in AnyReq
        BY <3>1, <3>3, StageMoves DEF PendingFor
      <4>2. QED
        BY <3>3, <4>1 DEF MoveWith
    <3>4. QED
      BY <2>5, <3>2, <3>3 DEF LoginRegister
  <2>6. CASE LoginAccept(r)
    BY <1>3, <2>0, <2>6, StageTells, StageMoves DEF LoginAccept
  <2>7. CASE LoginReadRoster(r)
    BY <1>3, <2>0, <2>7, StageTells, StageMoves DEF LoginReadRoster
  <2>8. CASE LoginAcceptRefused(r) \/ LoginIssue(r) \/ LoginCommit(r)
    BY <1>2, <2>8 DEF LoginAcceptRefused, LoginIssue, LoginCommit
  <2>9. QED
    BY <1>7, <2>1, <2>2, <2>3, <2>4, <2>5, <2>6, <2>7, <2>8 DEF LoginStep
<1>8. ASSUME NEW r \in Request, CutShort(r) PROVE req' \in [Request -> AnyReq]
  BY <1>2, <1>8 DEF CutShort
<1>9. ASSUME NEW p \in Person, LoginInternal(p) \/ Logout(p) PROVE req' \in [Request -> AnyReq]
  BY <1>9 DEF LoginInternal, Logout
<1>10. QED
  BY <1>5, <1>6, <1>7, <1>8, <1>9 DEF AccountsNext

LEMMA ShapeInit == AccountsInit => Shape
  BY FoundersExist, MaxRequestsIsNat DEF AccountsInit, Shape, AnyReq, Roles, Unsent

\* Who logs in is a person, and a request names the invitation it holds.
LEMMA Holds ==
  ASSUME Shape, NEW r \in Request
  PROVE  /\ req[r] \in AnyReq
         /\ req[r].op \in {"invite", "remove", "login"} => req[r].who \in Person /\ req[r].by \in Person
         /\ req[r].at \in {"status", "revoke", "accept"} => req[r].inv \in Invitation
         /\ req[r].at = "commit" => req[r].inv \in Invitation \cup {NoInvitation}
  BY StageTells DEF Shape, AnyReq, Idle, InviteReq, RevokeReq, RemoveReq, LoginReq, AcceptReq, LateReq

\* The kind of request that an action belongs to.
LEMMA OpAt ==
  ASSUME Shape, NEW r \in Request
  PROVE  /\ req[r].at \in {"admin", "pending", "create"} => req[r].op = "invite"
         /\ req[r].at \in {"status", "revoke"} => req[r].op = "revoke"
         /\ req[r].at \in {"target", "count", "demote"} => req[r].op = "remove"
         /\ req[r].at \in {"account", "user", "link", "invitation", "roster", "register",
                           "accept", "issue", "commit"} => req[r].op = "login"
         /\ req[r].at \notin {"status", "revoke", "accept", "issue", "commit"} => req[r].inv = NoInvitation
  BY DEF Shape, AnyReq, Idle, InviteReq, RevokeReq, RemoveReq, LoginReq, AcceptReq, LateReq

LEMMA ShapeStep == Shape /\ Addressed /\ [AccountsNext]_accountVars => Shape'
<1> SUFFICES ASSUME Shape, Addressed, [AccountsNext]_accountVars PROVE Shape'
  OBVIOUS
<1>1. CASE UNCHANGED accountVars
  BY <1>1 DEF accountVars, rows, history, Shape
<1>2. CASE AccountsNext
  <2>0. req' \in [Request -> AnyReq]
    BY <1>2, RequestsKeepShape
  <2> DEFINE Others ==
        /\ role' \in [Person -> Roles \cup {"none"}]
        /\ linked' \subseteq Person
        /\ token' \in [Person -> Roles \cup {"none"}]
        /\ invitation' \in [Invitation -> {Unsent} \cup Sent]
        /\ left' \in [{"admin", "login"} -> 0..MaxRequests]
        /\ promoted' \in [Person -> Nat]
        /\ demoted' \subseteq Person
        /\ shutOut' \subseteq Person
        /\ crossed' \subseteq {"removals", "invites", "logins", "revocations"}
  <2> USE DEF rows, history
  <2>1. ASSUME UNCHANGED <<rows, token, left, history>> PROVE Others
    BY <2>1 DEF Shape
  <2>2. ASSUME NEW r \in Request, Arrival(r) PROVE Others
    <3>1. ASSUME NEW kind \in {"admin", "login"}, NEW x, Begin(r, kind, x) PROVE Others
      <4>1. UNION {Crossing(x, req[q]) : q \in Request}
              \subseteq {"removals", "invites", "logins", "revocations"}
        BY DEF Crossing
      <4>2. left' \in [{"admin", "login"} -> 0..MaxRequests]
        <5>1. left[kind] \in 0..MaxRequests /\ left[kind] > 0
          BY <3>1 DEF Begin, Shape
        <5>2. left[kind] - 1 \in 0..MaxRequests
          BY <5>1, MaxRequestsIsNat
        <5>3. QED
          BY <3>1, <5>2 DEF Begin, Shape
      <4>3. QED
        BY <3>1, <4>1, <4>2 DEF Begin, Shape
    <3>2. QED
      BY <2>2, <3>1 DEF Arrival, InviteBegin, RemoveBegin, RevokeBegin, LoginBegin
  <2>3. ASSUME NEW r \in Request, AdminStep(r) PROVE Others
    <3>0. /\ req[r].op \in {"invite", "remove", "login"} =>
               req[r].who \in Person /\ req[r].by \in Person
          /\ req[r].at \in {"status", "revoke", "accept"} => req[r].inv \in Invitation
          /\ req[r].at = "create" => req[r].op = "invite"
          /\ req[r].at = "demote" => req[r].op = "remove"
      BY Holds, OpAt
    <3>1. CASE InviteCreate(r)
      BY <3>0, <3>1 DEF InviteCreate, Shape, Sent
    <3>2. CASE RevokeWrite(r)
      <4>1. invitation[req[r].inv] \in Sent /\ req[r].inv \in Invitation
        BY <3>0, <3>2 DEF RevokeWrite, Addressed
      <4>2. [invitation[req[r].inv] EXCEPT !.status = "REVOKED"] \in Sent
        BY <4>1 DEF Sent
      <4>3. QED
        BY <3>2, <4>1, <4>2 DEF RevokeWrite, Shape
    <3>3. CASE RemoveWrite(r)
      BY <3>0, <3>3 DEF RemoveWrite, Shape, Roles
    <3>4. QED
      BY <2>1, <2>3, <3>1, <3>2, <3>3 DEF AdminStep, InviteCheckAdmin, InviteCheckPending,
         RevokeRead, RemoveRead, RemoveCount
  <2>4. ASSUME NEW r \in Request, LoginStep(r) PROVE Others
    <3>0. /\ req[r].op = "login" => req[r].who \in Person
          /\ req[r].at = "accept" => req[r].inv \in Invitation
          /\ req[r].at = "commit" => req[r].inv \in Invitation \cup {NoInvitation}
          /\ req[r].at \in {"link", "accept", "issue", "commit"} => req[r].op = "login"
      BY Holds, OpAt
    <3>1. ASSUME NEW p \in Person, Promote(p)
          PROVE  role' \in [Person -> Roles \cup {"none"}] /\ promoted' \in [Person -> Nat]
      BY <3>1 DEF Promote, Shape, Roles
    <3>2. ASSUME NEW i \in Invitation, NEW p \in Person, invitation[i] \in Sent, Accept(i, p)
          PROVE  invitation' \in [Invitation -> {Unsent} \cup Sent]
      <4>1. [invitation[i] EXCEPT !.status = "ACCEPTED", !.acceptedBy = p] \in Sent
        BY <3>2 DEF Sent
      <4>2. QED
        BY <3>2, <4>1 DEF Accept, Shape
    <3>3. CASE LoginLink(r)
      BY <3>0, <3>3 DEF LoginLink, Shape
    <3>4. CASE LoginAccept(r)
      BY <3>0, <3>1, <3>2, <3>4 DEF LoginAccept, Shape, Addressed
    <3>5. CASE LoginAcceptRefused(r)
      BY <3>0, <3>5 DEF LoginAcceptRefused, Shape
    <3>6. CASE LoginIssue(r)
      BY <3>0, <3>6 DEF LoginIssue, Shape
    <3>7. CASE LoginCommit(r)
      <4>1. req[r].who \in Person /\ req[r].inv \in Invitation \cup {NoInvitation}
        BY <3>0, <3>7 DEF LoginCommit
      <4>2. CASE req[r].inv = NoInvitation
        BY <3>7, <4>1, <4>2 DEF LoginCommit, Shape, Roles
      <4>3. CASE req[r].inv \in Invitation
        <5>1. Promote(req[r].who) /\ Accept(req[r].inv, req[r].who)
          BY <3>7, <4>3, NobodyIsNoPerson DEF LoginCommit
        <5>2. QED
          BY <3>1, <3>2, <3>7, <4>1, <4>3, <5>1 DEF LoginCommit, Shape, Addressed, Roles
      <4>4. QED
        BY <4>1, <4>2, <4>3
    <3>8. QED
      BY <2>1, <2>4, <3>3, <3>4, <3>5, <3>6, <3>7 DEF LoginStep, LoginFindAccount, LoginFindUser,
         LoginFindInvitation, LoginReadRoster, LoginRegister
  <2>5. ASSUME NEW r \in Request, CutShort(r) PROVE Others
    BY <2>1, <2>5 DEF CutShort
  <2>6. ASSUME NEW p \in Person, LoginInternal(p) \/ Logout(p) PROVE Others
    BY <2>6 DEF LoginInternal, Logout, Shape
  <2>7. Others
    BY <1>2, <2>2, <2>3, <2>4, <2>5, <2>6 DEF AccountsNext
  <2>8. QED
    BY <2>0, <2>7 DEF Shape
<1>3. QED
  BY <1>1, <1>2
-----------------------------------------------------------------------------
(* What a step does to a request, and to the others. *)

LEMMA Moved ==
  ASSUME Shape, NEW r \in Request, NEW s, MoveTo(r, s)
  PROVE  /\ req'[r] = [req[r] EXCEPT !.at = s]
         /\ req'[r].at = s /\ req'[r].op = req[r].op /\ req'[r].who = req[r].who
         /\ req'[r].by = req[r].by /\ req'[r].inv = req[r].inv
         /\ \A q \in Request : q # r => req'[q] = req[q]
<1>1. req[r] \in [op : Ops, at : Stages, by : Person \cup {Nobody},
                  who : Person \cup {Nobody}, inv : Invitation \cup {NoInvitation}]
  BY ShapeImpliesType DEF AccountsTypeOK
<1>2. req'[r] = [req[r] EXCEPT !.at = s] /\ \A q \in Request : q # r => req'[q] = req[q]
  BY DEF MoveTo, Shape
<1>3. QED
  BY <1>1, <1>2

LEMMA MovedWith ==
  ASSUME Shape, NEW r \in Request, NEW s, NEW i, MoveWith(r, s, i)
  PROVE  /\ req'[r].at = s /\ req'[r].op = req[r].op /\ req'[r].who = req[r].who
         /\ req'[r].by = req[r].by /\ req'[r].inv = i
         /\ \A q \in Request : q # r => req'[q] = req[q]
<1>1. req[r] \in [op : Ops, at : Stages, by : Person \cup {Nobody},
                  who : Person \cup {Nobody}, inv : Invitation \cup {NoInvitation}]
  BY ShapeImpliesType DEF AccountsTypeOK
<1>2. req'[r] = [req[r] EXCEPT !.at = s, !.inv = i] /\ \A q \in Request : q # r => req'[q] = req[q]
  BY DEF Shape, MoveWith
<1> DEFINE x == req[r]
           y == [x EXCEPT !.at = s, !.inv = i]
<1>3. y.at = s /\ y.op = x.op /\ y.who = x.who /\ y.by = x.by /\ y.inv = i
  <2> HIDE DEF x
  <2>1. x \in [op : Ops, at : Stages, by : Person \cup {Nobody},
               who : Person \cup {Nobody}, inv : Invitation \cup {NoInvitation}]
    BY <1>1 DEF x
  <2>2. QED
    BY <2>1
<1>4. QED
  BY <1>2, <1>3

LEMMA Ended ==
  ASSUME Shape, NEW r \in Request, End(r)
  PROVE  /\ req'[r] = Idle
         /\ \A q \in Request : q # r => req'[q] = req[q]
  BY DEF Shape, End

LEMMA IdleIs ==
  /\ Idle.op = "none" /\ Idle.at = "idle" /\ Idle.by = Nobody /\ Idle.who = Nobody
  /\ Idle.inv = NoInvitation /\ NoInvitation \notin Invitation /\ Nobody \notin Person
  BY NobodyIsNoPerson DEF Idle

\* A request arrives, and every meeting with another is noted.
Arrived(r) ==
  /\ req[r] = Idle
  /\ req'[r] \in AnyReq
  /\ req'[r].inv \in Invitation =>
       req'[r].op = "revoke" /\ invitation[req'[r].inv].status # "unused"
  /\ req'[r].op \in {"invite", "remove"} => token[req'[r].by] = "ADMIN"
  /\ req'[r].by \in Person
  /\ req'[r].at \in {"admin", "status", "target", "account"}
  /\ \A q \in Request : q # r => req'[q] = req[q]
  /\ \A q \in Request : Crossing(req'[r], req[q]) \subseteq crossed'
  /\ crossed \subseteq crossed'
  /\ UNCHANGED <<rows, token, promoted, demoted, shutOut>>

LEMMA ArrivalIs ==
  ASSUME Shape, NEW r \in Request, Arrival(r)
  PROVE  Arrived(r)
<1>0. ASSUME NEW kind, NEW x, Begin(r, kind, x)
      PROVE  /\ req[r] = Idle
             /\ req'[r] = x
             /\ \A q \in Request : q # r => req'[q] = req[q]
             /\ \A q \in Request : Crossing(x, req[q]) \subseteq crossed'
             /\ crossed \subseteq crossed'
             /\ UNCHANGED <<rows, token, promoted, demoted, shutOut>>
  BY <1>0 DEF Begin, Shape
<1>1. ASSUME NEW by \in Person, NEW who \in Person, InviteBegin(r, by, who)
      PROVE  Arrived(r)
  <2> DEFINE x == [Idle EXCEPT !.op = "invite", !.at = "admin", !.by = by, !.who = who]
  <2>1. /\ x \in AnyReq /\ x.op = "invite" /\ x.by = by /\ x.at = "admin"
        /\ x.inv \notin Invitation
    BY Arrivals, NobodyIsNoPerson DEF AnyReq, Idle
  <2>2. Begin(r, "admin", x) /\ token[by] = "ADMIN"
    BY <1>1 DEF InviteBegin, MayAdminister
  <2>3. QED
    BY <1>0, <2>1, <2>2 DEF Arrived
<1>2. ASSUME NEW by \in Person, NEW who \in Person, RemoveBegin(r, by, who)
      PROVE  Arrived(r)
  <2> DEFINE x == [Idle EXCEPT !.op = "remove", !.at = "target", !.by = by, !.who = who]
  <2>1. /\ x \in AnyReq /\ x.op = "remove" /\ x.by = by /\ x.at = "target"
        /\ x.inv \notin Invitation
    BY Arrivals, NobodyIsNoPerson DEF AnyReq, Idle
  <2>2. Begin(r, "admin", x) /\ token[by] = "ADMIN"
    BY <1>2 DEF RemoveBegin, MayAdminister
  <2>3. QED
    BY <1>0, <2>1, <2>2 DEF Arrived
<1>3. ASSUME NEW by \in Person, NEW i \in Invitation, RevokeBegin(r, by, i)
      PROVE  Arrived(r)
  <2> DEFINE x == [Idle EXCEPT !.op = "revoke", !.at = "status", !.by = by, !.inv = i]
  <2>1. /\ x \in AnyReq /\ x.op = "revoke" /\ x.by = by /\ x.at = "status" /\ x.inv = i
    BY Arrivals DEF AnyReq, Idle
  <2>2. Begin(r, "admin", x) /\ invitation[i].status # "unused"
    BY <1>3 DEF RevokeBegin
  <2>3. QED
    BY <1>0, <2>1, <2>2 DEF Arrived
<1>4. ASSUME NEW p \in Person, LoginBegin(r, p) PROVE Arrived(r)
  <2> DEFINE x == [Idle EXCEPT !.op = "login", !.at = "account", !.by = p, !.who = p]
  <2>1. /\ x \in AnyReq /\ x.op = "login" /\ x.by = p /\ x.at = "account"
        /\ x.inv \notin Invitation
    BY Arrivals, NobodyIsNoPerson DEF AnyReq, Idle
  <2>2. Begin(r, "login", x)
    BY <1>4 DEF LoginBegin
  <2>3. QED
    BY <1>0, <2>1, <2>2 DEF Arrived
<1>5. QED
  BY <1>1, <1>2, <1>3, <1>4 DEF Arrival
-----------------------------------------------------------------------------
\* A step of request r leaves the others, and r ends or stays the same request.
Goes(r) ==
  /\ \A q \in Request : q # r => req'[q] = req[q]
  /\ \/ req'[r] = Idle
     \/ req'[r].op = req[r].op /\ req'[r].who = req[r].who /\ req'[r].by = req[r].by

LEMMA MovedGoes == ASSUME Shape, NEW r \in Request, NEW s, MoveTo(r, s) PROVE Goes(r)
  BY Moved DEF Goes
LEMMA EndedGoes == ASSUME Shape, NEW r \in Request, End(r) PROVE Goes(r)
  BY Ended DEF Goes
LEMMA MovedWithGoes ==
  ASSUME Shape, NEW r \in Request, NEW s, NEW i, MoveWith(r, s, i)
  PROVE  Goes(r)
  BY MovedWith DEF Goes

\* Sent is sent.
LEMMA SentIs ==
  ASSUME Shape, NEW i \in Invitation
  PROVE  /\ invitation[i].status # "unused" <=> invitation[i] \in Sent
         /\ invitation[i].status = "unused" <=> invitation[i] = Unsent
         /\ invitation[i].to \in Person \cup {Nobody}
         /\ invitation[i].acceptedBy \in Person \cup {Nobody}
         /\ invitation[i].status # "unused" => invitation[i].by \in Person /\ invitation[i].to \in Person
  BY DEF Shape, Sent, Unsent

\* What becomes of an invitation i.
LEMMA Accepting ==
  ASSUME Shape, NEW i \in Invitation, NEW p \in Person, Accept(i, p), invitation[i] \in Sent
  PROVE  /\ invitation'[i].to = invitation[i].to /\ invitation'[i].by = invitation[i].by
         /\ invitation'[i].status = "ACCEPTED" /\ invitation'[i].acceptedBy = p
         /\ invitation'[i] \in Sent
         /\ \A j \in Invitation : j # i => invitation'[j] = invitation[j]
<1>1. invitation'[i] = [invitation[i] EXCEPT !.status = "ACCEPTED", !.acceptedBy = p]
      /\ \A j \in Invitation : j # i => invitation'[j] = invitation[j]
  BY DEF Accept, Shape
<1> DEFINE x == invitation[i]
<1>2. \A y : y = [x EXCEPT !.status = "ACCEPTED", !.acceptedBy = p] =>
        y.to = x.to /\ y.by = x.by /\ y.status = "ACCEPTED" /\ y.acceptedBy = p /\ y \in Sent
  <2> HIDE DEF x
  <2>1. x \in Sent
    BY DEF x
  <2>2. QED
    BY <2>1 DEF Sent
<1>3. QED
  BY <1>1, <1>2

LEMMA Revoking ==
  ASSUME Shape, NEW r \in Request, RevokeWrite(r), req[r].inv \in Invitation,
         invitation[req[r].inv] \in Sent
  PROVE  /\ invitation'[req[r].inv].to = invitation[req[r].inv].to
         /\ invitation'[req[r].inv].by = invitation[req[r].inv].by
         /\ invitation'[req[r].inv].acceptedBy = invitation[req[r].inv].acceptedBy
         /\ invitation'[req[r].inv].status = "REVOKED"
         /\ invitation'[req[r].inv] \in Sent
         /\ \A j \in Invitation : j # req[r].inv => invitation'[j] = invitation[j]
<1>1. invitation'[req[r].inv] = [invitation[req[r].inv] EXCEPT !.status = "REVOKED"]
      /\ \A j \in Invitation : j # req[r].inv => invitation'[j] = invitation[j]
  BY DEF RevokeWrite, Shape
<1>2. QED
  BY <1>1 DEF Sent

LEMMA Creating ==
  ASSUME Shape, NEW r \in Request, InviteCreate(r)
  PROVE  \E i \in Invitation :
           /\ invitation[i] = Unsent
           /\ invitation'[i] = [to |-> req[r].who, by |-> req[r].by, status |-> "PENDING",
                                acceptedBy |-> Nobody]
           /\ invitation'[i] \in Sent
           /\ \A j \in Invitation : j # i => invitation'[j] = invitation[j]
<1>1. PICK i \in Invitation :
        /\ invitation[i].status = "unused"
        /\ invitation' = [invitation EXCEPT ![i] =
             [to |-> req[r].who, by |-> req[r].by, status |-> "PENDING", acceptedBy |-> Nobody]]
  BY DEF InviteCreate
<1>2. req[r].who \in Person /\ req[r].by \in Person
  BY Holds, OpAt DEF InviteCreate
<1>3. QED
  BY <1>1, <1>2, SentIs DEF Shape, Sent

LEMMA AddressedInit == AccountsInit => Addressed
  BY IdleIs DEF AccountsInit, Addressed

\* A login accepts the invitation of its person.
LEMMA AcceptsOwn ==
  ASSUME Shape, Addressed, NEW r \in Request,
         LoginAccept(r) \/ (LoginCommit(r) /\ req[r].inv # NoInvitation)
  PROVE  /\ req[r].inv \in Invitation /\ req[r].who \in Person /\ req[r].op = "login"
         /\ invitation[req[r].inv] \in Sent /\ invitation[req[r].inv].to = req[r].who
         /\ Accept(req[r].inv, req[r].who) /\ Promote(req[r].who)
  BY Holds, OpAt DEF LoginAccept, LoginCommit, Addressed

LEMMA AddressedStep == Shape /\ Addressed /\ [AccountsNext]_accountVars => Addressed'
<1> SUFFICES ASSUME Shape, Addressed, [AccountsNext]_accountVars PROVE Addressed'
  OBVIOUS
<1> USE IdleIs
<1>1. CASE UNCHANGED accountVars
  BY <1>1 DEF accountVars, rows, Addressed
<1>2. ASSUME NEW r \in Request, UNCHANGED invitation,
             \A q \in Request : q # r => req'[q] = req[q],
             \/ req'[r] = Idle
             \/ /\ req'[r].op = req[r].op /\ req'[r].who = req[r].who
                /\ req'[r].inv \in {req[r].inv} \cup PendingFor(req[r].who)
      PROVE  Addressed'
  <2>1. ASSUME NEW i \in PendingFor(req[r].who)
        PROVE  i \in Invitation /\ invitation[i] \in Sent /\ invitation[i].to = req[r].who
    BY <2>1, SentIs DEF PendingFor
  <2>2. QED
    BY <1>2, <2>1 DEF Addressed
<1>3. ASSUME NEW r \in Request, Arrived(r) PROVE Addressed'
  BY <1>3, SentIs DEF Arrived, rows, Addressed
<1>4. ASSUME NEW r \in Request, InviteCreate(r) PROVE Addressed'
  <2>1. PICK i \in Invitation :
           /\ invitation[i] = Unsent
           /\ invitation'[i] = [to |-> req[r].who, by |-> req[r].by, status |-> "PENDING",
                                acceptedBy |-> Nobody]
           /\ \A j \in Invitation : j # i => invitation'[j] = invitation[j]
    BY <1>4, Creating
  <2>2. \A q \in Request : req[q].inv # i
    BY <2>1, SentIs DEF Addressed, Unsent, Sent
  <2>3. QED
    BY <1>4, <2>1, <2>2, Ended DEF InviteCreate, Addressed
<1>5. ASSUME NEW r \in Request, RevokeWrite(r) PROVE Addressed'
  <2>1. req[r].inv \in Invitation /\ invitation[req[r].inv] \in Sent
    BY <1>5, Holds DEF RevokeWrite, Addressed
  <2> DEFINE i == req[r].inv
  <2>2. /\ invitation'[i].to = invitation[i].to
        /\ invitation'[i].acceptedBy = invitation[i].acceptedBy
        /\ invitation'[i].status = "REVOKED"
        /\ invitation'[i] \in Sent
        /\ \A j \in Invitation : j # i => invitation'[j] = invitation[j]
    BY <1>5, <2>1, Revoking
  <2>3. req'[r] = Idle /\ \A q \in Request : q # r => req'[q] = req[q]
    BY <1>5, Ended DEF RevokeWrite
  <2>4. QED
    BY <2>1, <2>2, <2>3 DEF Addressed
<1>6. ASSUME NEW r \in Request, NEW i \in Invitation, i = req[r].inv,
             invitation[i] \in Sent, invitation[i].to = req[r].who,
             req[r].who \in Person, Accept(i, req[r].who),
             \A q \in Request : q # r => req'[q] = req[q],
             \/ req'[r] = Idle
             \/ req'[r].op = req[r].op /\ req'[r].who = req[r].who /\ req'[r].inv = req[r].inv
      PROVE  Addressed'
  <2>1. /\ invitation'[i].to = invitation[i].to
        /\ invitation'[i].status = "ACCEPTED" /\ invitation'[i].acceptedBy = invitation[i].to
        /\ invitation'[i] \in Sent
        /\ \A j \in Invitation : j # i => invitation'[j] = invitation[j]
    BY <1>6, Accepting
  <2>2. QED
    BY <1>6, <2>1 DEF Addressed
<1>7. ASSUME NEW r \in Request, LoginAccept(r) PROVE Addressed'
  <2>1. /\ req'[r].op = req[r].op /\ req'[r].who = req[r].who /\ req'[r].inv = req[r].inv
        /\ \A q \in Request : q # r => req'[q] = req[q]
    BY <1>7, Moved DEF LoginAccept
  <2>2. QED
    BY <1>7, <1>6, <2>1, AcceptsOwn
<1>8. ASSUME NEW r \in Request, LoginCommit(r) PROVE Addressed'
  <2>1. CASE req[r].inv = NoInvitation
    BY <1>2, <1>8, <2>1, Ended DEF LoginCommit
  <2>2. CASE req[r].inv # NoInvitation
    <3>1. req'[r] = Idle /\ \A q \in Request : q # r => req'[q] = req[q]
      BY <1>8, Ended DEF LoginCommit
    <3>2. QED
      BY <1>8, <1>6, <2>2, <3>1, AcceptsOwn
  <2>3. QED
    BY <2>1, <2>2
<1>9. ASSUME NEW r \in Request, AdminStep(r) PROVE Addressed'
  BY <1>2, <1>4, <1>5, <1>9, Moved, Ended DEF AdminStep, InviteCheckAdmin, InviteCheckPending,
     RevokeRead, RemoveRead, RemoveCount, RemoveWrite, rows
<1>10. ASSUME NEW r \in Request, LoginStep(r) PROVE Addressed'
  <2>1. CASE LoginFindInvitation(r)
    <3>1. ASSUME NEW s, MoveTo(r, s) PROVE Addressed'
      BY <1>2, <2>1, <3>1, Moved DEF LoginFindInvitation, rows
    <3>2. ASSUME NEW i \in PendingFor(req[r].who), MoveWith(r, "accept", i)
          PROVE  Addressed'
      BY <1>2, <2>1, <3>2, MovedWith DEF LoginFindInvitation, rows
    <3>3. QED
      BY <2>1, <3>1, <3>2 DEF LoginFindInvitation
  <2>2. CASE LoginRegister(r)
    <3>1. ASSUME NEW s, MoveTo(r, s) PROVE Addressed'
      BY <1>2, <2>2, <3>1, Moved DEF LoginRegister, rows
    <3>2. ASSUME NEW i \in PendingFor(req[r].who), MoveWith(r, "commit", i)
          PROVE  Addressed'
      BY <1>2, <2>2, <3>2, MovedWith DEF LoginRegister, rows
    <3>3. QED
      BY <2>2, <3>1, <3>2 DEF LoginRegister
  <2>3. QED
    BY <1>2, <1>7, <1>8, <1>10, <2>1, <2>2, Moved, Ended DEF LoginStep, LoginFindAccount,
       LoginFindUser, LoginLink, LoginAcceptRefused, LoginIssue, LoginReadRoster, rows
<1>11. ASSUME NEW r \in Request, CutShort(r) PROVE Addressed'
  BY <1>2, <1>11, Ended DEF CutShort, rows
<1>12. ASSUME NEW p \in Person, LoginInternal(p) \/ Logout(p) PROVE Addressed'
  BY <1>12 DEF LoginInternal, Logout, rows, Addressed
<1>13. QED
  BY <1>1, <1>3, <1>9, <1>10, <1>11, <1>12, ArrivalIs DEF AccountsNext

Sound == Shape /\ Addressed

LEMMA SoundInit == AccountsInit => Sound
  BY ShapeInit, AddressedInit DEF Sound
LEMMA SoundStep == Sound /\ [AccountsNext]_accountVars => Sound'
  BY ShapeStep, AddressedStep DEF Sound
LEMMA AlwaysSound == AccountsSpec => []Sound
  BY SoundInit, SoundStep, PTL DEF AccountsSpec

\* Every variable of the accounts keeps its type.
THEOREM AccountsTypeCorrect == AccountsSpec => []AccountsTypeOK
  BY AlwaysSound, ShapeImpliesType, PTL DEF Sound
-----------------------------------------------------------------------------
LEMMA StepGoes ==
  ASSUME Shape, NEW r \in Request, AdminStep(r) \/ LoginStep(r)
  PROVE  Goes(r)
<1>1. CASE AdminStep(r)
  BY <1>1, MovedGoes, EndedGoes DEF AdminStep, InviteCheckAdmin, InviteCheckPending, InviteCreate,
     RevokeRead, RevokeWrite, RemoveRead, RemoveCount, RemoveWrite
<1>2. CASE LoginStep(r)
  BY <1>2, MovedGoes, EndedGoes, MovedWithGoes DEF LoginStep, LoginFindAccount, LoginFindUser,
     LoginLink, LoginFindInvitation, LoginAccept, LoginAcceptRefused, LoginIssue, LoginReadRoster,
     LoginRegister, LoginCommit
<1>3. QED
  BY <1>1, <1>2

\* One request arrives, ends or moves on, or none does.
LEMMA RequestsChange ==
  ASSUME Shape, [AccountsNext]_accountVars
  PROVE  UNCHANGED req \/ \E r \in Request : Arrived(r) \/ Goes(r)
  BY StepGoes, EndedGoes, ArrivalIs DEF AccountsNext, accountVars, CutShort, LoginInternal, Logout

\* The invitations change by four actions only.
LEMMA InvitationsChange ==
  ASSUME Sound, [AccountsNext]_accountVars
  PROVE  \/ UNCHANGED invitation
         \/ \E r \in Request : \/ InviteCreate(r) \/ RevokeWrite(r)
                               \/ LoginAccept(r)
                               \/ LoginCommit(r) /\ req[r].inv # NoInvitation
  BY DEF AccountsNext, accountVars, rows, Arrival, InviteBegin, RemoveBegin, RevokeBegin, LoginBegin,
     Begin, AdminStep, InviteCheckAdmin, InviteCheckPending, RevokeRead, RemoveRead, RemoveCount,
     RemoveWrite, LoginStep, LoginFindAccount, LoginFindUser, LoginLink, LoginFindInvitation,
     LoginAcceptRefused, LoginIssue, LoginReadRoster, LoginRegister, LoginCommit, CutShort,
     LoginInternal, Logout

\* Who sent an invitation, to whom, and who accepted it, stays.
Lasting(i) ==
  /\ invitation[i] \in Sent =>
       /\ invitation'[i] \in Sent
       /\ invitation'[i].to = invitation[i].to /\ invitation'[i].by = invitation[i].by
  /\ invitation[i].acceptedBy # Nobody => invitation'[i].acceptedBy = invitation[i].acceptedBy
  /\ invitation[i] \notin Sent /\ invitation'[i] \in Sent =>
       /\ \E r \in Request : /\ InviteCreate(r)
                            /\ invitation'[i].by = req[r].by /\ invitation'[i].to = req[r].who
       /\ invitation'[i].status = "PENDING" /\ invitation'[i].acceptedBy = Nobody

LEMMA InvitationsLast ==
  ASSUME Sound, [AccountsNext]_accountVars, NEW i \in Invitation
  PROVE  Lasting(i)
<1> USE DEF Sound
<1>1. CASE UNCHANGED invitation
  BY <1>1 DEF Lasting
<1>2. ASSUME NEW r \in Request, InviteCreate(r) PROVE Lasting(i)
  <2>1. PICK k \in Invitation :
           /\ invitation[k] = Unsent
           /\ invitation'[k] = [to |-> req[r].who, by |-> req[r].by, status |-> "PENDING",
                                acceptedBy |-> Nobody]
           /\ invitation'[k] \in Sent
           /\ \A j \in Invitation : j # k => invitation'[j] = invitation[j]
    BY <1>2, Creating
  <2>2. CASE i = k
    BY <1>2, <2>1, <2>2, SentIs DEF Lasting, Unsent
  <2>3. CASE i # k
    BY <2>1, <2>3 DEF Lasting
  <2>4. QED
    BY <2>2, <2>3
<1>3. ASSUME NEW r \in Request, RevokeWrite(r) PROVE Lasting(i)
  <2>1. req[r].inv \in Invitation /\ invitation[req[r].inv] \in Sent
    BY <1>3, Holds DEF RevokeWrite, Addressed
  <2> DEFINE k == req[r].inv
  <2>2. /\ invitation'[k].to = invitation[k].to /\ invitation'[k].by = invitation[k].by
        /\ invitation'[k].acceptedBy = invitation[k].acceptedBy
        /\ invitation'[k] \in Sent
        /\ \A j \in Invitation : j # k => invitation'[j] = invitation[j]
    BY <1>3, <2>1, Revoking
  <2>3. QED
    BY <2>1, <2>2 DEF Lasting
<1>4. ASSUME NEW r \in Request,
             LoginAccept(r) \/ (LoginCommit(r) /\ req[r].inv # NoInvitation)
      PROVE  Lasting(i)
  <2> DEFINE k == req[r].inv
  <2>1. /\ k \in Invitation /\ req[r].who \in Person /\ invitation[k] \in Sent
        /\ invitation[k].to = req[r].who /\ Accept(k, req[r].who)
    BY <1>4, AcceptsOwn
  <2>2. /\ invitation'[k].to = invitation[k].to /\ invitation'[k].by = invitation[k].by
        /\ invitation'[k].acceptedBy = req[r].who
        /\ invitation'[k] \in Sent
        /\ \A j \in Invitation : j # k => invitation'[j] = invitation[j]
    BY <2>1, Accepting
  <2>3. invitation[k].acceptedBy \in {Nobody, invitation[k].to}
    BY <2>1 DEF Addressed
  <2>4. QED
    BY <2>1, <2>2, <2>3 DEF Lasting
<1>5. QED
  BY <1>1, <1>2, <1>3, <1>4, InvitationsChange

LEMMA AcceptedGrows ==
  ASSUME Sound, [AccountsNext]_accountVars, NEW p \in Person
  PROVE  Accepted(p) \subseteq Accepted(p)'
  BY InvitationsLast, NobodyIsNoPerson DEF Lasting, Accepted

LEMMA LegitimateStep == Sound /\ Legitimate /\ [AccountsNext]_accountVars => Legitimate'
<1> SUFFICES ASSUME Sound, Legitimate, [AccountsNext]_accountVars PROVE Legitimate'
  OBVIOUS
<1> USE DEF Sound
<1>0. Trusted \subseteq Trusted'
  BY AcceptedGrows DEF Trusted
<1>1. \A p \in Person : role'[p] = "ADMIN" \/ token'[p] = "ADMIN" => p \in Trusted'
  <2> SUFFICES ASSUME NEW p \in Person, role'[p] = "ADMIN" \/ token'[p] = "ADMIN",
                      ~(role[p] = "ADMIN" \/ token[p] = "ADMIN")
               PROVE  p \in Trusted'
    BY <1>0 DEF Legitimate
  <2>1. ASSUME NEW r \in Request,
               LoginAccept(r) \/ (LoginCommit(r) /\ req[r].inv # NoInvitation),
               p = req[r].who
        PROVE  p \in Trusted'
    <3>1. /\ req[r].inv \in Invitation /\ invitation[req[r].inv] \in Sent
          /\ Accept(req[r].inv, p)
      BY <2>1, AcceptsOwn
    <3>2. invitation'[req[r].inv].acceptedBy = p
      BY <3>1, Accepting
    <3>3. QED
      BY <3>1, <3>2 DEF Trusted, Accepted
  <2>2. ASSUME NEW r \in Request, LoginAccept(r) PROVE p \in Trusted'
    BY <2>1, <2>2 DEF LoginAccept, Promote, Shape
  <2>3. ASSUME NEW r \in Request, LoginCommit(r) PROVE p \in Trusted'
    <3>1. req[r].who \in Person
      BY <2>3, Holds, OpAt DEF LoginCommit
    <3>2. CASE req[r].inv = NoInvitation
      BY <2>3, <3>1, <3>2 DEF LoginCommit, Shape
    <3>3. CASE req[r].inv # NoInvitation /\ p # req[r].who
      BY <2>3, <3>1, <3>3 DEF LoginCommit, Promote, Shape
    <3>4. QED
      BY <2>1, <2>3, <3>2, <3>3
  <2>4. ASSUME NEW r \in Request, RemoveWrite(r) PROVE FALSE
    BY <2>4 DEF RemoveWrite, Shape
  <2>5. ASSUME NEW r \in Request, LoginIssue(r) PROVE FALSE
    BY <2>5 DEF LoginIssue, Shape, rows
  <2>6. ASSUME NEW q \in Person, LoginInternal(q) \/ Logout(q) PROVE FALSE
    BY <2>6 DEF LoginInternal, Logout, Shape, rows
  <2>7. \/ UNCHANGED <<role, token>>
        \/ \E r \in Request : LoginAccept(r) \/ LoginCommit(r) \/ RemoveWrite(r) \/ LoginIssue(r)
        \/ \E q \in Person : LoginInternal(q) \/ Logout(q)
    BY DEF AccountsNext, accountVars, rows, Arrival, InviteBegin, RemoveBegin, RevokeBegin,
       LoginBegin, Begin, AdminStep, InviteCheckAdmin, InviteCheckPending, InviteCreate, RevokeRead,
       RevokeWrite, RemoveRead, RemoveCount, LoginStep, LoginFindAccount, LoginFindUser, LoginLink,
       LoginFindInvitation, LoginAcceptRefused, LoginReadRoster, LoginRegister, CutShort
  <2>8. QED
    BY <2>2, <2>3, <2>4, <2>5, <2>6, <2>7
<1>2. \A q \in Request : req'[q].op = "invite" => req'[q].by \in Trusted'
  <2>1. ASSUME NEW r \in Request, Arrived(r), NEW q \in Request, req'[q].op = "invite"
        PROVE  req'[q].by \in Trusted'
    BY <1>0, <2>1 DEF Arrived, Legitimate
  <2>2. ASSUME NEW r \in Request, Goes(r), NEW q \in Request, req'[q].op = "invite"
        PROVE  req'[q].by \in Trusted'
    BY <1>0, <2>2, IdleIs DEF Goes, Legitimate
  <2>3. QED
    BY <1>0, <2>1, <2>2, RequestsChange DEF Legitimate
<1>3. InvitersWereAdmins'
  <2> SUFFICES ASSUME NEW i \in Invitation, invitation'[i].status # "unused"
               PROVE  invitation'[i].by \in Trusted'
    BY DEF InvitersWereAdmins, Trusted
  <2>1. invitation'[i] \in Sent
    BY ShapeStep DEF Shape, Unsent
  <2>2. CASE invitation[i] \in Sent
    BY <1>0, <2>2, InvitationsLast, SentIs DEF Lasting, Legitimate, InvitersWereAdmins, Trusted
  <2>3. CASE invitation[i] \notin Sent
    <3>1. PICK r \in Request : InviteCreate(r) /\ invitation'[i].by = req[r].by
      BY <2>1, <2>3, InvitationsLast DEF Lasting
    <3>2. QED
      BY <1>0, <3>1, OpAt DEF InviteCreate, Legitimate
  <2>4. QED
    BY <2>2, <2>3
<1>4. QED
  BY <1>1, <1>2, <1>3 DEF Legitimate

\* However old the token of an inviter is, a founder or someone who accepted an
\* invitation sent each invitation.
THEOREM InvitersLegitimate == AccountsSpec => []InvitersWereAdmins
<1>1. AccountsInit => Legitimate
  BY IdleIs DEF AccountsInit, Legitimate, Trusted, InvitersWereAdmins
<1>2. Legitimate => InvitersWereAdmins
  BY DEF Legitimate
<1>3. QED
  BY AlwaysSound, LegitimateStep, <1>1, <1>2, PTL DEF AccountsSpec
-----------------------------------------------------------------------------
LEMMA CrossingIs ==
  /\ \A a, b : Crossing(a, b) = Crossing(b, a)
  /\ \A a, b, c : a.op = c.op /\ a.who = c.who => Crossing(a, b) = Crossing(c, b)
  /\ \A b : Crossing(Idle, b) = {}
  BY IdleIs DEF Crossing

LEMMA CrossedGrows == [AccountsNext]_accountVars /\ Shape => crossed \subseteq crossed'
  BY ArrivalIs DEF Arrived, AccountsNext, accountVars, history, AdminStep, InviteCheckAdmin,
     InviteCheckPending, InviteCreate, RevokeRead, RevokeWrite, RemoveRead, RemoveCount,
     RemoveWrite, LoginStep, LoginFindAccount, LoginFindUser, LoginLink, LoginFindInvitation,
     LoginAccept, LoginAcceptRefused, LoginIssue, LoginReadRoster, LoginRegister, LoginCommit,
     CutShort, LoginInternal, Logout

LEMMA ApartStep ==
  ASSUME Shape, [AccountsNext]_accountVars, NEW kind, Apart(kind)
  PROVE  Apart(kind)'
<1> SUFFICES ASSUME kind \notin crossed', NEW a \in Request, NEW b \in Request, a # b
             PROVE  kind \notin Crossing(req'[a], req'[b])
  BY DEF Apart
<1>1. \A r, q \in Request : r # q => kind \notin Crossing(req[r], req[q])
  BY CrossedGrows DEF Apart
<1>2. ASSUME NEW r \in Request, Arrived(r) PROVE kind \notin Crossing(req'[a], req'[b])
  BY <1>1, <1>2, CrossingIs DEF Arrived
<1>3. ASSUME NEW r \in Request, Goes(r) PROVE kind \notin Crossing(req'[a], req'[b])
  BY <1>1, <1>3, CrossingIs DEF Goes
<1>4. QED
  BY <1>1, <1>2, <1>3, RequestsChange

LEMMA ApartInit == ASSUME AccountsInit, NEW kind PROVE Apart(kind)
  BY CrossingIs DEF AccountsInit, Apart

\* What is apart when nothing of its kind met.
LEMMA ApartMeans ==
  /\ Apart("removals") /\ "removals" \notin crossed =>
       \A r, q \in Request : r # q => ~(req[r].op = "remove" /\ req[q].op = "remove")
  /\ Apart("invites") /\ "invites" \notin crossed =>
       \A r, q \in Request : r # q /\ req[r].who = req[q].who /\ req[r].op = "invite" =>
         req[q].op \notin {"invite", "login"}
  /\ Apart("logins") /\ "logins" \notin crossed =>
       \A r, q \in Request : r # q /\ req[r].who = req[q].who =>
         ~(req[r].op = "login" /\ req[q].op = "login")
  /\ Apart("revocations") /\ "revocations" \notin crossed =>
       \A r, q \in Request : r # q => ~(req[r].op = "revoke" /\ req[q].op = "login")
  BY DEF Apart, Crossing

\* Only a removal takes the role of an administrator away.
LEMMA AdminsStay ==
  ASSUME Shape, [AccountsNext]_accountVars
  PROVE  \/ Admins \subseteq Admins'
         \/ \E r \in Request : RemoveWrite(r) /\ Admins \subseteq Admins' \cup {req[r].who}
<1>1. ASSUME NEW r \in Request, RemoveWrite(r) PROVE Admins \subseteq Admins' \cup {req[r].who}
  BY <1>1 DEF RemoveWrite, Admins, Shape
<1>2. ASSUME NEW p, Promote(p) PROVE Admins \subseteq Admins'
  BY <1>2 DEF Promote, Admins, Shape
<1>3. ASSUME NEW r \in Request, LoginCommit(r) PROVE Admins \subseteq Admins'
  BY <1>2, <1>3 DEF LoginCommit, Admins, Shape
<1>4. ASSUME NEW r \in Request, LoginAccept(r) PROVE Admins \subseteq Admins'
  BY <1>2, <1>4 DEF LoginAccept
<1>5. ASSUME UNCHANGED role PROVE Admins \subseteq Admins'
  BY <1>5 DEF Admins
<1>6. QED
  BY <1>1, <1>3, <1>4, <1>5, ArrivalIs DEF Arrived, AccountsNext, accountVars, rows, AdminStep,
     InviteCheckAdmin, InviteCheckPending, InviteCreate, RevokeRead, RevokeWrite, RemoveRead,
     RemoveCount, LoginStep, LoginFindAccount, LoginFindUser, LoginLink, LoginFindInvitation,
     LoginAcceptRefused, LoginIssue, LoginReadRoster, LoginRegister, CutShort, LoginInternal, Logout

\* How a request comes to one of the stages before a write.
Entered(q) ==
  \/ req'[q] = req[q]
  \/ req'[q].at \notin {"demote", "create", "pending", "revoke", "accept", "commit"}
  \/ RemoveCount(q) /\ req'[q].at = "demote" /\ MoveTo(q, "demote")
  \/ InviteCheckPending(q) /\ req'[q].at = "create" /\ MoveTo(q, "create")
  \/ InviteCheckAdmin(q) /\ req'[q].at = "pending" /\ MoveTo(q, "pending")
  \/ RevokeRead(q) /\ req'[q].at = "revoke" /\ MoveTo(q, "revoke")
  \/ LoginFindInvitation(q) /\ req'[q].at = "accept"
     /\ \E i \in PendingFor(req[q].who) : MoveWith(q, "accept", i)
  \/ LoginRegister(q) /\ req'[q].at = "commit"
     /\ \/ \E i \in PendingFor(req[q].who) : MoveWith(q, "commit", i)
        \/ PendingFor(req[q].who) = {} /\ MoveTo(q, "commit")

LEMMA StageEntered ==
  ASSUME Shape, [AccountsNext]_accountVars, NEW q \in Request
  PROVE  Entered(q)
<1>1. /\ \A s : MoveTo(q, s) => req'[q].at = s
      /\ \A s, i : MoveWith(q, s, i) => req'[q].at = s
  BY Moved, MovedWith
<1>2. ASSUME req'[q].at \notin {"demote", "create", "pending", "revoke", "accept", "commit"}
      PROVE  Entered(q)
  BY <1>2 DEF Entered
<1>3. ASSUME NEW r \in Request, End(r) PROVE Entered(q)
  BY <1>3, Ended, IdleIs DEF Entered
<1>4. CASE AdminStep(q)
  <2>1. CASE InviteCheckAdmin(q)
    BY <1>1, <1>3, <2>1 DEF InviteCheckAdmin, Entered
  <2>2. CASE InviteCheckPending(q)
    BY <1>1, <1>3, <2>2 DEF InviteCheckPending, Entered
  <2>3. CASE RevokeRead(q)
    BY <1>1, <1>3, <2>3 DEF RevokeRead, Entered
  <2>4. CASE RemoveCount(q)
    BY <1>1, <1>3, <2>4 DEF RemoveCount, Entered
  <2>5. CASE RemoveRead(q)
    BY <1>1, <1>2, <1>3, <2>5 DEF RemoveRead
  <2>6. QED
    BY <1>3, <1>4, <2>1, <2>2, <2>3, <2>4, <2>5 DEF AdminStep, InviteCreate, RevokeWrite, RemoveWrite
<1>5. CASE LoginStep(q)
  <2>1. ASSUME NEW s \in {"issue", "invitation", "user", "link", "roster", "register"}, MoveTo(q, s)
        PROVE  Entered(q)
    BY <1>1, <1>2, <2>1
  <2>2. CASE LoginFindInvitation(q)
    <3>1. ASSUME NEW i \in PendingFor(req[q].who), MoveWith(q, "accept", i) PROVE Entered(q)
      BY <1>1, <2>2, <3>1 DEF Entered
    <3>2. QED
      BY <2>1, <2>2, <3>1 DEF LoginFindInvitation
  <2>3. CASE LoginRegister(q)
    <3>1. CASE PendingFor(req[q].who) = {} /\ MoveTo(q, "commit")
      BY <1>1, <2>3, <3>1 DEF Entered
    <3>2. ASSUME NEW i \in PendingFor(req[q].who), MoveWith(q, "commit", i) PROVE Entered(q)
      BY <1>1, <2>3, <3>2 DEF Entered
    <3>3. QED
      BY <2>3, <3>1, <3>2 DEF LoginRegister
  <2>4. CASE LoginFindAccount(q) \/ LoginFindUser(q) \/ LoginLink(q) \/ LoginAccept(q)
             \/ LoginReadRoster(q)
    BY <1>3, <2>1, <2>4 DEF LoginFindAccount, LoginFindUser, LoginLink, LoginAccept, LoginReadRoster
  <2>5. QED
    BY <1>3, <1>5, <2>2, <2>3, <2>4 DEF LoginStep, LoginAcceptRefused, LoginIssue, LoginCommit
<1>6. ASSUME NEW r \in Request, AdminStep(r) \/ LoginStep(r) PROVE Entered(q)
  <2>1. CASE r # q
    BY <1>6, <2>1, StepGoes DEF Goes, Entered
  <2>2. QED
    BY <1>4, <1>5, <1>6, <2>1
<1>7. ASSUME NEW r \in Request, Arrival(r) PROVE Entered(q)
  BY <1>7, ArrivalIs DEF Arrived, Entered
<1>8. ASSUME NEW r \in Request, CutShort(r) PROVE Entered(q)
  BY <1>3, <1>8 DEF CutShort
<1>9. ASSUME UNCHANGED req PROVE Entered(q)
  BY <1>9 DEF Entered
<1>10. QED
  BY <1>6, <1>7, <1>8, <1>9 DEF AccountsNext, accountVars, LoginInternal, Logout
-----------------------------------------------------------------------------
\* Two administrators: one of them is not the one who is removed.
LEMMA AnotherAdmin ==
  ASSUME Shape, ~(Cardinality(Admins) <= 1), NEW x
  PROVE  \E p \in Admins : p # x
<1>1. IsFiniteSet(Admins)
  BY FoundersExist, FS_Subset DEF Admins
<1>2. Cardinality({}) = 0 /\ Cardinality({x}) = 1
  BY FS_EmptySet, FS_Singleton
<1>3. Admins # {} /\ Admins # {x}
  BY <1>2
<1>4. QED
  BY <1>3

LEMMA SparedStep ==
  ASSUME Shape, Apart("removals"), Spared, [AccountsNext]_accountVars
  PROVE  Spared'
<1> SUFFICES ASSUME "removals" \notin crossed'
             PROVE  /\ Admins' # {}
                    /\ \A q \in Request : req'[q].at = "demote" => \E p \in Admins' : p # req'[q].who
  BY DEF Spared
<1>1. "removals" \notin crossed
  BY CrossedGrows
<1>2. /\ Admins # {}
      /\ \A q \in Request : req[q].at = "demote" => \E p \in Admins : p # req[q].who
  BY <1>1 DEF Spared
<1>3. CASE Admins \subseteq Admins'
  <2>1. ASSUME NEW q \in Request, req'[q].at = "demote" PROVE \E p \in Admins' : p # req'[q].who
    <3>1. CASE req'[q] = req[q]
      BY <1>2, <1>3, <2>1, <3>1
    <3>2. CASE RemoveCount(q) /\ MoveTo(q, "demote")
      <4>1. ~(Cardinality(Admins) <= 1)
        BY <2>1, <3>2, Ended, IdleIs DEF RemoveCount
      <4>2. QED
        BY <1>3, <4>1, AnotherAdmin
    <3>3. QED
      BY <2>1, <3>1, <3>2, StageEntered DEF Entered
  <2>2. QED
    BY <1>2, <1>3, <2>1
<1>4. ASSUME NEW r \in Request, RemoveWrite(r), Admins \subseteq Admins' \cup {req[r].who}
      PROVE  /\ Admins' # {}
             /\ \A q \in Request : req'[q].at # "demote"
  <2>1. \A q \in Request : q # r => req[q].at # "demote"
    BY <1>1, <1>4, ApartMeans, OpAt DEF RemoveWrite
  <2>2. QED
    BY <1>2, <1>4, <2>1, Ended, IdleIs DEF RemoveWrite
<1>5. QED
  BY <1>3, <1>4, AdminsStay

\* There is always an administrator as long as no two removals overlap: what
\* the count allowed holds until the write.
THEOREM AdministratorRemains == AccountsSpec => []LastAdminKept
<1>1. AccountsInit => Spared
  BY FoundersExist, IdleIs DEF AccountsInit, Spared, Admins
<1>2. AccountsInit => Apart("removals")
  BY ApartInit
<1>3. Sound /\ Apart("removals") /\ Spared /\ [AccountsNext]_accountVars
        => Apart("removals")' /\ Spared'
  BY ApartStep, SparedStep DEF Sound
<1>4. Spared => LastAdminKept
  BY DEF Spared, LastAdminKept
<1>5. QED
  BY AlwaysSound, <1>1, <1>2, <1>3, <1>4, PTL DEF AccountsSpec
-----------------------------------------------------------------------------
\* Only the creation of an invitation makes one pending.
LEMMA PendingChanges ==
  ASSUME Sound, [AccountsNext]_accountVars
  PROVE  \/ \A p \in Person : PendingFor(p)' \subseteq PendingFor(p)
         \/ \E r \in Request, i \in Invitation :
              /\ InviteCreate(r)
              /\ \A p \in Person : p # req[r].who => PendingFor(p)' \subseteq PendingFor(p)
              /\ \A p \in Person : PendingFor(p)' \subseteq PendingFor(p) \cup {i}
<1> USE DEF Sound
<1>1. CASE UNCHANGED invitation
  BY <1>1 DEF PendingFor
<1>2. ASSUME NEW r \in Request, InviteCreate(r)
      PROVE  \E i \in Invitation :
               /\ \A p \in Person : p # req[r].who => PendingFor(p)' \subseteq PendingFor(p)
               /\ \A p \in Person : PendingFor(p)' \subseteq PendingFor(p) \cup {i}
  <2>1. PICK i \in Invitation :
           /\ invitation'[i] = [to |-> req[r].who, by |-> req[r].by, status |-> "PENDING",
                                acceptedBy |-> Nobody]
           /\ \A j \in Invitation : j # i => invitation'[j] = invitation[j]
    BY <1>2, Creating
  <2>2. QED
    BY <2>1 DEF PendingFor
<1>3. ASSUME NEW r \in Request, RevokeWrite(r), NEW p \in Person
      PROVE  PendingFor(p)' \subseteq PendingFor(p)
  <2> DEFINE k == req[r].inv
  <2>1. k \in Invitation /\ invitation[k] \in Sent
    BY <1>3, Holds DEF RevokeWrite, Addressed
  <2>2. /\ invitation'[k].status = "REVOKED"
        /\ \A j \in Invitation : j # k => invitation'[j] = invitation[j]
    BY <1>3, <2>1, Revoking
  <2>3. QED
    BY <2>2 DEF PendingFor
<1>4. ASSUME NEW r \in Request,
             LoginAccept(r) \/ (LoginCommit(r) /\ req[r].inv # NoInvitation), NEW p \in Person
      PROVE  PendingFor(p)' \subseteq PendingFor(p)
  <2> DEFINE k == req[r].inv
  <2>1. /\ invitation'[k].status = "ACCEPTED"
        /\ \A j \in Invitation : j # k => invitation'[j] = invitation[j]
    BY <1>4, AcceptsOwn, Accepting
  <2>2. QED
    BY <2>1 DEF PendingFor
<1>5. QED
  BY <1>1, <1>2, <1>3, <1>4, InvitationsChange

LEMMA SingleStep ==
  ASSUME Sound, Apart("invites"), Single, [AccountsNext]_accountVars
  PROVE  Single'
<1> SUFFICES ASSUME "invites" \notin crossed'
             PROVE  /\ \A p \in Person : \A i, j \in PendingFor(p)' : i = j
                    /\ \A q \in Request, p \in Person : req'[q].at = "create" /\ req'[q].who = p
                         => PendingFor(p)' = {}
  <2>1. \A q \in Request : req'[q].at = "create" => req'[q].who \in Person
    BY ShapeStep DEF Sound, Shape, AnyReq, Idle, InviteReq, RevokeReq, RemoveReq, LoginReq,
       AcceptReq, LateReq
  <2>2. QED
    BY <2>1 DEF Single
<1> USE DEF Sound
<1>1. "invites" \notin crossed
  BY CrossedGrows
<1>2. /\ \A p \in Person : \A i, j \in PendingFor(p) : i = j
      /\ \A q \in Request : req[q].at = "create" => PendingFor(req[q].who) = {}
  BY <1>1 DEF Single
<1>3. ASSUME NEW q \in Request, NEW p \in Person, req'[q].at = "create", req'[q].who = p
      PROVE  req[q].who = p /\ PendingFor(p) = {}
  <2>1. CASE req'[q] = req[q]
    BY <1>2, <1>3, <2>1
  <2>2. CASE InviteCheckPending(q) /\ MoveTo(q, "create")
    BY <1>3, <2>2, Moved, Ended, IdleIs DEF InviteCheckPending
  <2>3. QED
    BY <1>3, <2>1, <2>2, StageEntered DEF Entered
<1>4. CASE \A p \in Person : PendingFor(p)' \subseteq PendingFor(p)
  BY <1>2, <1>3, <1>4
<1>5. ASSUME NEW r \in Request, NEW i \in Invitation, InviteCreate(r),
             \A p \in Person : p # req[r].who => PendingFor(p)' \subseteq PendingFor(p),
             \A p \in Person : PendingFor(p)' \subseteq PendingFor(p) \cup {i}
      PROVE  /\ \A p \in Person : \A j, k \in PendingFor(p)' : j = k
             /\ \A q \in Request, p \in Person : req'[q].at = "create" /\ req'[q].who = p
                  => PendingFor(p)' = {}
  <2>1. PendingFor(req[r].who) = {}
    BY <1>2, <1>5 DEF InviteCreate
  <2>2. \A p \in Person : \A j, k \in PendingFor(p)' : j = k
    BY <1>2, <1>5, <2>1
  <2>3. ASSUME NEW q \in Request, NEW p \in Person, req'[q].at = "create", req'[q].who = p
        PROVE  p # req[r].who
    <3>1. q # r /\ req'[q] = req[q]
      BY <1>5, <2>3, Ended, IdleIs DEF InviteCreate
    <3>2. req[q].op = "invite" /\ req[r].op = "invite"
      BY <1>5, <2>3, <3>1, OpAt DEF InviteCreate
    <3>3. QED
      BY <1>1, <2>3, <3>1, <3>2, ApartMeans
  <2>4. QED
    BY <1>3, <1>5, <2>2, <2>3
<1>6. QED
  BY <1>4, <1>5, PendingChanges

LEMMA SingleInit == AccountsInit => Single
  BY IdleIs DEF AccountsInit, Single, PendingFor

LEMMA SingleMeans == Single => OnePendingEach
<1> SUFFICES ASSUME Single, "invites" \notin crossed, NEW p \in Person
             PROVE  Cardinality(PendingFor(p)) <= 1
  BY DEF OnePendingEach
<1>1. \A i, j \in PendingFor(p) : i = j
  BY DEF Single
<1>2. CASE PendingFor(p) = {}
  BY <1>2, FS_EmptySet
<1>3. ASSUME NEW i \in PendingFor(p) PROVE Cardinality(PendingFor(p)) <= 1
  <2>1. PendingFor(p) = {i}
    BY <1>1
  <2>2. QED
    BY <2>1, FS_Singleton
<1>4. QED
  BY <1>2, <1>3

LEMMA AlwaysSingle == AccountsSpec => [](Single /\ Apart("invites"))
<1>1. AccountsInit => Single /\ Apart("invites")
  BY SingleInit, ApartInit
<1>2. Sound /\ Single /\ Apart("invites") /\ [AccountsNext]_accountVars
        => Single' /\ Apart("invites")'
  BY SingleStep, ApartStep DEF Sound
<1>3. QED
  BY AlwaysSound, <1>1, <1>2, PTL DEF AccountsSpec

\* Without overlapping requests about a name, the name has at most one
\* pending invitation.
THEOREM OnePending == AccountsSpec => []OnePendingEach
  BY AlwaysSingle, SingleMeans, PTL
-----------------------------------------------------------------------------
\* A login accepts an invitation.
Takes(r) == LoginAccept(r) \/ (LoginCommit(r) /\ req[r].inv # NoInvitation)

LEMMA TakingIs ==
  ASSUME Sound, NEW r \in Request, Takes(r)
  PROVE  /\ req[r].inv \in Invitation /\ req[r].who \in Person /\ req[r].op = "login"
         /\ req[r].at \in {"accept", "commit"}
         /\ invitation[req[r].inv].to = req[r].who
         /\ Promote(req[r].who)
         /\ invitation'[req[r].inv].acceptedBy = req[r].who
         /\ invitation'[req[r].inv].status = "ACCEPTED"
         /\ \A j \in Invitation : j # req[r].inv => invitation'[j] = invitation[j]
         /\ \A q \in Request : q # r => req'[q] = req[q]
         /\ req'[r].at \in {"issue", "idle"}
<1> USE DEF Sound, Takes
<1>1. /\ req[r].inv \in Invitation /\ req[r].who \in Person /\ req[r].op = "login"
      /\ invitation[req[r].inv] \in Sent /\ invitation[req[r].inv].to = req[r].who
      /\ Accept(req[r].inv, req[r].who) /\ Promote(req[r].who)
  BY AcceptsOwn
<1>2. /\ invitation'[req[r].inv].acceptedBy = req[r].who
      /\ invitation'[req[r].inv].status = "ACCEPTED"
      /\ \A j \in Invitation : j # req[r].inv => invitation'[j] = invitation[j]
  BY <1>1, Accepting
<1>3. /\ \A q \in Request : q # r => req'[q] = req[q]
      /\ req'[r].at \in {"issue", "idle"} /\ req[r].at \in {"accept", "commit"}
  BY Moved, Ended, IdleIs DEF LoginAccept, LoginCommit
<1>4. QED
  BY <1>1, <1>2, <1>3

LEMMA AcceptanceChanges ==
  ASSUME Sound, [AccountsNext]_accountVars
  PROVE  \/ \A i \in Invitation : invitation'[i].acceptedBy = invitation[i].acceptedBy
         \/ \E r \in Request : Takes(r)
<1> USE DEF Sound
<1>1. ASSUME NEW r \in Request, InviteCreate(r), NEW i \in Invitation
      PROVE  invitation'[i].acceptedBy = invitation[i].acceptedBy
  <2>1. PICK k \in Invitation :
           /\ invitation[k] = Unsent
           /\ invitation'[k] = [to |-> req[r].who, by |-> req[r].by, status |-> "PENDING",
                                acceptedBy |-> Nobody]
           /\ \A j \in Invitation : j # k => invitation'[j] = invitation[j]
    BY <1>1, Creating
  <2>2. QED
    BY <2>1 DEF Unsent
<1>2. ASSUME NEW r \in Request, RevokeWrite(r), NEW i \in Invitation
      PROVE  invitation'[i].acceptedBy = invitation[i].acceptedBy
  <2> DEFINE k == req[r].inv
  <2>1. k \in Invitation /\ invitation[k] \in Sent
    BY <1>2, Holds DEF RevokeWrite, Addressed
  <2>2. /\ invitation'[k].acceptedBy = invitation[k].acceptedBy
        /\ \A j \in Invitation : j # k => invitation'[j] = invitation[j]
    BY <1>2, <2>1, Revoking
  <2>3. QED
    BY <2>2
<1>3. QED
  BY <1>1, <1>2, InvitationsChange DEF Takes

\* Who is counted as promoted took an invitation; no row of a user goes.
LEMMA RolesChange ==
  ASSUME Sound, [AccountsNext]_accountVars
  PROVE  /\ UNCHANGED promoted \/ \E r \in Request : Takes(r)
         /\ \A p \in Person : role'[p] = "none" => role[p] = "none"
<1> USE DEF Sound
<1>1. UNCHANGED promoted \/ \E r \in Request : Takes(r)
  BY DEF Takes, AccountsNext, accountVars, rows, history, Arrival, InviteBegin, RemoveBegin,
     RevokeBegin, LoginBegin, Begin, AdminStep, InviteCheckAdmin, InviteCheckPending, InviteCreate,
     RevokeRead, RevokeWrite, RemoveRead, RemoveCount, RemoveWrite, LoginStep, LoginFindAccount,
     LoginFindUser, LoginLink, LoginFindInvitation, LoginAcceptRefused, LoginIssue,
     LoginReadRoster, LoginRegister, LoginCommit, CutShort, LoginInternal, Logout
<1>2. ASSUME NEW p \in Person, role'[p] = "none" PROVE role[p] = "none"
  <2>1. ASSUME NEW q, Promote(q) PROVE role[p] = "none"
    BY <1>2, <2>1 DEF Promote, Shape
  <2>2. ASSUME NEW r \in Request, LoginAccept(r) \/ LoginCommit(r) \/ RemoveWrite(r)
        PROVE  role[p] = "none"
    BY <1>2, <2>1, <2>2 DEF LoginAccept, LoginCommit, RemoveWrite, Shape
  <2>3. UNCHANGED role
        \/ \E r \in Request : LoginAccept(r) \/ LoginCommit(r) \/ RemoveWrite(r)
    BY DEF AccountsNext, accountVars, rows, Arrival, InviteBegin, RemoveBegin, RevokeBegin,
       LoginBegin, Begin, AdminStep, InviteCheckAdmin, InviteCheckPending, InviteCreate,
       RevokeRead, RevokeWrite, RemoveRead, RemoveCount, LoginStep, LoginFindAccount,
       LoginFindUser, LoginLink, LoginFindInvitation, LoginAcceptRefused, LoginIssue,
       LoginReadRoster, LoginRegister, CutShort, LoginInternal, Logout
  <2>4. QED
    BY <1>2, <2>2, <2>3
<1>3. QED
  BY <1>1, <1>2
-----------------------------------------------------------------------------
LEMMA UnrevokedStep ==
  ASSUME Sound, Apart("revocations"), Unrevoked, [AccountsNext]_accountVars
  PROVE  Unrevoked'
<1> SUFFICES ASSUME "revocations" \notin crossed'
             PROVE  /\ \A i \in Invitation :
                         invitation'[i].status = "REVOKED" => invitation'[i].acceptedBy = Nobody
                    /\ \A q \in Request : req'[q].at = "revoke" =>
                         invitation'[req'[q].inv].acceptedBy = Nobody
  BY DEF Unrevoked, RevokedGaveNothing
<1> USE DEF Sound
<1>1. "revocations" \notin crossed
  BY CrossedGrows
<1>2. /\ \A i \in Invitation : invitation[i].status = "REVOKED" => invitation[i].acceptedBy = Nobody
      /\ \A q \in Request : req[q].at = "revoke" => invitation[req[q].inv].acceptedBy = Nobody
  BY <1>1 DEF Unrevoked, RevokedGaveNothing
<1>3. ASSUME NEW q \in Request, req'[q].at = "revoke"
      PROVE  /\ req'[q].inv \in Invitation
             /\ invitation[req'[q].inv].acceptedBy = Nobody
             /\ req[q].op = "revoke"
  <2>1. CASE req'[q] = req[q]
    BY <1>2, <1>3, <2>1, Holds, OpAt
  <2>2. CASE RevokeRead(q) /\ MoveTo(q, "revoke")
    <3>1. req[q].inv \in Invitation /\ req[q].op = "revoke" /\ req'[q].inv = req[q].inv
      BY <2>2, Holds, OpAt, Moved DEF RevokeRead
    <3>2. invitation[req[q].inv].status = "PENDING"
      BY <1>3, <2>2, Ended, IdleIs DEF RevokeRead
    <3>3. QED
      BY <3>1, <3>2 DEF Addressed
  <2>3. QED
    BY <1>3, <2>1, <2>2, StageEntered DEF Entered
<1>4. CASE \A i \in Invitation : invitation'[i].acceptedBy = invitation[i].acceptedBy
  <2>1. ASSUME NEW i \in Invitation, invitation'[i].status = "REVOKED"
        PROVE  invitation[i].acceptedBy = Nobody
    <3>1. CASE invitation'[i] = invitation[i]
      BY <1>2, <2>1, <3>1
    <3>2. ASSUME NEW r \in Request, RevokeWrite(r), i = req[r].inv
          PROVE  invitation[i].acceptedBy = Nobody
      BY <1>2, <3>2 DEF RevokeWrite
    <3>3. ASSUME NEW r \in Request, RevokeWrite(r), i # req[r].inv
          PROVE  invitation'[i] = invitation[i]
      BY <3>3 DEF RevokeWrite, Shape
    <3>4. ASSUME NEW r \in Request, InviteCreate(r) PROVE invitation'[i] = invitation[i]
      <4>1. PICK k \in Invitation :
               /\ invitation'[k] = [to |-> req[r].who, by |-> req[r].by, status |-> "PENDING",
                                    acceptedBy |-> Nobody]
               /\ \A j \in Invitation : j # k => invitation'[j] = invitation[j]
        BY <3>4, Creating
      <4>2. QED
        BY <2>1, <4>1
    <3>5. ASSUME NEW r \in Request, Takes(r) PROVE invitation'[i] = invitation[i]
      BY <2>1, <3>5, TakingIs
    <3>6. QED
      BY <3>1, <3>2, <3>3, <3>4, <3>5, InvitationsChange DEF Takes
  <2>2. QED
    BY <1>3, <1>4, <2>1
<1>5. ASSUME NEW r \in Request, Takes(r)
      PROVE  /\ \A i \in Invitation :
                  invitation'[i].status = "REVOKED" => invitation'[i].acceptedBy = Nobody
             /\ \A q \in Request : req'[q].at # "revoke"
  <2>1. \A i \in Invitation : invitation'[i].status = "REVOKED" => invitation'[i].acceptedBy = Nobody
    BY <1>2, <1>5, TakingIs
  <2>2. \A q \in Request : req'[q].at # "revoke"
    BY <1>1, <1>3, <1>5, TakingIs, ApartMeans
  <2>3. QED
    BY <2>1, <2>2
<1>6. QED
  BY <1>4, <1>5, <1>3, AcceptanceChanges

\* No revocation overlaps with a login: what is revoked made nobody
\* administrator.
THEOREM RevokedIsVoid == AccountsSpec => []RevokedGaveNothing
<1>1. AccountsInit => Unrevoked /\ Apart("revocations")
  BY ApartInit, IdleIs DEF AccountsInit, Unrevoked, RevokedGaveNothing
<1>2. Sound /\ Unrevoked /\ Apart("revocations") /\ [AccountsNext]_accountVars
        => Unrevoked' /\ Apart("revocations")'
  BY UnrevokedStep, ApartStep DEF Sound
<1>3. Unrevoked => RevokedGaveNothing
  BY DEF Unrevoked, RevokedGaveNothing
<1>4. QED
  BY AlwaysSound, <1>1, <1>2, <1>3, PTL DEF AccountsSpec
-----------------------------------------------------------------------------
\* What Once says of one person.
OnceFor(p) ==
  /\ \A i, j \in Accepted(p) : i = j
  /\ promoted[p] \in {0, 1}
  /\ promoted[p] = 1 => Accepted(p) # {}
  /\ role[p] = "none" => Accepted(p) = {}
  /\ \A r \in Request : req[r].at = "accept" /\ req[r].who = p =>
       invitation[req[r].inv].acceptedBy = Nobody

LEMMA OnceIsForAll == Once <=> ("logins" \notin crossed => \A p \in Person : OnceFor(p))
  BY DEF Once, OnceFor

\* Who takes an invitation had accepted none.
LEMMA TakesFirst ==
  ASSUME Sound, NEW r \in Request, Takes(r), OnceFor(req[r].who)
  PROVE  Accepted(req[r].who) = {}
<1> DEFINE p == req[r].who
<1>1. CASE LoginAccept(r)
  <2>1. Accepted(p) \subseteq {req[r].inv} /\ req[r].inv \notin Accepted(p)
    BY <1>1, TakingIs, NobodyIsNoPerson DEF LoginAccept, MayAccept, OnceFor, Accepted
  <2>2. QED
    BY <2>1
<1>2. CASE LoginCommit(r)
  BY <1>2 DEF LoginCommit, OnceFor
<1>3. QED
  BY <1>1, <1>2 DEF Takes

LEMMA OnceStep ==
  ASSUME Sound, Apart("logins"), Once, [AccountsNext]_accountVars
  PROVE  Once'
<1> SUFFICES ASSUME "logins" \notin crossed', NEW p \in Person
             PROVE  OnceFor(p)'
  BY OnceIsForAll DEF Once, OnceFor
<1> USE DEF Sound
<1>1. "logins" \notin crossed
  BY CrossedGrows
<1>2. \A q \in Person : OnceFor(q)
  BY <1>1, OnceIsForAll
<1>3. role'[p] = "none" => role[p] = "none"
  BY RolesChange
<1>4. ASSUME NEW q \in Request, req'[q].at = "accept", req'[q].who = p
      PROVE  /\ req'[q].inv \in Invitation
             /\ invitation[req'[q].inv].to = p
             /\ invitation[req'[q].inv].acceptedBy = Nobody
             /\ req[q].op = "login" /\ req[q].who = p
  <2>1. CASE req'[q] = req[q]
    <3>1. req[q].inv \in Invitation /\ req[q].op = "login"
      BY <1>4, <2>1, Holds, OpAt
    <3>2. QED
      BY <1>2, <1>4, <2>1, <3>1 DEF OnceFor, Addressed
  <2>2. CASE LoginFindInvitation(q) /\ \E i \in PendingFor(req[q].who) : MoveWith(q, "accept", i)
    <3>1. PICK i \in PendingFor(req[q].who) : MoveWith(q, "accept", i)
      BY <2>2
    <3>2. i \in Invitation /\ invitation[i].to = req[q].who /\ invitation[i].status = "PENDING"
      BY DEF PendingFor
    <3>3. req[q].op = "login" /\ req'[q].inv = i /\ req'[q].who = req[q].who
      BY <2>2, <3>1, OpAt, MovedWith DEF LoginFindInvitation
    <3>4. QED
      BY <1>4, <3>2, <3>3 DEF Addressed
  <2>3. QED
    BY <1>4, <2>1, <2>2, StageEntered DEF Entered
<1>5. CASE /\ \A i \in Invitation : invitation'[i].acceptedBy = invitation[i].acceptedBy
           /\ UNCHANGED promoted
  <2>1. Accepted(p)' = Accepted(p)
    BY <1>5 DEF Accepted
  <2>2. QED
    BY <1>2, <1>3, <1>4, <1>5, <2>1 DEF OnceFor
<1>6. ASSUME NEW r \in Request, Takes(r) PROVE OnceFor(p)'
  <2>1. CASE p = req[r].who
    <3>1. Accepted(p) = {}
      BY <1>2, <1>6, <2>1, TakesFirst
    <3>2. Accepted(p)' = {req[r].inv}
      BY <1>6, <2>1, <3>1, TakingIs DEF Accepted
    <3>3. promoted[p] = 0 /\ promoted'[p] \in {0, 1}
      BY <1>2, <1>6, <2>1, <3>1, TakingIs DEF OnceFor, Promote, Shape
    <3>4. role'[p] = "ADMIN"
      BY <1>6, <2>1, TakingIs DEF Promote, Shape
    <3>5. \A q \in Request : ~(req'[q].at = "accept" /\ req'[q].who = p)
      BY <1>1, <1>4, <1>6, <2>1, TakingIs, ApartMeans
    <3>6. QED
      BY <3>2, <3>3, <3>4, <3>5 DEF OnceFor
  <2>2. CASE p # req[r].who
    <3>1. Accepted(p)' = Accepted(p)
      <4>1. invitation[req[r].inv].acceptedBy # p
        BY <1>6, <2>2, TakingIs, NobodyIsNoPerson DEF Addressed
      <4>2. QED
        BY <1>6, <2>2, <4>1, TakingIs DEF Accepted
    <3>2. promoted'[p] = promoted[p]
      BY <1>6, <2>2, TakingIs DEF Promote, Shape
    <3>3. \A q \in Request : req'[q].at = "accept" /\ req'[q].who = p =>
            invitation'[req'[q].inv].acceptedBy = Nobody
      BY <1>4, <1>6, <2>2, TakingIs
    <3>4. QED
      BY <1>2, <1>3, <3>1, <3>2, <3>3 DEF OnceFor
  <2>3. QED
    BY <2>1, <2>2
<1>7. QED
  BY <1>5, <1>6, AcceptanceChanges, RolesChange

LEMMA OnceMeans == Sound /\ Once => PromotedOncePerInvitation
<1> SUFFICES ASSUME Once, "logins" \notin crossed, NEW p \in Person
             PROVE  promoted[p] <= Cardinality(Accepted(p))
  BY DEF PromotedOncePerInvitation
<1>1. OnceFor(p)
  BY OnceIsForAll
<1>2. CASE Accepted(p) = {}
  BY <1>1, <1>2, FS_EmptySet DEF OnceFor
<1>3. ASSUME NEW i \in Accepted(p) PROVE promoted[p] <= Cardinality(Accepted(p))
  <2>1. Accepted(p) = {i}
    BY <1>1 DEF OnceFor
  <2>2. Cardinality(Accepted(p)) = 1
    BY <2>1, FS_Singleton
  <2>3. QED
    BY <1>1, <2>2 DEF OnceFor
<1>4. QED
  BY <1>2, <1>3

LEMMA AlwaysOnce == AccountsSpec => [](Once /\ Apart("logins"))
<1>1. AccountsInit => Once /\ Apart("logins")
  BY ApartInit, IdleIs, FoundersExist DEF AccountsInit, Once, Accepted
<1>2. Sound /\ Once /\ Apart("logins") /\ [AccountsNext]_accountVars
        => Once' /\ Apart("logins")'
  BY OnceStep, ApartStep DEF Sound
<1>3. QED
  BY AlwaysSound, <1>1, <1>2, PTL DEF AccountsSpec

\* Who was made administrator by an invitation is not made administrator by it
\* again, as long as no two logins of a person overlap.
THEOREM PromotedOnce == AccountsSpec => []PromotedOncePerInvitation
  BY AlwaysSound, AlwaysOnce, OnceMeans, PTL
-----------------------------------------------------------------------------
\* What Settled says of a person who accepted an invitation.
SettledFor(p) ==
  /\ role[p] = "ADMIN"
  /\ PendingFor(p) = {}
  /\ \A r \in Request : req[r].who = p =>
       /\ req[r].at \notin {"pending", "create", "accept"}
       /\ req[r].at = "commit" => req[r].inv = NoInvitation

LEMMA SettledStep ==
  ASSUME Sound, Apart("invites"), Apart("logins"), Single, Once, Settled,
         [AccountsNext]_accountVars
  PROVE  Settled'
<1> SUFFICES ASSUME crossed' \cap {"invites", "logins"} = {} PROVE
      /\ shutOut' \subseteq demoted'
      /\ \A p \in Person : p \notin demoted' /\ Accepted(p)' # {} => SettledFor(p)'
      /\ \A q \in Request, p \in Person :
           req'[q].at \in {"accept", "commit"} /\ req'[q].inv # NoInvitation /\ req'[q].who = p =>
             PendingFor(p)' \subseteq {req'[q].inv}
  <2>1. \A q \in Request : req'[q].at \in {"accept", "commit"} => req'[q].who \in Person
    BY ShapeStep DEF Sound, Shape, AnyReq, Idle, InviteReq, RevokeReq, RemoveReq, LoginReq,
       AcceptReq, LateReq
  <2>2. QED
    BY <2>1 DEF Settled, SettledFor, OnlyDemotedAreShutOut
<1> USE DEF Sound
<1>1. "logins" \notin crossed /\ "invites" \notin crossed
  BY CrossedGrows
<1>2. /\ shutOut \subseteq demoted
      /\ \A p \in Person : p \notin demoted /\ Accepted(p) # {} => SettledFor(p)
      /\ \A q \in Request : req[q].at \in {"accept", "commit"} /\ req[q].inv # NoInvitation =>
           PendingFor(req[q].who) \subseteq {req[q].inv}
  BY <1>1 DEF Settled, SettledFor, OnlyDemotedAreShutOut
<1>3. /\ \A p \in Person : \A i, j \in PendingFor(p) : i = j
      /\ \A p \in Person : OnceFor(p)
  BY <1>1, OnceIsForAll DEF Single
<1>4. demoted \subseteq demoted'
  BY ArrivalIs DEF Arrived, AccountsNext, accountVars, rows, history, AdminStep, InviteCheckAdmin,
     InviteCheckPending, InviteCreate, RevokeRead, RevokeWrite, RemoveRead, RemoveCount,
     RemoveWrite, LoginStep, LoginFindAccount, LoginFindUser, LoginLink, LoginFindInvitation,
     LoginAccept, LoginAcceptRefused, LoginIssue, LoginReadRoster, LoginRegister, LoginCommit,
     CutShort, LoginInternal, Logout
<1>5. shutOut' \subseteq demoted'
  <2>1. ASSUME NEW r \in Request, LoginAcceptRefused(r) PROVE shutOut' \subseteq demoted'
    <3>1. req[r].who \in Person /\ Accepted(req[r].who) # {} /\ req[r].at = "accept"
      BY <2>1, Holds, OpAt DEF LoginAcceptRefused, MayAccept
    <3>2. req[r].who \in demoted
      BY <1>2, <3>1 DEF SettledFor
    <3>3. QED
      BY <1>2, <1>4, <2>1, <3>2 DEF LoginAcceptRefused
  <2>2. UNCHANGED shutOut \/ \E r \in Request : LoginAcceptRefused(r)
    BY ArrivalIs DEF Arrived, AccountsNext, accountVars, rows, history, AdminStep,
       InviteCheckAdmin, InviteCheckPending, InviteCreate, RevokeRead, RevokeWrite, RemoveRead,
       RemoveCount, RemoveWrite, LoginStep, LoginFindAccount, LoginFindUser, LoginLink,
       LoginFindInvitation, LoginAccept, LoginIssue, LoginReadRoster, LoginRegister, LoginCommit,
       CutShort, LoginInternal, Logout
  <2>3. QED
    BY <1>2, <1>4, <2>1, <2>2

<1>6. ASSUME NEW p \in Person, p \notin demoted', Accepted(p)' # {} PROVE SettledFor(p)'
  <2>1. CASE Accepted(p) = {}
    <3>1. PICK r \in Request : Takes(r)
      BY <1>6, <2>1, AcceptanceChanges DEF Accepted
    <3>2. p = req[r].who
      BY <1>6, <2>1, <3>1, TakingIs DEF Accepted
    <3>3. role'[p] = "ADMIN"
      BY <3>1, <3>2, TakingIs DEF Promote, Shape
    <3>4. PendingFor(p)' = {}
      <4>1. PendingFor(p) \subseteq {req[r].inv}
        BY <1>2, <3>1, <3>2, TakingIs, NobodyIsNoPerson
      <4>2. QED
        BY <3>1, <4>1, TakingIs DEF PendingFor
    <3>5. ASSUME NEW q \in Request, req'[q].who = p
          PROVE  req'[q].at \notin {"pending", "create", "accept", "commit"}
      <4>1. CASE q = r
        BY <3>1, <4>1, TakingIs
      <4>2. CASE q # r
        BY <1>1, <3>1, <3>2, <3>5, <4>2, TakingIs, ApartMeans, OpAt
      <4>3. QED
        BY <4>1, <4>2
    <3>6. QED
      BY <3>3, <3>4, <3>5 DEF SettledFor
  <2>2. CASE Accepted(p) # {}
    <3>0. SettledFor(p)
      BY <1>2, <1>4, <1>6, <2>2
    <3>1. role'[p] = "ADMIN"
      <4>1. ASSUME NEW r \in Request, RemoveWrite(r) PROVE req[r].who # p
        BY <1>6, <4>1 DEF RemoveWrite
      <4>2. QED
        BY <3>0, <4>1, AdminsStay DEF SettledFor, Admins
    <3>2. PendingFor(p)' = {}
      <4>1. ASSUME NEW r \in Request, InviteCreate(r) PROVE req[r].who # p
        BY <3>0, <4>1 DEF SettledFor, InviteCreate
      <4>2. QED
        BY <3>0, <4>1, PendingChanges DEF SettledFor
    <3>3. ASSUME NEW q \in Request, req'[q].who = p
          PROVE  /\ req'[q].at \notin {"pending", "create", "accept"}
                 /\ req'[q].at = "commit" => req'[q].inv = NoInvitation
      <4>1. CASE req'[q] = req[q]
        BY <3>0, <3>3, <4>1 DEF SettledFor
      <4>2. CASE \E s : MoveTo(q, s)
        <5>1. req[q].who = p /\ req'[q].inv = req[q].inv
          BY <3>3, <4>2, Moved
        <5>2. ASSUME InviteCheckAdmin(q) PROVE req'[q].at # "pending"
          BY <3>0, <5>1, <5>2, Ended, IdleIs DEF InviteCheckAdmin, SettledFor
        <5>3. ASSUME InviteCheckPending(q) PROVE FALSE
          BY <3>0, <5>1, <5>3 DEF InviteCheckPending, SettledFor
        <5>4. ASSUME LoginFindInvitation(q) \/ LoginRegister(q) PROVE req'[q].inv = NoInvitation
          BY <5>1, <5>4, OpAt DEF LoginFindInvitation, LoginRegister
        <5>5. ASSUME LoginFindInvitation(q) PROVE req'[q].at # "accept"
          <6>1. PendingFor(req[q].who) = {}
            BY <3>0, <5>1 DEF SettledFor
          <6>2. ~ \E i \in PendingFor(req[q].who) : MoveWith(q, "accept", i)
            BY <6>1
          <6>3. MoveTo(q, "issue")
            BY <5>5, <6>2 DEF LoginFindInvitation
          <6>4. req'[q].at = "issue"
            BY <6>3, Moved
          <6>5. QED
            BY <6>4
        <5>6. QED
          BY <3>0, <3>3, <5>1, <5>2, <5>3, <5>4, <5>5, StageEntered DEF Entered, SettledFor
      <4>3. CASE \E s : \E i \in PendingFor(req[q].who) : MoveWith(q, s, i)
        BY <3>0, <3>3, <4>3, MovedWith DEF SettledFor
      <4>4. QED
        BY <4>1, <4>2, <4>3, StageEntered DEF Entered
    <3>4. QED
      BY <3>1, <3>2, <3>3 DEF SettledFor
  <2>3. QED
    BY <2>1, <2>2
<1>7. ASSUME NEW q \in Request, NEW p \in Person, req'[q].at \in {"accept", "commit"},
             req'[q].inv # NoInvitation, req'[q].who = p
      PROVE  PendingFor(p)' \subseteq {req'[q].inv}
  <2>1. CASE req'[q] = req[q]
    <3>1. PendingFor(p) \subseteq {req'[q].inv}
      BY <1>2, <1>7, <2>1
    <3>2. ASSUME NEW r \in Request, InviteCreate(r) PROVE p # req[r].who
      <4>1. r # q /\ req[q].op = "login" /\ req[r].op = "invite"
        BY <1>7, <2>1, <3>2, OpAt DEF InviteCreate
      <4>2. QED
        BY <1>1, <1>7, <2>1, <4>1, ApartMeans
    <3>3. QED
      BY <3>1, <3>2, PendingChanges
  <2>2. CASE LoginFindInvitation(q) \/ LoginRegister(q)
    <3>1. PICK s, i : i \in PendingFor(req[q].who) /\ MoveWith(q, s, i)
      <4>1. ASSUME NEW s, MoveTo(q, s) PROVE FALSE
        BY <1>7, <2>2, <4>1, Moved, OpAt DEF LoginFindInvitation, LoginRegister
      <4>2. QED
        BY <2>2, <4>1 DEF LoginFindInvitation, LoginRegister
    <3>2. req'[q].inv = i /\ req[q].who = p
      BY <1>7, <3>1, MovedWith
    <3>3. PendingFor(p)' = PendingFor(p)
      BY <2>2 DEF LoginFindInvitation, LoginRegister, rows, PendingFor
    <3>4. QED
      BY <1>3, <3>1, <3>2, <3>3
  <2>3. QED
    BY <1>7, <2>1, <2>2, StageEntered DEF Entered
<1>8. QED
  BY <1>5, <1>6, <1>7

\* Only who was removed can be shut out by the unique acceptance, as long as
\* requests about a name do not overlap.
THEOREM ShutOutWereDemoted == AccountsSpec => []OnlyDemotedAreShutOut
<1>1. AccountsInit => Settled
  BY IdleIs DEF AccountsInit, Settled, OnlyDemotedAreShutOut, Accepted
<1>2. Settled => OnlyDemotedAreShutOut
  BY DEF Settled, OnlyDemotedAreShutOut
<1>3. Sound /\ Apart("invites") /\ Apart("logins") /\ Single /\ Once /\ Settled
        /\ [AccountsNext]_accountVars => Settled'
  BY SettledStep
<1>4. QED
  BY AlwaysSound, AlwaysSingle, AlwaysOnce, <1>1, <1>2, <1>3, PTL DEF AccountsSpec
=============================================================================
