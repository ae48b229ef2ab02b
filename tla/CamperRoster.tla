---------------------------- MODULE CamperRoster ----------------------------
(***************************************************************************)
(* The campers of an organization                                          *)
(* (backend/src/organizations/organizations.service.ts).  A row of         *)
(* CamperPreRegistration invites a GitHub name; CamperOrganization holds   *)
(* the members.  Both are written by the administrators and by the first   *)
(* login of whoever is invited (auth.service.ts:116-171), and nothing in   *)
(* the database ties them to each other.                                   *)
(*                                                                         *)
(* One organization is modelled: no query but that of a login reaches      *)
(* across.  A name is spelled as GitHub spells it or not: the roster       *)
(* compares names exactly, a login does not.  Names of persons, tracks and *)
(* groups are payload.                                                     *)
(***************************************************************************)
EXTENDS Accounts, SequencesExt

CONSTANTS
  Camper,          \* camper ids, such as J283
  RosterRow,       \* identities of rows of CamperPreRegistration
  Entry, Sheet,    \* the entries that may be sent, the sheets that may be uploaded
  SlackAccount,
  Task,            \* slots of concurrent requests about the roster
  NoCamper, NoRow, NoAccount,
  Budgets          \* bounds: how many requests of each kind a behaviour has

ASSUME RosterNulls == NoCamper \notin Camper \cup Person /\ Nobody \notin Camper
                      /\ NoRow \notin RosterRow /\ NoAccount \notin SlackAccount
ASSUME BudgetsAreBounds ==
  Budgets \subseteq [admin : 0..MaxRequests, login : 0..MaxRequests, tasks : Nat]

VARIABLES
  roster,       \* CamperPreRegistration
  member,       \* CamperOrganization.camperId of each member
  slack,        \* CamperOrganization.slackMemberId of each member
  found,        \* the rows that each login read as its own, with their camper ids
  task,         \* the requests about the roster
  tasksLeft,    \* how many of them may still come
  disturbed,    \* history: what may have separated the two tables
  refused       \* history: whose first login failed on the memberships

tables == <<roster, member, slack>>
rosterHistory == <<tasksLeft, disturbed, refused>>
rosterVars == <<tables, found, task, rosterHistory>>
vars == <<accountVars, rosterVars>>

Name == [of : Person, exact : BOOLEAN]
ASSUME EntriesAreRows ==
  /\ Entry \subseteq [camper : Camper, name : Name]
  /\ Sheet \subseteq Seq([camper : Camper, name : Name])
NoEntry == [camper |-> NoCamper, name |-> [of |-> Nobody, exact |-> TRUE]]
Unused == [camper |-> NoCamper, name |-> NoEntry.name, status |-> "unused", claimedBy |-> Nobody]
Rest == [at |-> "idle", entry |-> NoEntry, row |-> NoRow, was |-> Unused,
         sheet |-> <<>>, users |-> {}, who |-> Nobody, account |-> NoAccount]

RowType == [camper : Camper \cup {NoCamper},
            name : Name \cup {NoEntry.name},
            status : {"unused", "INVITED", "CLAIMED", "REVOKED"},
            claimedBy : Person \cup {Nobody}]

TypeOK ==
  /\ AccountsTypeOK
  /\ roster \in [RosterRow -> RowType]
  /\ member \in [Person -> Camper \cup {NoCamper}]
  /\ slack \in [Person -> SlackAccount \cup {NoAccount}]
  /\ found \in [Request -> SUBSET [row : RosterRow, camper : Camper]]
  /\ task \in [Task ->
       [at : {"idle", "check", "upsert", "user", "claim", "conflict", "write",
              "member", "remove", "delete", "sheet", "commit", "profile", "slack"},
        entry : Entry \cup {NoEntry}, row : RosterRow \cup {NoRow}, was : RowType,
        sheet : Sheet \cup {<<>>}, users : SUBSET Person,
        who : Person \cup {Nobody}, account : SlackAccount \cup {NoAccount}]]
  /\ tasksLeft \in Nat
  /\ disturbed \subseteq {"overlap", "died", "spelling", "rename", "reassignment", "profiles"}
  /\ refused \subseteq Person

RosterInit ==
  /\ roster = [n \in RosterRow |-> Unused]
  /\ member = [p \in Person |-> NoCamper]
  /\ slack = [p \in Person |-> NoAccount]
  /\ found = [r \in Request |-> {}]
  /\ task = [t \in Task |-> Rest]
  /\ \E b \in Budgets : left = [k \in {"admin", "login"} |-> b[k]] /\ tasksLeft = b.tasks
  /\ disturbed = {}
  /\ refused = {}

Init == AccountsInit /\ RosterInit

Active == {n \in RosterRow : roster[n].status \in {"INVITED", "CLAIMED"}}
RowsOf(c) == {n \in RosterRow : roster[n].status # "unused" /\ roster[n].camper = c}
Members == {p \in Person : member[p] # NoCamper}
Holders(c) == {p \in Person : member[p] = c}
Registered == {p \in Person : role[p] # "none"}

\* User.findUnique by the name as it is spelled.
UserNamed(name) == {p \in Registered : name = [of |-> p, exact |-> TRUE]}
-----------------------------------------------------------------------------
(* What a request is about: the camper ids and the persons it may touch.   *)

\* Between the two writes of updateCamper the membership has the old camper id.
OfRow(row) == {row.camper, row.name.of, row.claimedBy}
              \cup {member[p] : p \in {row.claimedBy} \ {Nobody}}
OfEntry(e) == {e.camper, e.name.of}
OfSheet(s) == UNION {OfEntry(e) : e \in ToSet(s)}
About(record) ==
  OfEntry(record.entry) \cup OfSheet(record.sheet)
  \cup (IF record.row = NoRow THEN {} ELSE OfRow(roster[record.row]))

\* What two requests that run together may spoil.
Clashes(subjects) ==
  {c \in {"overlap"} :
     \/ \E t \in Task : (subjects \cap About(task[t])) \ {NoCamper, Nobody} # {}
     \/ \E r \in Request : req[r].op = "login" /\ req[r].who \in subjects}

\* What the arrival of an entry tells about it: another spelling, or one of
\* the camper id and the name already used by an active row without the other.
Strains(entry) ==
  (IF entry.name.exact \/ entry = NoEntry THEN {} ELSE {"spelling"})
  \cup (IF \E n \in Active : (roster[n].camper = entry.camper) # (roster[n].name = entry.name)
        THEN {"reassignment"} ELSE {})

Disturb(causes, subjects) == disturbed' = disturbed \cup causes \cup Clashes(subjects)

TaskBegin(t, record, causes) ==
  /\ task[t] = Rest
  /\ tasksLeft > 0
  /\ tasksLeft' = tasksLeft - 1
  /\ task' = [task EXCEPT ![t] = record]
  /\ Disturb(causes, About(record))
  /\ UNCHANGED <<accountVars, tables, found, refused>>

TaskTo(t, stage) == task' = [task EXCEPT ![t].at = stage]
TaskEnd(t) == task' = [task EXCEPT ![t] = Rest]

TaskDies(t) ==
  /\ task[t] # Rest
  /\ TaskEnd(t)
  /\ disturbed' = disturbed \cup {"died"}
  /\ UNCHANGED <<accountVars, tables, found, tasksLeft, refused>>

ByAdmin == \E p \in Person : MayAdminister(p)
-----------------------------------------------------------------------------
(* createCamper *)

CreateBegin(t, entry) ==
  /\ ByAdmin
  /\ TaskBegin(t, [Rest EXCEPT !.at = "check", !.entry = entry],
               Strains(entry) \ {"reassignment"})

\* Variant: the check looks at the camper id only.
CreateCheckByCamper(t) ==
  /\ task[t].at = "check"
  /\ IF \E n \in Active : roster[n].camper = task[t].entry.camper
     THEN TaskEnd(t) ELSE TaskTo(t, "upsert")
  /\ UNCHANGED <<accountVars, tables, found, rosterHistory>>

CreateCheck(t) ==
  /\ task[t].at = "check"
  /\ IF \E n \in Active : \/ roster[n].camper = task[t].entry.camper
                          \/ roster[n].name = task[t].entry.name
     THEN TaskEnd(t) ELSE TaskTo(t, "upsert")
  /\ UNCHANGED <<accountVars, tables, found, rosterHistory>>

\* An upsert keeps claimedUserId of the row it finds.
Invited(old, entry) ==
  [old EXCEPT !.camper = entry.camper, !.name = entry.name, !.status = "INVITED"]

\* The row an upsert by camper id writes: that of the camper, or a new one.
UpsertTarget(table, c) ==
  LET old == {n \in RosterRow : table[n].status # "unused" /\ table[n].camper = c}
  IN IF old # {} THEN old ELSE {n \in RosterRow : table[n].status = "unused"}

CreateUpsert(t) ==
  /\ task[t].at = "upsert"
  /\ \E n \in UpsertTarget(roster, task[t].entry.camper) :
       /\ roster' = [roster EXCEPT ![n] = Invited(@, task[t].entry)]
       /\ task' = [task EXCEPT ![t].at = "user", ![t].row = n]
  /\ UNCHANGED <<accountVars, member, slack, found, rosterHistory>>

\* Variant: whether the camper has an account already is not asked.
CreateFindNobody(t) ==
  /\ task[t].at = "user"
  /\ TaskEnd(t)
  /\ UNCHANGED <<accountVars, tables, found, rosterHistory>>

CreateFindUser(t) ==
  /\ task[t].at = "user"
  /\ IF UserNamed(task[t].entry.name) = {} THEN TaskEnd(t) ELSE TaskTo(t, "claim")
  /\ UNCHANGED <<accountVars, tables, found, rosterHistory>>

\* The camper id of a member is unique in the organization: the transaction
\* fails when somebody else holds it, which TaskDies stands for.
CreateClaim(t) ==
  LET p == task[t].entry.name.of
  IN /\ task[t].at = "claim"
     /\ Holders(task[t].entry.camper) \subseteq {p}
     /\ member' = [member EXCEPT ![p] = task[t].entry.camper]
     /\ roster' = [roster EXCEPT ![task[t].row].status = "CLAIMED",
                                 ![task[t].row].claimedBy = p]
     /\ TaskEnd(t)
     /\ UNCHANGED <<accountVars, slack, found, rosterHistory>>
-----------------------------------------------------------------------------
(* updateCamper *)

UpdateBegin(t, n, entry) ==
  /\ ByAdmin
  /\ roster[n].status # "unused"
  /\ TaskBegin(t, [Rest EXCEPT !.at = "conflict", !.row = n, !.entry = entry],
               (Strains(entry) \ {"reassignment"})
               \cup (IF entry.name = roster[n].name THEN {} ELSE {"rename"}))

UpdateCheck(t) ==
  /\ task[t].at = "conflict"
  /\ IF \E n \in Active \ {task[t].row} :
          \/ roster[n].camper = task[t].entry.camper
          \/ roster[n].name = task[t].entry.name
     THEN TaskEnd(t) ELSE TaskTo(t, "write")
  /\ UNCHANGED <<accountVars, tables, found, rosterHistory>>

\* A revoked row still owns its camper id.
UpdateWrite(t) ==
  LET n == task[t].row
      new == [roster[n] EXCEPT !.camper = task[t].entry.camper, !.name = task[t].entry.name]
  IN /\ task[t].at = "write"
     /\ RowsOf(task[t].entry.camper) \subseteq {n}
     /\ roster' = [roster EXCEPT ![n] = new]
     /\ IF new.status = "CLAIMED" /\ new.claimedBy # Nobody
        THEN task' = [task EXCEPT ![t].at = "member", ![t].was = new]
        ELSE TaskEnd(t)
     /\ UNCHANGED <<accountVars, member, slack, found, rosterHistory>>

\* Variant: the membership keeps the old camper id.
UpdateMemberSkipped(t) ==
  /\ task[t].at = "member"
  /\ TaskEnd(t)
  /\ UNCHANGED <<accountVars, tables, found, rosterHistory>>

UpdateMember(t) ==
  LET p == task[t].was.claimedBy
  IN /\ task[t].at = "member"
     /\ p \in Members
     /\ Holders(task[t].entry.camper) \subseteq {p}
     /\ member' = [member EXCEPT ![p] = task[t].entry.camper]
     /\ TaskEnd(t)
     /\ UNCHANGED <<accountVars, roster, slack, found, rosterHistory>>
-----------------------------------------------------------------------------
(* removeCamper *)

RemoveCamperBegin(t, n) ==
  /\ ByAdmin
  /\ roster[n].status # "unused"
  /\ TaskBegin(t, [Rest EXCEPT !.at = "remove", !.row = n], {})

RemoveCamperRead(t) ==
  /\ task[t].at = "remove"
  /\ task' = [task EXCEPT ![t].at = "delete", ![t].was = roster[task[t].row]]
  /\ UNCHANGED <<accountVars, tables, found, rosterHistory>>

\* Variant: the Slack account is cleared with the wrong null.
RemoveCamperWrongNull(t) ==
  LET old == task[t].was
      leaves == old.status = "CLAIMED" /\ old.claimedBy # Nobody
  IN /\ task[t].at = "delete"
     /\ leaves => old.claimedBy \in Members
     /\ roster' = [roster EXCEPT ![task[t].row].status = "REVOKED"]
     /\ IF leaves
        THEN /\ member' = [member EXCEPT ![old.claimedBy] = NoCamper]
             /\ slack' = [slack EXCEPT ![old.claimedBy] = Nobody]
        ELSE UNCHANGED <<member, slack>>
     /\ TaskEnd(t)
     /\ UNCHANGED <<accountVars, found, tasksLeft, disturbed, refused>>

\* Whether a membership goes is decided by what the row was when it was read;
\* a membership that is not there fails the transaction (TaskDies).
RemoveCamperWrite(t) ==
  LET old == task[t].was
      leaves == old.status = "CLAIMED" /\ old.claimedBy # Nobody
  IN /\ task[t].at = "delete"
     /\ leaves => old.claimedBy \in Members
     /\ roster' = [roster EXCEPT ![task[t].row].status = "REVOKED"]
     /\ IF leaves
        THEN /\ member' = [member EXCEPT ![old.claimedBy] = NoCamper]
             /\ slack' = [slack EXCEPT ![old.claimedBy] = NoAccount]
        ELSE UNCHANGED <<member, slack>>
     /\ TaskEnd(t)
     /\ UNCHANGED <<accountVars, found, tasksLeft, disturbed, refused>>
-----------------------------------------------------------------------------
(* uploadCampers: one transaction over the lines of a sheet.  The users are *)
(* read first.                                                              *)

UploadBegin(t, sheet) ==
  /\ ByAdmin
  /\ TaskBegin(t, [Rest EXCEPT !.at = "sheet", !.sheet = sheet],
       (UNION {Strains(e) : e \in ToSet(sheet)})
       \cup (IF \E j, k \in DOMAIN sheet :
                  (sheet[j].camper = sheet[k].camper) # (sheet[j].name = sheet[k].name)
             THEN {"reassignment"} ELSE {}))

UploadReadUsers(t) ==
  /\ task[t].at = "sheet"
  /\ task' = [task EXCEPT ![t].at = "commit",
       ![t].users = UNION {UserNamed(task[t].sheet[k].name) : k \in DOMAIN task[t].sheet}]
  /\ UNCHANGED <<accountVars, tables, found, rosterHistory>>

\* One line of the sheet, on the tables as the lines before it left them.
UploadLine(users, entry, at) ==
  LET n == CHOOSE m \in UpsertTarget(at.roster, entry.camper) : TRUE
      p == entry.name.of
      row == Invited(at.roster[n], entry)
  IN IF ~at.ok \/ UpsertTarget(at.roster, entry.camper) = {}
     THEN [at EXCEPT !.ok = FALSE]
     ELSE IF ~entry.name.exact \/ p \notin users
     THEN [at EXCEPT !.roster[n] = row]
     ELSE [ok |-> \A q \in Person \ {p} : at.member[q] # entry.camper,
           roster |-> [at.roster EXCEPT ![n] = [row EXCEPT !.status = "CLAIMED", !.claimedBy = p]],
           member |-> [at.member EXCEPT ![p] = entry.camper]]

UploadCommit(t) ==
  LET lines == Len(task[t].sheet)
      after[k \in 0..lines] ==
        IF k = 0 THEN [ok |-> TRUE, roster |-> roster, member |-> member]
        ELSE UploadLine(task[t].users, task[t].sheet[k], after[k - 1])
  IN /\ task[t].at = "commit"
     /\ after[lines].ok
     /\ roster' = after[lines].roster
     /\ member' = after[lines].member
     /\ TaskEnd(t)
     /\ UNCHANGED <<accountVars, slack, found, rosterHistory>>
-----------------------------------------------------------------------------
(* updateMyCamperProfile: a member names a Slack account, once.  Slack is   *)
(* asked between the check and the write.                                   *)

ProfileBegin(t, p, account) ==
  /\ token[p] # "none"
  /\ TaskBegin(t, [Rest EXCEPT !.at = "profile", !.who = p, !.account = account],
       IF \E u \in Task : task[u].at \in {"profile", "slack"} /\ task[u].who = p
       THEN {"profiles"} ELSE {})

\* Variant: a Slack account may be replaced.
ProfileReadLax(t) ==
  /\ task[t].at = "profile"
  /\ IF task[t].who \in Members THEN TaskTo(t, "slack") ELSE TaskEnd(t)
  /\ UNCHANGED <<accountVars, tables, found, rosterHistory>>

ProfileRead(t) ==
  /\ task[t].at = "profile"
  /\ IF task[t].who \in Members /\ slack[task[t].who] = NoAccount
     THEN TaskTo(t, "slack") ELSE TaskEnd(t)
  /\ UNCHANGED <<accountVars, tables, found, rosterHistory>>

ProfileWrite(t) ==
  /\ task[t].at = "slack"
  /\ task[t].who \in Members
  /\ slack' = [slack EXCEPT ![task[t].who] = task[t].account]
  /\ TaskEnd(t)
  /\ UNCHANGED <<accountVars, roster, member, found, rosterHistory>>
-----------------------------------------------------------------------------
(* The part of the roster in a first login. *)

RosterAtLogin(r, p) ==
  /\ LoginBegin(r, p)
  /\ Disturb({}, {p})
  /\ UNCHANGED <<tables, found, task, tasksLeft, refused>>

\* The rows that invite p, as a login reads them.
OwnRows(table, p) ==
  {[row |-> n, camper |-> table[n].camper] :
     n \in {m \in RosterRow : table[m].status = "INVITED" /\ table[m].name.of = p}}

ReadInvited(r) ==
  /\ LoginReadRoster(r)
  /\ found' = [found EXCEPT ![r] = OwnRows(roster, req[r].who)]
  /\ UNCHANGED <<tables, task, rosterHistory>>

\* createMany gives one membership to each row: more than one row, or a camper
\* id that somebody holds, fails the transaction.
ClaimPossible(claims) ==
  /\ \A x, y \in claims : x = y
  /\ \A x \in claims : Holders(x.camper) = {}

\* The membership takes the camper id that was read before the transaction; the
\* rows that were read are claimed by id, whatever they say by now.
ClaimAtLogin(r) ==
  LET p == req[r].who
      claims == found[r]
  IN /\ LoginCommit(r)
     /\ ClaimPossible(claims)
     /\ roster' = [n \in RosterRow |-> IF \E x \in claims : x.row = n
          THEN [roster[n] EXCEPT !.status = "CLAIMED", !.claimedBy = p] ELSE roster[n]]
     /\ member' = [member EXCEPT ![p] =
          IF claims = {} THEN @ ELSE (CHOOSE x \in claims : TRUE).camper]
     /\ found' = [found EXCEPT ![r] = {}]
     /\ UNCHANGED <<slack, task, rosterHistory>>

ClaimRefused(r) ==
  /\ req[r].at = "commit"
  /\ ~ClaimPossible(found[r])
  /\ CutShort(r)
  /\ refused' = refused \cup {req[r].who}
  /\ found' = [found EXCEPT ![r] = {}]
  /\ UNCHANGED <<tables, task, tasksLeft, disturbed>>

LoginCutShort(r) ==
  /\ CutShort(r)
  /\ found' = [found EXCEPT ![r] = {}]
  /\ UNCHANGED <<tables, task, rosterHistory>>
-----------------------------------------------------------------------------
TaskArrival(t) ==
  \/ \E entry \in Entry : CreateBegin(t, entry)
  \/ \E n \in RosterRow, entry \in Entry : UpdateBegin(t, n, entry)
  \/ \E n \in RosterRow : RemoveCamperBegin(t, n)
  \/ \E sheet \in Sheet : UploadBegin(t, sheet)
  \/ \E p \in Person, account \in SlackAccount : ProfileBegin(t, p, account)

TaskStep(t) ==
  \/ CreateCheck(t) \/ CreateUpsert(t) \/ CreateFindUser(t) \/ CreateClaim(t)
  \/ UpdateCheck(t) \/ UpdateWrite(t) \/ UpdateMember(t)
  \/ RemoveCamperRead(t) \/ RemoveCamperWrite(t)
  \/ UploadReadUsers(t) \/ UploadCommit(t)
  \/ ProfileRead(t) \/ ProfileWrite(t)

\* The steps of the accounts that the roster takes no part in.
AccountsAlone ==
  \/ \E r \in Request :
       \/ \E by, who \in Person : InviteBegin(r, by, who) \/ RemoveBegin(r, by, who)
       \/ \E by \in Person, i \in Invitation : RevokeBegin(r, by, i)
       \/ AdminStep(r)
       \/ LoginFindAccount(r) \/ LoginFindUser(r) \/ LoginLink(r) \/ LoginFindInvitation(r)
       \/ LoginAccept(r) \/ LoginAcceptRefused(r) \/ LoginIssue(r) \/ LoginRegister(r)
  \/ \E p \in Person : LoginInternal(p) \/ Logout(p)

Next ==
  \/ AccountsAlone /\ UNCHANGED rosterVars
  \/ \E r \in Request :
       \/ \E p \in Person : RosterAtLogin(r, p)
       \/ ReadInvited(r) \/ ClaimAtLogin(r) \/ ClaimRefused(r) \/ LoginCutShort(r)
  \/ \E t \in Task : TaskArrival(t) \/ TaskStep(t) \/ TaskDies(t)

Spec == Init /\ [][Next]_vars
-----------------------------------------------------------------------------
Undisturbed == disturbed \subseteq {"profiles"}
Quiet == /\ \A t \in Task : task[t].at \in {"idle", "profile", "slack"}
         /\ \A r \in Request : req[r].op # "login"

\* The two tables tell the same: the members are those of the claimed rows,
\* with their camper ids.  What separates them: two requests about one person or
\* camper that overlap, one that dies between its statements, another spelling,
\* a row given to another name, a sheet that reassigns.
RosterConsistent ==
  Undisturbed /\ Quiet =>
    \A p \in Person, c \in Camper :
      member[p] = c <=> \E n \in RosterRow :
        roster[n].status = "CLAIMED" /\ roster[n].claimedBy = p /\ roster[n].camper = c

\* The first login of an invited camper goes through (auth.service.ts:141: one
\* membership per row, unique by user and by camper id).
FirstLoginSucceeds == Undisturbed => refused = {}

\* No row stays INVITED for somebody who has an account: a login claims rows
\* only when it creates the user (auth.service.ts:73, 116).
NobodyWaitsInVain ==
  Undisturbed /\ Quiet =>
    \A n \in RosterRow : roster[n].status = "INVITED" => roster[n].name.of \notin Registered

\* A Slack account that a member registered is never replaced
\* (organizations.service.ts:722, "cannot be changed"), unless two requests of
\* that member overlap; it goes with the membership only.
SlackIdKept ==
  [][\A p \in Person :
       slack[p] # NoAccount /\ slack'[p] # slack[p] /\ "profiles" \notin disturbed
         => slack'[p] = NoAccount /\ member'[p] = NoCamper]_vars
=============================================================================
