---------------------------- MODULE RosterProofs ----------------------------
(***************************************************************************)
(* Theorems about CamperRoster, for any number of rows, campers, requests  *)
(* and entries, and sheets of any length.  What the rows and memberships   *)
(* tell of each other (RowsSound) survives one request at a time; that the *)
(* requests under way are about different campers and persons (Separate)   *)
(* is what `disturbed' says as long as it is empty, and what a request     *)
(* read is then still true when it writes (Informed, Claiming).            *)
(***************************************************************************)
EXTENDS CamperRoster, AccountsProofs, WellFoundedInduction

CamperName == [camper : Camper, name : Name]
EntryRow == [camper : Camper, name : Name, status : {"INVITED", "CLAIMED", "REVOKED"},
             claimedBy : Person \cup {Nobody}]
AnyRow == {Unused} \cup EntryRow
MemberType == [Person -> Camper \cup {NoCamper}]

\* The stages of requests about the roster.
WithEntry == {"check", "upsert", "user", "claim", "conflict", "write", "member"}
Inviting == {"user", "claim"}
ByRow == {"conflict", "write", "member", "remove", "delete"}
TaskType ==
  [at : {"idle", "check", "upsert", "user", "claim", "conflict", "write",
         "member", "remove", "delete", "sheet", "commit", "profile", "slack"},
   entry : Entry \cup {NoEntry}, row : RosterRow \cup {NoRow}, was : AnyRow,
   sheet : Sheet \cup {<<>>}, users : SUBSET Person,
   who : Person \cup {Nobody}, account : SlackAccount \cup {NoAccount}]

Fitting(x) ==
  /\ x.at \in WithEntry => x.entry \in Entry
  /\ x.at \in Inviting \cup ByRow => x.row \in RosterRow
  /\ x.at \in {"sheet", "commit"} => x.sheet \in Sheet
  /\ x.at \in {"profile", "slack"} => x.who \in Person

RosterShape ==
  /\ roster \in [RosterRow -> AnyRow]
  /\ member \in MemberType
  /\ slack \in [Person -> SlackAccount \cup {NoAccount}]
  /\ found \in [Request -> SUBSET [row : RosterRow, camper : Camper]]
  /\ task \in [Task -> TaskType]
  /\ \A t \in Task : Fitting(task[t])
  /\ tasksLeft \in Nat
  /\ disturbed \subseteq {"overlap", "died", "spelling", "rename", "reassignment", "profiles"}
  /\ refused \subseteq Person

\* The rows that requests and logins hold are in use, as they stay.
InUse ==
  /\ \A t \in Task : task[t].at \in Inviting \cup ByRow => roster[task[t].row] \in EntryRow
  /\ \A r \in Request : \A x \in found[r] : roster[x.row] \in EntryRow

\* Whoever a login takes for registered is, and so is whom a removal is about.
Enrolled ==
  /\ linked \subseteq Registered
  /\ \A r \in Request :
       req[r].at \in {"link", "invitation", "accept", "issue", "count", "demote"} =>
         req[r].who \in Registered

Standing(ro) == {n \in RosterRow : ro[n].status # "unused"}
Alive(ro) == {n \in RosterRow : ro[n].status \in {"INVITED", "CLAIMED"}}
Claimed(ro) == {n \in RosterRow : ro[n].status = "CLAIMED"}

\* What rows `ro' and memberships `me' tell of each other, where `reg' are
\* registered, updates of the rows `mid' have not come to the membership yet and
\* requests that invite by the rows `pend' have not looked for the user yet.
RowsSound(ro, me, reg, mid, pend) ==
  /\ \A n, m \in Standing(ro) : ro[n].camper = ro[m].camper => n = m
  /\ \A p, q \in Person : me[p] = me[q] /\ me[p] # NoCamper => p = q
  /\ \A n \in Standing(ro) : ro[n].name.exact
  /\ \A n, m \in Alive(ro) : ro[n].name.of = ro[m].name.of => n = m
  /\ \A n \in Claimed(ro) :
       /\ ro[n].claimedBy = ro[n].name.of
       /\ ro[n].claimedBy \in reg
       /\ me[ro[n].claimedBy] # NoCamper
       /\ n \in mid \/ me[ro[n].claimedBy] = ro[n].camper
       /\ \A m \in Standing(ro) : ro[m].camper = me[ro[n].claimedBy] => m = n
  /\ \A p \in Person : me[p] # NoCamper => \E n \in Claimed(ro) : ro[n].claimedBy = p
  /\ \A n \in RosterRow : ro[n].status = "INVITED" /\ ro[n].name.of \in reg => n \in pend

RowsAt(stages) == {task[t].row : t \in {u \in Task : task[u].at \in stages}}
RosterSound == RowsSound(roster, member, Registered, RowsAt({"member"}), RowsAt(Inviting))

\* The campers and persons that a request may still touch.
Subject(t) == OfEntry(task[t].entry) \cup OfSheet(task[t].sheet)
              \cup (IF task[t].at \in ByRow THEN OfRow(roster[task[t].row]) ELSE {})

Separate ==
  /\ \A t, u \in Task : t # u => Subject(t) \cap Subject(u) \subseteq {NoCamper, Nobody}
  /\ \A t \in Task, r \in Request : req[r].op = "login" => req[r].who \notin Subject(t)
  /\ \A r, q \in Request :
       r # q /\ req[r].op = "login" /\ req[q].op = "login" => req[r].who # req[q].who

\* No active row but those of `own' has the camper id or the name.
Free(ro, e, own) == \A n \in Alive(ro) \ own : ro[n].camper # e.camper /\ ro[n].name # e.name

\* A sheet names campers as the rows and its other lines do.
Agrees(ro, s) ==
  /\ \A e \in ToSet(s) : e.name.exact
  /\ \A e, f \in ToSet(s) : e.camper = f.camper <=> e.name = f.name
  /\ \A e \in ToSet(s), n \in Alive(ro) : ro[n].camper = e.camper <=> ro[n].name = e.name

\* What a request knows of the tables.
InformedOf(t) ==
  LET x == task[t]
      n == task[t].row
  IN /\ x.at \in WithEntry => x.entry.name.exact
     /\ x.at = "upsert" => Free(roster, x.entry, {})
     /\ x.at \in Inviting => /\ roster[n].status = "INVITED"
                             /\ roster[n].camper = x.entry.camper
                             /\ roster[n].name = x.entry.name
     /\ x.at = "claim" => x.entry.name.of \in Registered
     /\ x.at \in {"conflict", "write", "member"} => roster[n].name = x.entry.name
     /\ x.at = "write" => Free(roster, x.entry, {n})
     /\ x.at = "member" => /\ roster[n].status = "CLAIMED"
                           /\ roster[n].camper = x.entry.camper
                           /\ x.was.claimedBy = roster[n].claimedBy
     /\ x.at = "delete" => x.was = roster[n]
     /\ x.at \in {"sheet", "commit"} => Agrees(roster, x.sheet)
     /\ x.at = "commit" =>
          \A e \in ToSet(x.sheet) : e.name.of \in x.users <=> e.name.of \in Registered

Informed == \A t \in Task : InformedOf(t)

\* A first login will claim the rows that are still its own.
Claiming ==
  \A r \in Request : req[r].at \in {"register", "commit"} =>
    found[r] = OwnRows(roster, req[r].who)

Calm == Undisturbed =>
          RosterSound /\ Separate /\ Informed /\ Claiming /\ refused = {}

RosterInv == Sound /\ Enrolled /\ RosterShape /\ InUse /\ Calm
-----------------------------------------------------------------------------
\* Each step of the roster is a step of the accounts or none.
LEMMA RosterStepsAccounts == [Next]_vars => [AccountsNext]_accountVars
<1> SUFFICES ASSUME [Next]_vars PROVE [AccountsNext]_accountVars
  OBVIOUS
<1>1. CASE AccountsAlone
  BY <1>1 DEF AccountsAlone, AccountsNext, Arrival, LoginStep
<1>2. ASSUME NEW r \in Request, NEW p \in Person, RosterAtLogin(r, p) PROVE AccountsNext
  BY <1>2 DEF RosterAtLogin, AccountsNext, Arrival
<1>3. ASSUME NEW r \in Request,
             ReadInvited(r) \/ ClaimAtLogin(r) \/ ClaimRefused(r) \/ LoginCutShort(r)
      PROVE  AccountsNext
  BY <1>3 DEF ReadInvited, ClaimAtLogin, ClaimRefused, LoginCutShort, AccountsNext, LoginStep
<1>4. ASSUME NEW t \in Task, TaskArrival(t) PROVE UNCHANGED accountVars
  BY <1>4 DEF TaskArrival, CreateBegin, UpdateBegin, RemoveCamperBegin, UploadBegin, ProfileBegin,
     TaskBegin
<1>5. ASSUME NEW t \in Task, TaskStep(t) \/ TaskDies(t) PROVE UNCHANGED accountVars
  BY <1>5 DEF TaskStep, TaskDies, CreateCheck, CreateUpsert, CreateFindUser, CreateClaim,
     UpdateCheck, UpdateWrite, UpdateMember, RemoveCamperRead, RemoveCamperWrite, UploadReadUsers,
     UploadCommit, ProfileRead, ProfileWrite
<1>6. CASE UNCHANGED vars
  BY <1>6 DEF vars
<1>7. QED
  BY <1>1, <1>2, <1>3, <1>4, <1>5, <1>6 DEF Next

\* The roster implements the accounts: entering campers, uploading sheets or
\* claiming rows at a login adds no way to become or remain an administrator.
THEOREM RosterImplementsAccounts == Spec => AccountsSpec
<1>1. Init => AccountsInit
  BY DEF Init
<1>2. QED
  BY <1>1, RosterStepsAccounts, PTL DEF Spec, AccountsSpec
-----------------------------------------------------------------------------
(* The upload.  Its function of the lines is what it is defined to be, and  *)
(* what each line keeps the whole sheet keeps.                              *)

\* A set of numbers that is not empty has a least one.
LEMMA Least ==
  ASSUME NEW S \in SUBSET Nat, S # {}
  PROVE  \E x \in S : \A y \in S : x <= y
<1> DEFINE R == {ss \in Nat \X Nat : ss[1] < ss[2]}
<1>1. R = OpToRel(<, Nat)
  BY DEF OpToRel
<1>2. IsWellFoundedOn(R, Nat)
  BY <1>1, NatLessThanWellFounded
<1>3. PICK x \in S : \A y \in S : ~(<<y, x>> \in R)
  <2> HIDE DEF R
  <2>1. QED
    BY <1>2, WFMin
<1>4. ASSUME NEW y \in S PROVE x <= y
  <2>1. x \in Nat /\ y \in Nat /\ <<y, x>> \notin R
    BY <1>3
  <2>2. ~(y < x)
    BY <2>1
  <2>3. QED
    BY <2>1, <2>2
<1>5. QED
  BY <1>4

\* The lines 1 to k of a sheet, applied one after another to `start'.
Through(f, k, users, sheet, start) ==
  f = [j \in 0..k |-> IF j = 0 THEN start ELSE UploadLine(users, sheet[j], f[j - 1])]

LEMMA ThroughExists ==
  ASSUME NEW users, NEW sheet, NEW start, NEW k \in Nat
  PROVE  \E f : Through(f, k, users, sheet, start)
<1> DEFINE Bad == {j \in Nat : ~\E f : Through(f, j, users, sheet, start)}
<1>1. SUFFICES Bad = {}
  OBVIOUS
<1>2. SUFFICES ASSUME Bad # {} PROVE FALSE
  OBVIOUS
<1>3. PICK j \in Bad : \A i \in Bad : j <= i
  BY <1>2, Least
<1>4. j \in Nat /\ ~\E f : Through(f, j, users, sheet, start)
  OBVIOUS
<1>5. CASE j = 0
  <2> DEFINE g == [i \in 0..0 |-> start]
  <2>1. g = [i \in 0..0 |-> IF i = 0 THEN start ELSE UploadLine(users, sheet[i], g[i - 1])]
    OBVIOUS
  <2>2. QED
    BY <1>4, <1>5, <2>1 DEF Through
<1>6. CASE j # 0
  <2>1. j - 1 \in Nat /\ j - 1 \notin Bad
    BY <1>3, <1>4, <1>6
  <2>2. PICK f : Through(f, j - 1, users, sheet, start)
    BY <2>1
  <2> DEFINE last == UploadLine(users, sheet[j], f[j - 1])
  <2> DEFINE g == [i \in 0..j |-> IF i = j THEN last ELSE f[i]]
  <2>3. \A i \in 0..(j - 1) :
          f[i] = IF i = 0 THEN start ELSE UploadLine(users, sheet[i], f[i - 1])
    BY <2>2 DEF Through
  <2>4. ASSUME NEW i \in 0..j
        PROVE  g[i] = IF i = 0 THEN start ELSE UploadLine(users, sheet[i], g[i - 1])
    <3> HIDE DEF last
    <3>1. CASE i = j
      <4>1. i # 0 /\ i - 1 \in 0..j /\ i - 1 # j
        BY <1>4, <1>6, <3>1
      <4>2. g[i - 1] = f[j - 1] /\ g[i] = last
        BY <3>1, <4>1
      <4>3. QED
        BY <3>1, <4>1, <4>2 DEF last
    <3>2. CASE i # j /\ i # 0
      <4>1. i \in 0..(j - 1) /\ i - 1 \in 0..j /\ i - 1 # j
        BY <1>4, <3>2
      <4>2. g[i - 1] = f[i - 1] /\ g[i] = f[i]
        BY <3>2, <4>1
      <4>3. QED
        BY <2>3, <3>2, <4>1, <4>2
    <3>3. CASE i = 0
      BY <1>4, <1>6, <2>3, <3>3
    <3>4. QED
      BY <3>1, <3>2, <3>3
  <2>5. Through(g, j, users, sheet, start)
    <3> HIDE DEF last
    <3>1. g = [i \in 0..j |-> g[i]]
      OBVIOUS
    <3> HIDE DEF g
    <3>2. QED
      BY <2>4, <3>1, Zenon DEF Through
  <2>6. QED
    BY <1>4, <2>5
<1>7. QED
  BY <1>5, <1>6

\* What the start is in and every line stays in, the end is in.
LEMMA LinesKeep ==
  ASSUME NEW users, NEW sheet, NEW start, NEW k \in Nat, NEW f,
         Through(f, k, users, sheet, start),
         NEW S, start \in S,
         \A j \in 1..k : \A at \in S : UploadLine(users, sheet[j], at) \in S
  PROVE  f[k] \in S
<1> DEFINE Bad == {j \in 0..k : f[j] \notin S}
<1>1. SUFFICES ASSUME Bad # {} PROVE FALSE
  OBVIOUS
<1>2. PICK j \in Bad : \A i \in Bad : j <= i
  <2>1. Bad \in SUBSET Nat
    OBVIOUS
  <2>2. QED
    BY <1>1, <2>1, Least
<1>3. f[0] = start /\ \A i \in 1..k : f[i] = UploadLine(users, sheet[i], f[i - 1])
  BY DEF Through
<1>4. j \in 1..k /\ j - 1 \in 0..k
  BY <1>2, <1>3
<1>5. f[j - 1] \in S
  BY <1>2, <1>4
<1>6. QED
  BY <1>2, <1>3, <1>4, <1>5
-----------------------------------------------------------------------------
(* The shape of the rows and of the requests. *)

LEMMA NullsAre ==
  /\ NoCamper \notin Camper /\ NoCamper \notin Person /\ Nobody \notin Camper
  /\ Nobody \notin Person /\ NoRow \notin RosterRow /\ NoEntry \notin Entry
  /\ NoEntry.camper = NoCamper /\ NoEntry.name = [of |-> Nobody, exact |-> TRUE]
  /\ Unused.status = "unused" /\ Unused.camper = NoCamper /\ Unused.claimedBy = Nobody
  /\ Unused.name = [of |-> Nobody, exact |-> TRUE]
<1>1. \A e \in CamperName : e.camper \in Camper
  BY DEF CamperName
<1>2. QED
  BY <1>1, RosterNulls, NobodyIsNoPerson, EntriesAreRows DEF NoEntry, Unused, CamperName

LEMMA ListingIs ==
  /\ Entry \subseteq CamperName /\ Sheet \subseteq Seq(CamperName)
  /\ \A e \in CamperName : /\ e.camper \in Camper /\ e.name \in Name /\ e.name.of \in Person
                        /\ e.name.exact \in BOOLEAN
                        /\ e.name = [of |-> e.name.of, exact |-> e.name.exact]
  /\ \A e, f \in CamperName : e.name.of = f.name.of /\ e.name.exact = f.name.exact => e.name = f.name
<1>1. Entry \subseteq CamperName /\ Sheet \subseteq Seq(CamperName)
  BY EntriesAreRows DEF CamperName
<1>2. ASSUME NEW e \in CamperName
      PROVE  /\ e.camper \in Camper /\ e.name \in Name /\ e.name.of \in Person
             /\ e.name.exact \in BOOLEAN
             /\ e.name = [of |-> e.name.of, exact |-> e.name.exact]
  BY DEF CamperName, Name
<1>3. QED
  BY <1>1, <1>2

\* What a row is, used or not.
LEMMA RowIs ==
  ASSUME NEW x \in AnyRow
  PROVE  /\ x.status \in {"unused", "INVITED", "CLAIMED", "REVOKED"}
         /\ x.claimedBy \in Person \cup {Nobody}
         /\ x.status = "unused" <=> x = Unused
         /\ x.status # "unused" =>
              /\ x \in EntryRow /\ x.camper \in Camper /\ x.name \in Name /\ x.name.of \in Person
              /\ x.name = [of |-> x.name.of, exact |-> x.name.exact]
         /\ x \in RowType
<1>1. CASE x = Unused
  BY <1>1 DEF Unused, NoEntry, RowType
<1>2. CASE x \in EntryRow
  BY <1>2 DEF EntryRow, Unused, RowType, Name
<1>3. QED
  BY <1>1, <1>2 DEF AnyRow

\* What a login reads of the rows that invite a person.
RowsIn(claims) == {x.row : x \in claims}

LEMMA OwnRowsAre ==
  ASSUME NEW ro \in [RosterRow -> AnyRow], NEW p
  PROVE  /\ OwnRows(ro, p) \subseteq [row : RosterRow, camper : Camper]
         /\ \A x \in OwnRows(ro, p) :
              /\ x.row \in RosterRow /\ x = [row |-> x.row, camper |-> ro[x.row].camper]
              /\ ro[x.row].status = "INVITED" /\ ro[x.row].name.of = p /\ ro[x.row] \in EntryRow
         /\ \A n : n \in RowsIn(OwnRows(ro, p))
                    <=> n \in RosterRow /\ ro[n].status = "INVITED" /\ ro[n].name.of = p
<1>1. ASSUME NEW n \in RosterRow, ro[n].status = "INVITED"
      PROVE  ro[n] \in EntryRow /\ ro[n].camper \in Camper
  BY <1>1, RowIs
<1> DEFINE read(n) == [row |-> n, camper |-> ro[n].camper]
           mine == {n \in RosterRow : ro[n].status = "INVITED" /\ ro[n].name.of = p}
<1>2. OwnRows(ro, p) = {read(n) : n \in mine}
  BY DEF OwnRows
<1>3. \A n \in mine : read(n).row = n /\ read(n).camper = ro[n].camper
                      /\ read(n) \in [row : RosterRow, camper : Camper]
  BY <1>1
<1>4. \A n : n \in RowsIn(OwnRows(ro, p)) <=> n \in mine
  <2> HIDE DEF read, mine
  <2>1. ASSUME NEW n \in mine PROVE n \in RowsIn(OwnRows(ro, p))
    <3>1. read(n) \in OwnRows(ro, p) /\ read(n).row = n
      BY <1>2, <1>3
    <3>2. \E x \in OwnRows(ro, p) : n = x.row
      BY <3>1
    <3>3. QED
      BY <3>2 DEF RowsIn
  <2>2. ASSUME NEW n, n \in RowsIn(OwnRows(ro, p)) PROVE n \in mine
    <3>1. PICK x \in OwnRows(ro, p) : n = x.row
      BY <2>2 DEF RowsIn
    <3>2. PICK m \in mine : x = read(m)
      BY <1>2, <3>1
    <3>3. QED
      BY <3>1, <3>2, <1>3
  <2>3. QED
    BY <2>1, <2>2
<1>5. QED
  BY <1>1, <1>2, <1>3, <1>4

\* What the requests write into a row.
LEMMA RowsWritten ==
  ASSUME NEW x \in AnyRow
  PROVE  /\ \A e \in CamperName :
              /\ Invited(x, e) \in EntryRow
              /\ Invited(x, e).camper = e.camper /\ Invited(x, e).name = e.name
              /\ Invited(x, e).status = "INVITED" /\ Invited(x, e).claimedBy = x.claimedBy
         /\ x \in EntryRow => \A p \in Person :
              /\ [x EXCEPT !.status = "CLAIMED", !.claimedBy = p] \in EntryRow
              /\ [x EXCEPT !.status = "CLAIMED", !.claimedBy = p].camper = x.camper
              /\ [x EXCEPT !.status = "CLAIMED", !.claimedBy = p].name = x.name
              /\ [x EXCEPT !.status = "CLAIMED", !.claimedBy = p].status = "CLAIMED"
              /\ [x EXCEPT !.status = "CLAIMED", !.claimedBy = p].claimedBy = p
         /\ x \in EntryRow => \A e \in CamperName :
              /\ [x EXCEPT !.camper = e.camper, !.name = e.name] \in EntryRow
              /\ [x EXCEPT !.camper = e.camper, !.name = e.name].camper = e.camper
              /\ [x EXCEPT !.camper = e.camper, !.name = e.name].name = e.name
              /\ [x EXCEPT !.camper = e.camper, !.name = e.name].status = x.status
              /\ [x EXCEPT !.camper = e.camper, !.name = e.name].claimedBy = x.claimedBy
         /\ x \in EntryRow =>
              /\ [x EXCEPT !.status = "REVOKED"] \in EntryRow
              /\ [x EXCEPT !.status = "REVOKED"].camper = x.camper
              /\ [x EXCEPT !.status = "REVOKED"].name = x.name
              /\ [x EXCEPT !.status = "REVOKED"].status = "REVOKED"
              /\ [x EXCEPT !.status = "REVOKED"].claimedBy = x.claimedBy
<1>1. ASSUME NEW e \in CamperName
      PROVE  /\ Invited(x, e) \in EntryRow
             /\ Invited(x, e).camper = e.camper /\ Invited(x, e).name = e.name
             /\ Invited(x, e).status = "INVITED" /\ Invited(x, e).claimedBy = x.claimedBy
  <2>1. x \in [camper : Camper \cup {NoCamper}, name : Name \cup {NoEntry.name},
               status : {"unused", "INVITED", "CLAIMED", "REVOKED"},
               claimedBy : Person \cup {Nobody}]
    BY RowIs DEF RowType
  <2>2. QED
    BY <2>1, ListingIs DEF Invited, EntryRow
<1>2. ASSUME x \in EntryRow, NEW e \in CamperName
      PROVE  /\ [x EXCEPT !.camper = e.camper, !.name = e.name] \in EntryRow
             /\ [x EXCEPT !.camper = e.camper, !.name = e.name].camper = e.camper
             /\ [x EXCEPT !.camper = e.camper, !.name = e.name].name = e.name
             /\ [x EXCEPT !.camper = e.camper, !.name = e.name].status = x.status
             /\ [x EXCEPT !.camper = e.camper, !.name = e.name].claimedBy = x.claimedBy
  BY <1>2, ListingIs DEF EntryRow
<1>3. QED
  BY <1>1, <1>2 DEF EntryRow

\* A line of a sheet keeps the shape of the tables.
UploadState == [ok : BOOLEAN, roster : [RosterRow -> AnyRow], member : MemberType]

LEMMA LineKeepsShape ==
  ASSUME NEW users, NEW e \in CamperName, NEW at \in UploadState
  PROVE  UploadLine(users, e, at) \in UploadState
<1> DEFINE targets == UpsertTarget(at.roster, e.camper)
           n == CHOOSE m \in UpsertTarget(at.roster, e.camper) : TRUE
           p == e.name.of
           row == Invited(at.roster[n], e)
<1>0. at.ok \in BOOLEAN /\ at.roster \in [RosterRow -> AnyRow] /\ at.member \in MemberType
  BY DEF UploadState
<1>1. CASE ~at.ok \/ targets = {}
  BY <1>1 DEF UploadLine, UploadState
<1>2. CASE at.ok /\ targets # {}
  <2>1. n \in RosterRow
    BY <1>2 DEF UpsertTarget
  <2>2. row \in EntryRow /\ [row EXCEPT !.status = "CLAIMED", !.claimedBy = p] \in EntryRow
    <3>1. row \in EntryRow /\ p \in Person
      BY <1>0, <2>1, RowsWritten, ListingIs
    <3>2. QED
      BY <3>1, RowsWritten DEF AnyRow
  <2> HIDE DEF n, row
  <2>3. CASE ~e.name.exact \/ p \notin users
    <3>1. UploadLine(users, e, at) = [at EXCEPT !.roster[n] = row]
      BY <1>2, <2>3 DEF UploadLine, n, row
    <3>2. [at EXCEPT !.roster[n] = row] = [at EXCEPT !.roster = [at.roster EXCEPT ![n] = row]]
      BY DEF UploadState
    <3>3. [at.roster EXCEPT ![n] = row] \in [RosterRow -> AnyRow]
      BY <1>0, <2>1, <2>2 DEF AnyRow
    <3>4. QED
      BY <3>1, <3>2, <3>3 DEF UploadState
  <2>4. CASE e.name.exact /\ p \in users
    <3>1. UploadLine(users, e, at) =
            [ok |-> \A q \in Person \ {p} : at.member[q] # e.camper,
             roster |-> [at.roster EXCEPT
                           ![n] = [row EXCEPT !.status = "CLAIMED", !.claimedBy = p]],
             member |-> [at.member EXCEPT ![p] = e.camper]]
      BY <1>2, <2>4 DEF UploadLine, n, row
    <3>2. [at.roster EXCEPT ![n] = [row EXCEPT !.status = "CLAIMED", !.claimedBy = p]]
            \in [RosterRow -> AnyRow]
      BY <1>0, <2>1, <2>2 DEF AnyRow
    <3>3. [at.member EXCEPT ![p] = e.camper] \in MemberType
      BY <1>0, ListingIs DEF MemberType
    <3>4. QED
      BY <3>1, <3>2, <3>3 DEF UploadState
  <2>5. QED
    BY <2>3, <2>4
<1>3. QED
  BY <1>0, <1>1, <1>2
LEMMA LineKeepsRows ==
  ASSUME NEW users, NEW e \in CamperName, NEW at \in UploadState,
         NEW m \in RosterRow, at.roster[m] \in EntryRow
  PROVE  UploadLine(users, e, at).roster[m] \in EntryRow
<1> DEFINE targets == UpsertTarget(at.roster, e.camper)
           n == CHOOSE k \in UpsertTarget(at.roster, e.camper) : TRUE
           p == e.name.of
           row == Invited(at.roster[n], e)
<1>0. at.roster \in [RosterRow -> AnyRow]
  BY DEF UploadState
<1>1. CASE ~at.ok \/ targets = {}
  BY <1>1 DEF UploadLine, UploadState
<1>2. CASE at.ok /\ targets # {}
  <2>1. n \in RosterRow
    BY <1>2 DEF UpsertTarget
  <2>2. row \in EntryRow /\ [row EXCEPT !.status = "CLAIMED", !.claimedBy = p] \in EntryRow
    <3>1. row \in EntryRow /\ p \in Person
      BY <1>0, <2>1, RowsWritten, ListingIs
    <3>2. QED
      BY <3>1, RowsWritten DEF AnyRow
  <2>3. \/ UploadLine(users, e, at).roster = [at.roster EXCEPT ![n] = row]
        \/ UploadLine(users, e, at).roster =
             [at.roster EXCEPT ![n] = [row EXCEPT !.status = "CLAIMED", !.claimedBy = p]]
    <3> HIDE DEF row, n
    <3>1. CASE ~e.name.exact \/ p \notin users
      <4>1. UploadLine(users, e, at) = [at EXCEPT !.roster[n] = row]
        BY <1>2, <3>1 DEF UploadLine, n, row
      <4>2. QED
        BY <4>1 DEF UploadState
    <3>2. CASE e.name.exact /\ p \in users
      <4>1. UploadLine(users, e, at).roster =
              [at.roster EXCEPT ![n] = [row EXCEPT !.status = "CLAIMED", !.claimedBy = p]]
        BY <1>2, <3>2 DEF UploadLine, n, row
      <4>2. QED
        BY <4>1
    <3>3. QED
      BY <3>1, <3>2
  <2> HIDE DEF row, n
  <2>4. QED
    BY <1>0, <2>1, <2>2, <2>3
<1>3. QED
  BY <1>1, <1>2

LEMMA CommitIs ==
  ASSUME NEW t \in Task, UploadCommit(t), task[t].sheet \in Seq(CamperName)
  PROVE  \E f : LET k == Len(task[t].sheet)
                IN /\ Through(f, k, task[t].users, task[t].sheet,
                              [ok |-> TRUE, roster |-> roster, member |-> member])
                   /\ task[t].at = "commit"
                   /\ f[k].ok /\ roster' = f[k].roster /\ member' = f[k].member
                   /\ task' = [task EXCEPT ![t] = Rest]
                   /\ UNCHANGED <<accountVars, slack, found, rosterHistory>>
<1> DEFINE k == Len(task[t].sheet)
           start == [ok |-> TRUE, roster |-> roster, member |-> member]
           f == CHOOSE g : g = [j \in 0..k |->
                  IF j = 0 THEN start ELSE UploadLine(task[t].users, task[t].sheet[j], g[j - 1])]
<1>1. k \in Nat
  OBVIOUS
<1>2. /\ task[t].at = "commit"
      /\ f[k].ok /\ roster' = f[k].roster /\ member' = f[k].member
      /\ task' = [task EXCEPT ![t] = Rest]
      /\ UNCHANGED <<accountVars, slack, found, rosterHistory>>
  BY Zenon DEF UploadCommit, TaskEnd
<1>3. \E g : g = [j \in 0..k |->
          IF j = 0 THEN start ELSE UploadLine(task[t].users, task[t].sheet[j], g[j - 1])]
  <2> HIDE DEF k, start
  <2>1. \E g : Through(g, k, task[t].users, task[t].sheet, start)
    BY <1>1, ThroughExists
  <2>2. QED
    BY <2>1, Zenon DEF Through
<1>4. Through(f, k, task[t].users, task[t].sheet, start)
  <2> HIDE DEF k, start
  <2>1. QED
    BY <1>3, Zenon DEF Through
<1>5. QED
  <2> HIDE DEF f
  <2>1. QED
    BY <1>2, <1>4

\* A request moves on, or another takes its place.
LEMMA TasksKeepShape ==
  ASSUME RosterShape, NEW t \in Task
  PROVE  /\ \A x \in TaskType : Fitting(x) /\ task' = [task EXCEPT ![t] = x]
              => task' \in [Task -> TaskType] /\ \A u \in Task : Fitting(task'[u])
         /\ TaskEnd(t) => task' \in [Task -> TaskType] /\ \A u \in Task : Fitting(task'[u])
<1>1. ASSUME NEW x \in TaskType, Fitting(x), task' = [task EXCEPT ![t] = x]
      PROVE  task' \in [Task -> TaskType] /\ \A u \in Task : Fitting(task'[u])
  BY <1>1 DEF RosterShape
<1>2. Rest \in TaskType /\ Fitting(Rest)
  BY DEF Rest, TaskType, Fitting, WithEntry, Inviting, ByRow, AnyRow
<1>3. QED
  BY <1>1, <1>2 DEF TaskEnd

\* The stage changes between stages that know the same.
LEMMA StageKeepsShape ==
  ASSUME RosterShape, NEW t \in Task, NEW s, TaskTo(t, s),
         \/ task[t].at = "check" /\ s = "upsert"
         \/ task[t].at = "user" /\ s = "claim"
         \/ task[t].at = "conflict" /\ s = "write"
         \/ task[t].at = "profile" /\ s = "slack"
  PROVE  /\ task' \in [Task -> TaskType] /\ \A u \in Task : Fitting(task'[u])
         /\ task'[t] = [task[t] EXCEPT !.at = s]
         /\ \A u \in Task : u # t => task'[u] = task[u]
<1> DEFINE x == [task[t] EXCEPT !.at = s]
<1>1. task[t] \in TaskType /\ Fitting(task[t])
  BY DEF RosterShape
<1>2. x \in TaskType
  BY <1>1 DEF TaskType
<1>3. x.at = s /\ x.entry = task[t].entry /\ x.row = task[t].row /\ x.who = task[t].who
  BY <1>1 DEF TaskType
<1>4. Fitting(x)
  BY <1>1, <1>3 DEF Fitting, WithEntry, Inviting, ByRow
<1>5. task' = [task EXCEPT ![t] = x]
  BY DEF TaskTo
<1>6. QED
  BY <1>2, <1>4, <1>5, TasksKeepShape DEF RosterShape

Causes == {"overlap", "died", "spelling", "rename", "reassignment", "profiles"}

LEMMA ArrivalsFit ==
  /\ \A e \in Entry :
       LET x == [Rest EXCEPT !.at = "check", !.entry = e] IN x \in TaskType /\ Fitting(x)
  /\ \A e \in Entry, n \in RosterRow :
       LET x == [Rest EXCEPT !.at = "conflict", !.row = n, !.entry = e]
       IN x \in TaskType /\ Fitting(x)
  /\ \A n \in RosterRow :
       LET x == [Rest EXCEPT !.at = "remove", !.row = n] IN x \in TaskType /\ Fitting(x)
  /\ \A s \in Sheet :
       LET x == [Rest EXCEPT !.at = "sheet", !.sheet = s] IN x \in TaskType /\ Fitting(x)
  /\ \A p \in Person, a \in SlackAccount :
       LET x == [Rest EXCEPT !.at = "profile", !.who = p, !.account = a]
       IN x \in TaskType /\ Fitting(x)
  BY DEF Rest, TaskType, Fitting, WithEntry, Inviting, ByRow, AnyRow

LEMMA ArrivalIsShaped ==
  ASSUME RosterShape, NEW t \in Task, TaskArrival(t)
  PROVE  RosterShape'
<1> USE DEF Causes
<1>1. ASSUME NEW x \in TaskType, Fitting(x), NEW causes \in SUBSET Causes, TaskBegin(t, x, causes)
      PROVE  RosterShape'
  <2>1. task' \in [Task -> TaskType] /\ \A u \in Task : Fitting(task'[u])
    BY <1>1, TasksKeepShape DEF TaskBegin
  <2>2. tasksLeft' \in Nat
    BY <1>1 DEF TaskBegin, RosterShape
  <2>3. disturbed' \subseteq Causes
    BY <1>1 DEF TaskBegin, Disturb, Clashes, RosterShape
  <2>4. QED
    BY <1>1, <2>1, <2>2, <2>3 DEF TaskBegin, RosterShape, tables
<1>2. \A e : Strains(e) \subseteq Causes
  BY DEF Strains
<1>3. ASSUME NEW e \in Entry, CreateBegin(t, e) PROVE RosterShape'
  BY <1>1, <1>2, <1>3, ArrivalsFit DEF CreateBegin
<1>4. ASSUME NEW n \in RosterRow, NEW e \in Entry, UpdateBegin(t, n, e) PROVE RosterShape'
  <2> DEFINE causes == (Strains(e) \ {"reassignment"})
                       \cup (IF e.name = roster[n].name THEN {} ELSE {"rename"})
  <2>1. causes \in SUBSET Causes
    BY <1>2
  <2> HIDE DEF causes
  <2>2. TaskBegin(t, [Rest EXCEPT !.at = "conflict", !.row = n, !.entry = e], causes)
    BY <1>4 DEF UpdateBegin, causes
  <2>3. QED
    BY <1>1, <2>1, <2>2, ArrivalsFit
<1>5. ASSUME NEW n \in RosterRow, RemoveCamperBegin(t, n) PROVE RosterShape'
  BY <1>1, <1>5, ArrivalsFit DEF RemoveCamperBegin
<1>6. ASSUME NEW s \in Sheet, UploadBegin(t, s) PROVE RosterShape'
  <2> DEFINE causes == (UNION {Strains(e) : e \in ToSet(s)})
         \cup (IF \E j, k \in DOMAIN s : (s[j].camper = s[k].camper) # (s[j].name = s[k].name)
               THEN {"reassignment"} ELSE {})
  <2>1. causes \in SUBSET Causes
    <3>1. (UNION {Strains(e) : e \in ToSet(s)}) \subseteq Causes
      BY <1>2, Zenon
    <3>2. QED
      BY <3>1
  <2> HIDE DEF causes
  <2>2. TaskBegin(t, [Rest EXCEPT !.at = "sheet", !.sheet = s], causes)
    BY <1>6, Zenon DEF UploadBegin, causes
  <2>3. QED
    BY <1>1, <2>1, <2>2, ArrivalsFit
<1>7. ASSUME NEW p \in Person, NEW a \in SlackAccount, ProfileBegin(t, p, a) PROVE RosterShape'
  <2> DEFINE causes ==
         IF \E u \in Task : task[u].at \in {"profile", "slack"} /\ task[u].who = p
         THEN {"profiles"} ELSE {}
  <2>1. causes \in SUBSET Causes
    OBVIOUS
  <2> HIDE DEF causes
  <2>2. TaskBegin(t, [Rest EXCEPT !.at = "profile", !.who = p, !.account = a], causes)
    BY <1>7, Zenon DEF ProfileBegin, causes
  <2>3. QED
    BY <1>1, <2>1, <2>2, ArrivalsFit
<1>8. QED
  BY <1>3, <1>4, <1>5, <1>6, <1>7 DEF TaskArrival

\* What the row of a request is.
LEMMA OwnRow ==
  ASSUME RosterShape, NEW t \in Task
  PROVE  /\ task[t] \in TaskType /\ Fitting(task[t])
         /\ task[t].at \in WithEntry => task[t].entry \in CamperName
         /\ task[t].at \in Inviting \cup ByRow => task[t].row \in RosterRow
         /\ task[t].sheet \in Seq(CamperName)
         /\ \A n \in RosterRow : roster[n] \in AnyRow
<1>1. task[t] \in TaskType /\ Fitting(task[t])
  BY DEF RosterShape
<1>2. task[t].sheet \in Sheet \cup {<<>>}
  BY <1>1 DEF TaskType
<1>3. <<>> \in Seq(CamperName)
  OBVIOUS
<1>4. task[t].sheet \in Seq(CamperName)
  BY <1>2, <1>3, ListingIs
<1>5. QED
  BY <1>1, <1>4, ListingIs DEF RosterShape, Fitting

LEMMA TaskStepKeepsShape ==
  ASSUME RosterShape, InUse, NEW t \in Task, TaskStep(t)
  PROVE  RosterShape'
<1> USE DEF tables, rosterHistory
<1>0. /\ task[t] \in TaskType /\ Fitting(task[t])
      /\ task[t].at \in WithEntry => task[t].entry \in CamperName
      /\ task[t].at \in Inviting \cup ByRow => task[t].row \in RosterRow
      /\ task[t].at \in Inviting \cup ByRow => roster[task[t].row] \in EntryRow
      /\ \A n \in RosterRow : roster[n] \in AnyRow
  BY OwnRow DEF InUse
<1> DEFINE Moves == task' \in [Task -> TaskType] /\ \A u \in Task : Fitting(task'[u])
           n == task[t].row
<1>1. ASSUME Moves, UNCHANGED <<tables, found, rosterHistory>> PROVE RosterShape'
  BY <1>1 DEF RosterShape
<1>2. TaskEnd(t) => Moves
  BY TasksKeepShape
<1>3. CASE CreateCheck(t)
  BY <1>1, <1>2, <1>3, StageKeepsShape DEF CreateCheck
<1>4. CASE CreateFindUser(t)
  BY <1>1, <1>2, <1>4, StageKeepsShape DEF CreateFindUser
<1>5. CASE UpdateCheck(t)
  BY <1>1, <1>2, <1>5, StageKeepsShape DEF UpdateCheck
<1>6. CASE ProfileRead(t)
  BY <1>1, <1>2, <1>6, StageKeepsShape DEF ProfileRead
<1>7. CASE ProfileWrite(t)
  BY <1>0, <1>2, <1>7 DEF ProfileWrite, RosterShape, TaskType, Fitting
<1>8. CASE CreateUpsert(t)
  <2>1. PICK m \in UpsertTarget(roster, task[t].entry.camper) :
          /\ roster' = [roster EXCEPT ![m] = Invited(@, task[t].entry)]
          /\ task' = [task EXCEPT ![t].at = "user", ![t].row = m]
    BY <1>8 DEF CreateUpsert
  <2>2. m \in RosterRow /\ task[t].entry \in CamperName /\ task[t].at = "upsert"
    BY <1>0, <1>8, <2>1 DEF UpsertTarget, CreateUpsert, WithEntry
  <2>3. roster' \in [RosterRow -> AnyRow]
    BY <1>0, <2>1, <2>2, RowsWritten DEF RosterShape, AnyRow
  <2> DEFINE x == [task[t] EXCEPT !.at = "user", !.row = m]
  <2>4. x \in TaskType /\ x.at = "user" /\ x.entry = task[t].entry /\ x.row = m
    BY <1>0, <2>2 DEF TaskType
  <2>5. Fitting(x)
    BY <1>0, <2>2, <2>4 DEF Fitting, WithEntry, Inviting, ByRow
  <2>6. task' = [task EXCEPT ![t] = x]
    BY <2>1
  <2> HIDE DEF x
  <2>7. Moves
    BY <2>4, <2>5, <2>6, TasksKeepShape
  <2>8. QED
    BY <1>8, <2>3, <2>7 DEF CreateUpsert, RosterShape
<1>9. CASE CreateClaim(t)
  <2> DEFINE p == task[t].entry.name.of
             row == [roster[n] EXCEPT !.status = "CLAIMED", !.claimedBy = p]
  <2>1. n \in RosterRow /\ task[t].entry \in CamperName /\ roster[n] \in EntryRow
    BY <1>0, <1>9 DEF CreateClaim, WithEntry, Inviting
  <2>2. p \in Person /\ task[t].entry.camper \in Camper /\ row \in EntryRow
    BY <1>0, <2>1, RowsWritten, ListingIs
  <2>3. roster' = [roster EXCEPT ![n] = row]
    BY <1>9, <2>1 DEF CreateClaim, RosterShape
  <2> HIDE DEF row
  <2>4. roster' \in [RosterRow -> AnyRow] /\ member' \in MemberType
    BY <1>9, <2>1, <2>2, <2>3 DEF CreateClaim, RosterShape, MemberType, AnyRow
  <2>5. QED
    BY <1>2, <1>9, <2>4 DEF CreateClaim, RosterShape
<1>10. CASE UpdateWrite(t)
  <2> DEFINE new == [roster[n] EXCEPT !.camper = task[t].entry.camper,
                                      !.name = task[t].entry.name]
  <2>1. n \in RosterRow /\ task[t].entry \in CamperName /\ task[t].entry \in Entry /\ roster[n] \in EntryRow
    BY <1>0, <1>10 DEF UpdateWrite, WithEntry, ByRow, Fitting
  <2>2. new \in EntryRow
    BY <1>0, <2>1, RowsWritten
  <2>3. roster' = [roster EXCEPT ![n] = new]
        /\ (TaskEnd(t) \/ task' = [task EXCEPT ![t].at = "member", ![t].was = new])
    BY <1>10 DEF UpdateWrite
  <2> HIDE DEF new
  <2>4. roster' \in [RosterRow -> AnyRow]
    BY <2>1, <2>2, <2>3 DEF RosterShape, AnyRow
  <2> DEFINE x == [task[t] EXCEPT !.at = "member", !.was = new]
  <2>5. /\ x \in TaskType /\ x.at = "member" /\ x.entry = task[t].entry /\ x.row = task[t].row
    BY <1>0, <2>2 DEF TaskType, AnyRow
  <2>6. Fitting(x)
    BY <1>0, <2>1, <2>5 DEF Fitting, WithEntry, Inviting, ByRow
  <2>7. CASE task' = [task EXCEPT ![t].at = "member", ![t].was = new]
    <3>1. task' = [task EXCEPT ![t] = x]
      BY <2>7
    <3> HIDE DEF x
    <3>2. Moves
      BY <2>5, <2>6, <3>1, TasksKeepShape
    <3>3. QED
      BY <1>10, <2>4, <3>2 DEF UpdateWrite, RosterShape
  <2>8. QED
    BY <1>2, <1>10, <2>3, <2>4, <2>7 DEF UpdateWrite, RosterShape
<1>11. CASE UpdateMember(t)
  <2>1. task[t].entry.camper \in Camper /\ task[t].was.claimedBy \in Person
    BY <1>0, <1>11, ListingIs DEF UpdateMember, WithEntry, Members
  <2>2. member' \in MemberType
    BY <1>11, <2>1 DEF UpdateMember, RosterShape, MemberType
  <2>3. QED
    BY <1>2, <1>11, <2>2 DEF UpdateMember, RosterShape
<1>12. CASE RemoveCamperRead(t)
  <2> DEFINE x == [task[t] EXCEPT !.at = "delete", !.was = roster[n]]
  <2>1. n \in RosterRow /\ roster[n] \in AnyRow
    BY <1>0, <1>12 DEF RemoveCamperRead, ByRow
  <2>2. x \in TaskType /\ x.at = "delete" /\ x.row = n
    BY <1>0, <2>1 DEF TaskType
  <2>3. Fitting(x)
    BY <2>1, <2>2 DEF Fitting, WithEntry, Inviting, ByRow
  <2>4. task' = [task EXCEPT ![t] = x]
    BY <1>12 DEF RemoveCamperRead
  <2> HIDE DEF x
  <2>5. Moves
    BY <2>2, <2>3, <2>4, TasksKeepShape
  <2>6. QED
    BY <1>1, <1>12, <2>5 DEF RemoveCamperRead
<1>13. CASE RemoveCamperWrite(t)
  <2> DEFINE row == [roster[n] EXCEPT !.status = "REVOKED"]
  <2>1. n \in RosterRow /\ roster[n] \in EntryRow
    BY <1>0, <1>13 DEF RemoveCamperWrite, ByRow
  <2>2. row \in EntryRow
    BY <1>0, <2>1, RowsWritten
  <2>3. roster' = [roster EXCEPT ![n] = row]
    BY <1>13 DEF RemoveCamperWrite
  <2> HIDE DEF row
  <2>4. roster' \in [RosterRow -> AnyRow]
    BY <2>1, <2>2, <2>3 DEF RosterShape, AnyRow
  <2>5. member' \in MemberType /\ slack' \in [Person -> SlackAccount \cup {NoAccount}]
    BY <1>13 DEF RemoveCamperWrite, RosterShape, MemberType
  <2>6. QED
    BY <1>2, <1>13, <2>4, <2>5 DEF RemoveCamperWrite, RosterShape
<1>14. CASE UploadReadUsers(t)
  <2> DEFINE us == UNION {UserNamed(task[t].sheet[k].name) : k \in DOMAIN task[t].sheet}
             x == [task[t] EXCEPT !.at = "commit", !.users = us]
  <2>1. us \in SUBSET Person
    BY DEF UserNamed, Registered
  <2>2. task' = [task EXCEPT ![t] = x]
    BY <1>14 DEF UploadReadUsers
  <2> HIDE DEF us
  <2>3. x \in TaskType /\ x.at = "commit" /\ x.sheet = task[t].sheet
    BY <1>0, <2>1 DEF TaskType
  <2>4. Fitting(x)
    BY <1>0, <1>14, <2>3 DEF UploadReadUsers, Fitting, WithEntry, Inviting, ByRow
  <2> HIDE DEF x
  <2>5. Moves
    BY <2>2, <2>3, <2>4, TasksKeepShape
  <2>6. QED
    BY <1>1, <1>14, <2>5 DEF UploadReadUsers
<1>15. CASE UploadCommit(t)
  <2> DEFINE k == Len(task[t].sheet)
             start == [ok |-> TRUE, roster |-> roster, member |-> member]
  <2>1. task[t].sheet \in Seq(CamperName) /\ k \in Nat
    BY OwnRow
  <2>2. PICK f : /\ Through(f, k, task[t].users, task[t].sheet, start)
                 /\ roster' = f[k].roster /\ member' = f[k].member
                 /\ TaskEnd(t) /\ UNCHANGED <<slack, found, rosterHistory>>
    BY <1>15, <2>1, CommitIs DEF TaskEnd
  <2>3. start \in UploadState
    BY DEF UploadState, RosterShape
  <2>4. \A j \in 1..k : \A at \in UploadState :
          UploadLine(task[t].users, task[t].sheet[j], at) \in UploadState
    BY <2>1, LineKeepsShape
  <2> HIDE DEF k, start
  <2>5. f[k] \in UploadState
    BY <2>1, <2>2, <2>3, <2>4, LinesKeep
  <2>6. QED
    BY <1>2, <2>2, <2>5 DEF UploadState, RosterShape
<1>16. QED
  BY <1>3, <1>4, <1>5, <1>6, <1>7, <1>8, <1>9, <1>10, <1>11, <1>12, <1>13, <1>14, <1>15 DEF TaskStep

\* A row that is used stays so.
RowsLast == \A n \in RosterRow : roster[n] \in EntryRow => roster'[n] \in EntryRow

LEMMA TaskRowsLast ==
  ASSUME RosterShape, InUse, NEW t \in Task, TaskStep(t)
  PROVE  RowsLast
<1> USE DEF tables
<1>0. /\ task[t] \in TaskType /\ Fitting(task[t])
      /\ task[t].at \in WithEntry => task[t].entry \in CamperName
      /\ task[t].at \in Inviting \cup ByRow => task[t].row \in RosterRow
      /\ task[t].at \in Inviting \cup ByRow => roster[task[t].row] \in EntryRow
      /\ \A n \in RosterRow : roster[n] \in AnyRow
  BY OwnRow DEF InUse
<1> DEFINE n == task[t].row
<1>1. ASSUME NEW m \in RosterRow, NEW x \in EntryRow, roster' = [roster EXCEPT ![m] = x]
      PROVE  RowsLast
  BY <1>1 DEF RowsLast, RosterShape
<1>2. CASE CreateUpsert(t)
  <2>1. PICK m \in UpsertTarget(roster, task[t].entry.camper) :
          roster' = [roster EXCEPT ![m] = Invited(@, task[t].entry)]
    BY <1>2 DEF CreateUpsert
  <2>2. m \in RosterRow /\ task[t].entry \in CamperName
    BY <1>0, <1>2, <2>1 DEF UpsertTarget, CreateUpsert, WithEntry
  <2>3. Invited(roster[m], task[t].entry) \in EntryRow
    BY <1>0, <2>2, RowsWritten
  <2>4. roster' = [roster EXCEPT ![m] = Invited(roster[m], task[t].entry)]
    BY <2>1
  <2>5. QED
    BY <1>1, <2>2, <2>3, <2>4
<1>3. CASE CreateClaim(t)
  <2> DEFINE row == [roster[n] EXCEPT !.status = "CLAIMED", !.claimedBy = task[t].entry.name.of]
  <2>1. n \in RosterRow /\ task[t].entry.name.of \in Person /\ roster[n] \in EntryRow
    BY <1>0, <1>3, ListingIs DEF CreateClaim, WithEntry, Inviting
  <2>2. row \in EntryRow
    BY <1>0, <2>1, RowsWritten
  <2>3. roster' = [roster EXCEPT ![n] = row]
    BY <1>3 DEF CreateClaim, RosterShape
  <2> HIDE DEF row
  <2>4. QED
    BY <1>1, <2>1, <2>2, <2>3
<1>4. CASE UpdateWrite(t)
  <2> DEFINE row == [roster[n] EXCEPT !.camper = task[t].entry.camper,
                                      !.name = task[t].entry.name]
  <2>1. n \in RosterRow /\ task[t].entry \in CamperName /\ roster[n] \in EntryRow
    BY <1>0, <1>4 DEF UpdateWrite, WithEntry, ByRow
  <2>2. row \in EntryRow
    BY <1>0, <2>1, RowsWritten
  <2>3. roster' = [roster EXCEPT ![n] = row]
    BY <1>4 DEF UpdateWrite
  <2> HIDE DEF row
  <2>4. QED
    BY <1>1, <2>1, <2>2, <2>3
<1>5. CASE RemoveCamperWrite(t)
  <2> DEFINE row == [roster[n] EXCEPT !.status = "REVOKED"]
  <2>1. n \in RosterRow /\ roster[n] \in EntryRow
    BY <1>0, <1>5 DEF RemoveCamperWrite, ByRow
  <2>2. row \in EntryRow
    BY <1>0, <2>1, RowsWritten
  <2>3. roster' = [roster EXCEPT ![n] = row]
    BY <1>5 DEF RemoveCamperWrite
  <2> HIDE DEF row
  <2>4. QED
    BY <1>1, <2>1, <2>2, <2>3
<1>6. CASE UploadCommit(t)
  <2> DEFINE k == Len(task[t].sheet)
             start == [ok |-> TRUE, roster |-> roster, member |-> member]
             S == {at \in UploadState :
                     \A m \in RosterRow : roster[m] \in EntryRow => at.roster[m] \in EntryRow}
  <2>1. task[t].sheet \in Seq(CamperName) /\ k \in Nat
    BY OwnRow
  <2>2. PICK f : /\ Through(f, k, task[t].users, task[t].sheet, start)
                 /\ roster' = f[k].roster
    BY <1>6, <2>1, CommitIs
  <2>3. start \in S
    BY DEF UploadState, RosterShape
  <2>4. ASSUME NEW j \in 1..k, NEW at \in S
        PROVE  UploadLine(task[t].users, task[t].sheet[j], at) \in S
    <3> DEFINE e == task[t].sheet[j]
               us == task[t].users
    <3>1. e \in CamperName
      BY <2>1
    <3> HIDE DEF k, start, e, us
    <3>2. UploadLine(us, e, at) \in UploadState
      BY <3>1, LineKeepsShape
    <3>3. ASSUME NEW m \in RosterRow, at.roster[m] \in EntryRow
          PROVE  UploadLine(us, e, at).roster[m] \in EntryRow
      BY <3>1, <3>3, LineKeepsRows
    <3>4. QED
      BY <3>2, <3>3 DEF e, us
  <2> HIDE DEF k, start, S
  <2>5. f[k] \in S
    BY <2>1, <2>2, <2>3, <2>4, LinesKeep
  <2>6. QED
    BY <2>2, <2>5 DEF S, RowsLast
<1>7. CASE UNCHANGED roster
  BY <1>7 DEF RowsLast
<1>8. QED
  BY <1>2, <1>3, <1>4, <1>5, <1>6, <1>7 DEF TaskStep, CreateCheck, CreateFindUser, UpdateCheck,
     UpdateMember, RemoveCamperRead, UploadReadUsers, ProfileRead, ProfileWrite

LEMMA ShapeStarts == Init => RosterShape /\ InUse
<1> SUFFICES ASSUME Init PROVE RosterShape /\ InUse
  OBVIOUS
<1>1. PICK b \in Budgets : tasksLeft = b.tasks
  BY DEF Init, RosterInit
<1>2. tasksLeft \in Nat
  BY <1>1, BudgetsAreBounds
<1>3. Rest \in TaskType /\ Fitting(Rest) /\ Rest.at = "idle"
  BY DEF Rest, TaskType, Fitting, WithEntry, Inviting, ByRow, AnyRow
<1>4. RosterShape
  BY <1>2, <1>3 DEF Init, RosterInit, RosterShape, AnyRow, MemberType
<1>5. InUse
  BY <1>3 DEF Init, RosterInit, InUse, Inviting, ByRow
<1>6. QED
  BY <1>4, <1>5

\* What a first login does to the rows it found.
LEMMA LoginClaims ==
  ASSUME RosterShape, InUse, Shape, NEW r \in Request, ClaimAtLogin(r)
  PROVE  LET p == req[r].who
         IN /\ p \in Person
            /\ \A n \in RosterRow :
                 IF n \in RowsIn(found[r])
                 THEN /\ roster'[n] \in EntryRow
                      /\ roster'[n].camper = roster[n].camper /\ roster'[n].name = roster[n].name
                      /\ roster'[n].status = "CLAIMED" /\ roster'[n].claimedBy = p
                 ELSE roster'[n] = roster[n]
            /\ roster' \in [RosterRow -> AnyRow]
            /\ found' = [found EXCEPT ![r] = {}]
            /\ member' \in MemberType
            /\ \A q \in Person : q # p => member'[q] = member[q]
            /\ found[r] = {} => member' = member
            /\ \A x \in found[r] : member'[p] = x.camper
            /\ \A x, y \in found[r] : x = y
            /\ \A x \in found[r] : Holders(x.camper) = {}
            /\ UNCHANGED <<slack, task, tasksLeft, disturbed, refused>>
<1> DEFINE p == req[r].who
           claims == found[r]
           row(n) == [roster[n] EXCEPT !.status = "CLAIMED", !.claimedBy = p]
<1>1. p \in Person
  BY Holds, OpAt DEF ClaimAtLogin, LoginCommit
<1>2. /\ RowsIn(claims) \subseteq RosterRow /\ \A n \in RowsIn(claims) : roster[n] \in EntryRow
      /\ \A x \in claims : x.camper \in Camper
  BY DEF RosterShape, InUse, RowsIn
<1>3. ASSUME NEW n \in RowsIn(claims)
      PROVE  /\ row(n) \in EntryRow
             /\ row(n).camper = roster[n].camper /\ row(n).name = roster[n].name
             /\ row(n).status = "CLAIMED" /\ row(n).claimedBy = p
  <2>1. roster[n] \in EntryRow /\ roster[n] \in AnyRow
    BY <1>2 DEF AnyRow
  <2>2. QED
    BY <1>1, <2>1 DEF EntryRow
<1>4. roster' = [n \in RosterRow |-> IF n \in RowsIn(claims) THEN row(n) ELSE roster[n]]
  <2>1. \A n : n \in RowsIn(claims) <=> \E x \in claims : x.row = n
    BY DEF RowsIn
  <2>2. roster' = [n \in RosterRow |-> IF \E x \in claims : x.row = n THEN row(n) ELSE roster[n]]
    BY DEF ClaimAtLogin
  <2> HIDE DEF row, claims
  <2>3. QED
    BY <2>1, <2>2
<1> HIDE DEF row
<1>5. \A n \in RosterRow :
        IF n \in RowsIn(claims)
        THEN /\ roster'[n] \in EntryRow
             /\ roster'[n].camper = roster[n].camper /\ roster'[n].name = roster[n].name
             /\ roster'[n].status = "CLAIMED" /\ roster'[n].claimedBy = p
        ELSE roster'[n] = roster[n]
  BY <1>3, <1>4
<1>6. roster' \in [RosterRow -> AnyRow]
  BY <1>3, <1>4 DEF AnyRow, RosterShape
<1>7. ClaimPossible(claims)
  BY DEF ClaimAtLogin
<1>8. \A x, y \in claims : x = y
  BY <1>7 DEF ClaimPossible
<1>9. \A x \in claims : Holders(x.camper) = {}
  BY <1>7 DEF ClaimPossible
<1>10. member' = [member EXCEPT ![p] =
         IF claims = {} THEN @ ELSE (CHOOSE x \in claims : TRUE).camper]
  BY DEF ClaimAtLogin
<1>11. claims # {} => (CHOOSE x \in claims : TRUE) \in claims
  OBVIOUS
<1>12. member' \in MemberType /\ \A q \in Person : q # p => member'[q] = member[q]
  BY <1>1, <1>2, <1>10, <1>11 DEF MemberType, RosterShape
<1>13. claims = {} => member' = member
  BY <1>10 DEF MemberType, RosterShape
<1>14. \A x \in claims : member'[p] = x.camper
  BY <1>1, <1>8, <1>10, <1>11 DEF MemberType, RosterShape
<1>15. QED
  BY <1>1, <1>5, <1>6, <1>8, <1>9, <1>12, <1>13, <1>14 DEF ClaimAtLogin, rosterHistory

LEMMA BeginIs ==
  ASSUME NEW t \in Task, RosterShape, TaskArrival(t)
  PROVE  /\ task[t] = Rest /\ \A u \in Task : u # t => task'[u] = task[u]
         /\ UNCHANGED <<accountVars, tables, found, refused>>
  BY DEF TaskArrival, CreateBegin, UpdateBegin, RemoveCamperBegin, UploadBegin, ProfileBegin,
     TaskBegin, RosterShape

\* Shape and use of the rows, step by step.
LEMMA RosterShapeStep ==
  ASSUME Shape, RosterShape, InUse, [Next]_vars
  PROVE  RosterShape' /\ RowsLast
<1> USE DEF tables, rosterHistory
<1>1. ASSUME UNCHANGED rosterVars PROVE RosterShape' /\ RowsLast
  BY <1>1 DEF rosterVars, RosterShape, RowsLast
<1>2. ASSUME NEW t \in Task, TaskArrival(t) PROVE RosterShape' /\ RowsLast
  BY <1>2, ArrivalIsShaped, BeginIs DEF RowsLast
<1>3. ASSUME NEW t \in Task, TaskStep(t) PROVE RosterShape' /\ RowsLast
  BY <1>3, TaskStepKeepsShape, TaskRowsLast
<1>4. ASSUME NEW t \in Task, TaskDies(t) PROVE RosterShape' /\ RowsLast
  <2>1. task' \in [Task -> TaskType] /\ \A u \in Task : Fitting(task'[u])
    BY <1>4, TasksKeepShape DEF TaskDies
  <2>2. QED
    BY <1>4, <2>1 DEF TaskDies, RosterShape, RowsLast
<1>5. ASSUME NEW r \in Request, NEW p \in Person, RosterAtLogin(r, p)
      PROVE  RosterShape' /\ RowsLast
  BY <1>5 DEF RosterAtLogin, Disturb, Clashes, RosterShape, RowsLast
<1>6. ASSUME NEW r \in Request, ReadInvited(r) PROVE RosterShape' /\ RowsLast
  <2>1. OwnRows(roster, req[r].who) \subseteq [row : RosterRow, camper : Camper]
    BY OwnRowsAre DEF RosterShape
  <2>2. QED
    BY <1>6, <2>1 DEF ReadInvited, RosterShape, RowsLast
<1>7. ASSUME NEW r \in Request, ClaimAtLogin(r) PROVE RosterShape' /\ RowsLast
  <2>1. /\ roster' \in [RosterRow -> AnyRow] /\ member' \in MemberType
        /\ found' = [found EXCEPT ![r] = {}]
        /\ \A n \in RosterRow : roster'[n] = roster[n] \/ roster'[n] \in EntryRow
        /\ UNCHANGED <<slack, task, tasksLeft, disturbed, refused>>
    BY <1>7, LoginClaims
  <2>2. QED
    BY <2>1 DEF RosterShape, RowsLast
<1>8. ASSUME NEW r \in Request, ClaimRefused(r) PROVE RosterShape' /\ RowsLast
  <2>1. req[r].who \in Person
    BY <1>8, Holds, OpAt DEF ClaimRefused
  <2>2. QED
    BY <1>8, <2>1 DEF ClaimRefused, RosterShape, RowsLast
<1>9. ASSUME NEW r \in Request, LoginCutShort(r) PROVE RosterShape' /\ RowsLast
  BY <1>9 DEF LoginCutShort, RosterShape, RowsLast
<1>10. CASE UNCHANGED vars
  BY <1>1, <1>10 DEF vars
<1>11. QED
  BY <1>1, <1>2, <1>3, <1>4, <1>5, <1>6, <1>7, <1>8, <1>9, <1>10 DEF Next

\* The requests that hold a row after a step held it before, or the row is used.
LEMMA InUseStep ==
  ASSUME Shape, RosterShape, InUse, [Next]_vars
  PROVE  InUse'
<1> USE DEF tables, rosterHistory
<1>0. RosterShape' /\ RowsLast
  BY RosterShapeStep
<1>1. \A u \in Task : task[u] \in TaskType /\ Fitting(task[u])
                     /\ task'[u] \in TaskType /\ Fitting(task'[u])
  BY <1>0 DEF RosterShape
<1>2. SUFFICES ASSUME TRUE
               PROVE  /\ \A u \in Task : task'[u].at \in Inviting \cup ByRow =>
                           \/ task[u].at \in Inviting \cup ByRow /\ task'[u].row = task[u].row
                           \/ roster'[task'[u].row] \in EntryRow
                      /\ \A r \in Request : \A x \in found'[r] :
                           x \in found[r] \/ roster'[x.row] \in EntryRow
  BY <1>0, <1>1 DEF InUse, RowsLast, Fitting, RosterShape
<1> DEFINE Tasks == \A u \in Task : task'[u].at \in Inviting \cup ByRow =>
                      \/ task[u].at \in Inviting \cup ByRow /\ task'[u].row = task[u].row
                      \/ roster'[task'[u].row] \in EntryRow
           Founds == \A r \in Request : \A x \in found'[r] :
                       x \in found[r] \/ roster'[x.row] \in EntryRow
<1>3. UNCHANGED task => Tasks
  OBVIOUS
<1>4. UNCHANGED found => Founds
  OBVIOUS
<1>5. Rest.at \notin Inviting \cup ByRow
  BY DEF Rest, Inviting, ByRow
<1>6. ASSUME NEW t \in Task, TaskEnd(t) PROVE Tasks
  BY <1>5, <1>6 DEF TaskEnd, RosterShape
<1>7. ASSUME NEW t \in Task, TaskArrival(t) PROVE Tasks /\ Founds
  <2>1. ASSUME NEW x \in TaskType, x.at \in Inviting \cup ByRow => roster'[x.row] \in EntryRow,
               task' = [task EXCEPT ![t] = x]
        PROVE  Tasks
    BY <2>1 DEF RosterShape
  <2>2. \A n \in RosterRow : roster'[n].status # "unused" => roster'[n] \in EntryRow
    BY <1>0, RowIs DEF RosterShape
  <2>3. UNCHANGED <<roster, found>>
    BY <1>7, BeginIs
  <2>4. CASE \E e \in Entry : CreateBegin(t, e)
    BY <2>1, <2>4, ArrivalsFit DEF CreateBegin, TaskBegin, Rest, Inviting, ByRow
  <2>5. CASE \E s \in Sheet : UploadBegin(t, s)
    BY <2>1, <2>5, ArrivalsFit DEF UploadBegin, TaskBegin, Rest, Inviting, ByRow
  <2>6. CASE \E p \in Person, a \in SlackAccount : ProfileBegin(t, p, a)
    BY <2>1, <2>6, ArrivalsFit DEF ProfileBegin, TaskBegin, Rest, Inviting, ByRow
  <2>7. ASSUME NEW n \in RosterRow, NEW e \in Entry, UpdateBegin(t, n, e) PROVE Tasks
    <3> DEFINE x == [Rest EXCEPT !.at = "conflict", !.row = n, !.entry = e]
    <3>1. x \in TaskType /\ x.row = n /\ task' = [task EXCEPT ![t] = x]
          /\ roster'[n] \in EntryRow
      BY <2>2, <2>3, <2>7, ArrivalsFit DEF UpdateBegin, TaskBegin, Rest
    <3> HIDE DEF x
    <3>2. QED
      BY <2>1, <3>1
  <2>8. ASSUME NEW n \in RosterRow, RemoveCamperBegin(t, n) PROVE Tasks
    <3> DEFINE x == [Rest EXCEPT !.at = "remove", !.row = n]
    <3>1. x \in TaskType /\ x.row = n /\ task' = [task EXCEPT ![t] = x]
          /\ roster'[n] \in EntryRow
      BY <2>2, <2>3, <2>8, ArrivalsFit DEF RemoveCamperBegin, TaskBegin, Rest
    <3> HIDE DEF x
    <3>2. QED
      BY <2>1, <3>1
  <2>9. QED
    BY <1>4, <1>7, <2>3, <2>4, <2>5, <2>6, <2>7, <2>8 DEF TaskArrival
<1>8. ASSUME NEW t \in Task, TaskStep(t) PROVE Tasks /\ Founds
  <2>1. UNCHANGED found
    BY <1>8 DEF TaskStep, CreateCheck, CreateUpsert, CreateFindUser, CreateClaim,
       UpdateCheck, UpdateWrite, UpdateMember, RemoveCamperRead, RemoveCamperWrite,
       UploadReadUsers, UploadCommit, ProfileRead, ProfileWrite
  <2>13. SUFFICES Tasks
    BY <1>4, <2>1
  <2>2. task[t] \in TaskType
    BY <1>1
  <2>3. ASSUME NEW x, x.at \in Inviting \cup ByRow =>
                 task[t].at \in Inviting \cup ByRow /\ x.row = task[t].row,
               task' = [task EXCEPT ![t] = x]
        PROVE  Tasks
    BY <2>3 DEF RosterShape
  <2>4. ASSUME NEW s, TaskTo(t, s),
               s \in Inviting \cup ByRow => task[t].at \in Inviting \cup ByRow
        PROVE  Tasks
    <3> DEFINE x == [task[t] EXCEPT !.at = s]
    <3>1. x.at = s /\ x.row = task[t].row /\ task' = [task EXCEPT ![t] = x]
      BY <2>2, <2>4 DEF TaskTo, TaskType
    <3> HIDE DEF x
    <3>2. QED
      BY <2>3, <2>4, <3>1
  <2>5. CASE CreateUpsert(t)
    <3>1. PICK m \in UpsertTarget(roster, task[t].entry.camper) :
            /\ roster' = [roster EXCEPT ![m] = Invited(@, task[t].entry)]
            /\ task' = [task EXCEPT ![t].at = "user", ![t].row = m]
      BY <2>5 DEF CreateUpsert
    <3>2. m \in RosterRow /\ task[t].entry \in CamperName /\ roster[m] \in AnyRow
      BY <2>5, <3>1, OwnRow DEF UpsertTarget, CreateUpsert, WithEntry, RosterShape
    <3>3. roster'[m] \in EntryRow
      <4>1. roster'[m] = Invited(roster[m], task[t].entry)
        BY <3>1, <3>2 DEF RosterShape
      <4>2. Invited(roster[m], task[t].entry) \in EntryRow
        BY <3>2, RowsWritten
      <4>3. QED
        BY <4>1, <4>2
    <3>4. task'[t].row = m /\ \A u \in Task : u # t => task'[u] = task[u]
      <4> DEFINE x == [task[t] EXCEPT !.at = "user", !.row = m]
      <4>1. task' = [task EXCEPT ![t] = x] /\ x.row = m
        BY <2>2, <3>1 DEF TaskType
      <4> HIDE DEF x
      <4>2. QED
        BY <4>1 DEF RosterShape
    <3>5. QED
      BY <3>3, <3>4
  <2>6. CASE UpdateWrite(t)
    <3> DEFINE new == [roster[task[t].row] EXCEPT !.camper = task[t].entry.camper,
                                                  !.name = task[t].entry.name]
               x == [task[t] EXCEPT !.at = "member", !.was = new]
    <3>1. TaskEnd(t) \/ task' = [task EXCEPT ![t] = x]
      BY <2>6 DEF UpdateWrite
    <3>2. x.row = task[t].row /\ task[t].at \in ByRow
      BY <2>2, <2>6 DEF TaskType, UpdateWrite, ByRow
    <3> HIDE DEF x, new
    <3>3. QED
      BY <1>6, <2>3, <3>1, <3>2
  <2>7. CASE RemoveCamperRead(t)
    <3> DEFINE x == [task[t] EXCEPT !.at = "delete", !.was = roster[task[t].row]]
    <3>1. task' = [task EXCEPT ![t] = x]
      BY <2>7 DEF RemoveCamperRead
    <3>2. x.row = task[t].row /\ task[t].at \in ByRow
      BY <2>2, <2>7 DEF TaskType, RemoveCamperRead, ByRow
    <3> HIDE DEF x
    <3>3. QED
      BY <2>3, <3>1, <3>2
  <2>8. CASE UploadReadUsers(t)
    <3> DEFINE us == UNION {UserNamed(task[t].sheet[k].name) : k \in DOMAIN task[t].sheet}
               x == [task[t] EXCEPT !.at = "commit", !.users = us]
    <3>1. task' = [task EXCEPT ![t] = x]
      BY <2>8 DEF UploadReadUsers
    <3> HIDE DEF us
    <3>2. x.at = "commit"
      BY <2>2 DEF TaskType
    <3> HIDE DEF x
    <3>3. QED
      BY <2>3, <3>1, <3>2 DEF Inviting, ByRow
  <2>9. CASE UploadCommit(t)
    <3>1. TaskEnd(t)
      BY <2>9 DEF UploadCommit
    <3>2. QED
      BY <1>6, <3>1
  <2>10. CASE CreateCheck(t) \/ CreateFindUser(t) \/ UpdateCheck(t) \/ ProfileRead(t)
    BY <1>6, <2>4, <2>10 DEF CreateCheck, CreateFindUser, UpdateCheck, ProfileRead, Inviting, ByRow
  <2>11. CASE CreateClaim(t) \/ UpdateMember(t) \/ RemoveCamperWrite(t) \/ ProfileWrite(t)
    BY <1>6, <2>11 DEF CreateClaim, UpdateMember, RemoveCamperWrite, ProfileWrite
  <2>12. QED
    BY <1>4, <1>8, <2>1, <2>5, <2>6, <2>7, <2>8, <2>9, <2>10, <2>11 DEF TaskStep
<1>9. ASSUME NEW t \in Task, TaskDies(t) PROVE Tasks /\ Founds
  BY <1>4, <1>6, <1>9 DEF TaskDies
<1>10. ASSUME NEW r \in Request, NEW p \in Person, RosterAtLogin(r, p) PROVE Tasks /\ Founds
  BY <1>3, <1>4, <1>10 DEF RosterAtLogin
<1>11. ASSUME NEW r \in Request, ReadInvited(r) PROVE Tasks /\ Founds
  <2>1. \A x \in OwnRows(roster, req[r].who) : roster[x.row] \in EntryRow
    BY OwnRowsAre DEF RosterShape
  <2>2. UNCHANGED roster
    BY <1>11 DEF ReadInvited
  <2>3. QED
    BY <1>3, <1>11, <2>1, <2>2 DEF ReadInvited, RosterShape
<1>12. ASSUME NEW r \in Request, ClaimAtLogin(r) \/ ClaimRefused(r) \/ LoginCutShort(r)
       PROVE  Tasks /\ Founds
  BY <1>3, <1>12 DEF ClaimAtLogin, ClaimRefused, LoginCutShort, RosterShape
<1>13. CASE UNCHANGED rosterVars
  BY <1>3, <1>4, <1>13 DEF rosterVars
<1>14. QED
  BY <1>7, <1>8, <1>9, <1>10, <1>11, <1>12, <1>13 DEF Next, vars

LEMMA ShapeGivesType == Shape /\ RosterShape => TypeOK
<1> SUFFICES ASSUME Shape, RosterShape PROVE TypeOK
  OBVIOUS
<1>1. AnyRow \subseteq RowType
  BY RowIs
<1>2. roster \in [RosterRow -> RowType]
  BY <1>1 DEF RosterShape
<1>3. TaskType \subseteq
        [at : {"idle", "check", "upsert", "user", "claim", "conflict", "write",
               "member", "remove", "delete", "sheet", "commit", "profile", "slack"},
         entry : Entry \cup {NoEntry}, row : RosterRow \cup {NoRow}, was : RowType,
         sheet : Sheet \cup {<<>>}, users : SUBSET Person,
         who : Person \cup {Nobody}, account : SlackAccount \cup {NoAccount}]
  BY <1>1 DEF TaskType
<1>4. QED
  BY <1>2, <1>3, ShapeImpliesType DEF TypeOK, RosterShape, MemberType

LEMMA ShapedAlways == Spec => [](Sound /\ RosterShape /\ InUse)
<1>1. Init => Sound /\ RosterShape /\ InUse
  BY SoundInit, ShapeStarts DEF Init
<1>2. Sound /\ RosterShape /\ InUse /\ [Next]_vars => (Sound /\ RosterShape /\ InUse)'
  BY SoundStep, RosterStepsAccounts, RosterShapeStep, InUseStep DEF Sound
<1>3. QED
  BY <1>1, <1>2, PTL DEF Spec

\* Every variable of the roster keeps its type: what a request has read before it
\* writes, the rows and the memberships (organizations.service.ts).
THEOREM RosterTypeCorrect == Spec => []TypeOK
  BY ShapedAlways, ShapeGivesType, PTL DEF Sound
-----------------------------------------------------------------------------
(* Who is registered. *)

\* A user is made by the commit of a first login, and never goes.
Registers(r) == LoginCommit(r) /\ Registered' = Registered \cup {req[r].who}

LEMMA RegisteredChanges ==
  ASSUME Sound, Enrolled, [AccountsNext]_accountVars
  PROVE  UNCHANGED Registered \/ \E r \in Request : Registers(r)
<1> USE DEF rows, history
<1>0. Shape
  BY DEF Sound
<1>1. UNCHANGED role => UNCHANGED Registered
  BY DEF Registered
<1>2. ASSUME NEW p \in Person, Promote(p) PROVE Registered' = Registered \cup {p}
  BY <1>0, <1>2 DEF Promote, Registered, Shape
<1>3. ASSUME NEW r \in Request, LoginAccept(r) PROVE UNCHANGED Registered
  <2>1. req[r].who \in Registered /\ req[r].who \in Person
    BY <1>3 DEF LoginAccept, Enrolled, Registered
  <2>2. Promote(req[r].who)
    BY <1>3 DEF LoginAccept
  <2>3. QED
    BY <1>2, <2>1, <2>2
<1>4. ASSUME NEW r \in Request, RemoveWrite(r) PROVE UNCHANGED Registered
  <2>1. req[r].who \in Registered
    BY <1>4 DEF RemoveWrite, Enrolled
  <2>2. role' = [role EXCEPT ![req[r].who] = "USER"]
    BY <1>4 DEF RemoveWrite
  <2>3. QED
    BY <1>0, <2>1, <2>2 DEF Registered, Shape
<1>5. ASSUME NEW r \in Request, LoginCommit(r) PROVE Registers(r)
  <2>1. req[r].who \in Person
    BY <1>0, <1>5, Holds, OpAt DEF LoginCommit
  <2>2. Promote(req[r].who) \/ role' = [role EXCEPT ![req[r].who] = "USER"]
    BY <1>5 DEF LoginCommit
  <2>3. Registered' = Registered \cup {req[r].who}
    BY <1>0, <1>2, <2>1, <2>2 DEF Registered, Shape
  <2>4. QED
    BY <1>5, <2>3 DEF Registers
<1>6. UNCHANGED role
      \/ \E r \in Request : LoginAccept(r) \/ LoginCommit(r) \/ RemoveWrite(r)
  BY DEF AccountsNext, accountVars, Arrival, InviteBegin, RemoveBegin, RevokeBegin,
     LoginBegin, Begin, AdminStep, InviteCheckAdmin, InviteCheckPending, InviteCreate,
     RevokeRead, RevokeWrite, RemoveRead, RemoveCount, LoginStep, LoginFindAccount,
     LoginFindUser, LoginLink, LoginFindInvitation, LoginAcceptRefused, LoginIssue,
     LoginReadRoster, LoginRegister, CutShort, LoginInternal, Logout
<1>7. QED
  BY <1>1, <1>3, <1>4, <1>5, <1>6

Settling == {"link", "invitation", "accept", "issue", "count", "demote"}

LEMMA EnrolledStep ==
  ASSUME Sound, Enrolled, [AccountsNext]_accountVars
  PROVE  Enrolled'
<1> USE DEF rows, history
<1>0. Shape
  BY DEF Sound
<1>1. Registered \subseteq Registered'
  BY RegisteredChanges DEF Registers
<1>2. linked' \subseteq Registered'
  <2>1. UNCHANGED linked \/ \E r \in Request : LoginLink(r) \/ LoginCommit(r)
    BY DEF AccountsNext, accountVars, Arrival, InviteBegin, RemoveBegin, RevokeBegin,
       LoginBegin, Begin, AdminStep, InviteCheckAdmin, InviteCheckPending, InviteCreate,
       RevokeRead, RevokeWrite, RemoveRead, RemoveCount, RemoveWrite, LoginStep, LoginFindAccount,
       LoginFindUser, LoginFindInvitation, LoginAccept, LoginAcceptRefused, LoginIssue,
       LoginReadRoster, LoginRegister, CutShort, LoginInternal, Logout
  <2>2. ASSUME NEW r \in Request, LoginLink(r) PROVE linked' \subseteq Registered'
    BY <1>1, <2>2 DEF LoginLink, Enrolled
  <2>3. ASSUME NEW r \in Request, LoginCommit(r) PROVE linked' \subseteq Registered'
    <3>1. req[r].who \in Person /\ role'[req[r].who] # "none"
      <4>1. req[r].who \in Person
        BY <1>0, <2>3, Holds, OpAt DEF LoginCommit
      <4>2. QED
        BY <1>0, <2>3, <4>1 DEF LoginCommit, Promote, Shape
    <3>2. QED
      BY <1>1, <2>3, <3>1 DEF LoginCommit, Enrolled, Registered
  <2>4. QED
    BY <1>1, <2>1, <2>2, <2>3 DEF Enrolled
<1>3. ASSUME NEW q \in Request, req'[q].at \in Settling PROVE req'[q].who \in Registered'
  <2> DEFINE Kept == req[q].who \in Registered /\ req'[q].who = req[q].who
  <2>0. ASSUME Kept PROVE req'[q].who \in Registered'
    BY <1>1, <2>0
  <2>1. \A s : MoveTo(q, s) => req'[q].at = s /\ req'[q].who = req[q].who
    BY <1>0, Moved
  <2>2. \A s, i : MoveWith(q, s, i) => req'[q].at = s /\ req'[q].who = req[q].who
    BY <1>0, MovedWith
  <2>3. ~End(q)
    BY <1>0, <1>3, Ended, IdleIs DEF Settling
  <2>4. CASE req'[q] = req[q]
    BY <1>3, <2>0, <2>4 DEF Enrolled, Settling
  <2>5. CASE LoginFindAccount(q)
    BY <1>3, <2>0, <2>1, <2>5 DEF LoginFindAccount, Enrolled, Settling
  <2>6. CASE LoginFindUser(q)
    <3>1. req[q].who \in Person
      BY <1>0, <2>6, Holds, OpAt DEF LoginFindUser
    <3>2. QED
      BY <1>3, <2>0, <2>1, <2>6, <3>1 DEF LoginFindUser, Settling, Registered
  <2>7. CASE LoginLink(q)
    BY <1>3, <2>0, <2>1, <2>3, <2>7 DEF LoginLink, Enrolled
  <2>8. CASE LoginFindInvitation(q)
    BY <1>3, <2>0, <2>1, <2>2, <2>8 DEF LoginFindInvitation, Enrolled
  <2>9. CASE LoginAccept(q)
    BY <1>3, <2>0, <2>1, <2>9 DEF LoginAccept, Enrolled
  <2>10. CASE RemoveRead(q)
    <3>1. req[q].who \in Person
      BY <1>0, <2>10, Holds, OpAt DEF RemoveRead
    <3>2. QED
      BY <1>3, <2>0, <2>1, <2>3, <2>10, <3>1 DEF RemoveRead, Registered
  <2>11. CASE RemoveCount(q)
    BY <1>3, <2>0, <2>1, <2>3, <2>11 DEF RemoveCount, Enrolled
  <2>12. CASE InviteCheckAdmin(q) \/ InviteCheckPending(q) \/ RevokeRead(q) \/ LoginReadRoster(q)
    BY <1>3, <2>1, <2>3, <2>12 DEF InviteCheckAdmin, InviteCheckPending, RevokeRead,
       LoginReadRoster, Settling
  <2>13. CASE LoginRegister(q)
    BY <1>3, <2>1, <2>2, <2>13 DEF LoginRegister, Settling
  <2>14. ASSUME NEW r \in Request, r # q, AdminStep(r) \/ LoginStep(r)
         PROVE  req'[q].who \in Registered'
    BY <1>0, <2>4, <2>14, StepGoes DEF Goes
  <2>15. CASE AdminStep(q)
    BY <2>3, <2>10, <2>11, <2>12, <2>15 DEF AdminStep, InviteCreate, RevokeWrite, RemoveWrite
  <2>16. CASE LoginStep(q)
    BY <2>3, <2>5, <2>6, <2>7, <2>8, <2>9, <2>12, <2>13, <2>16 DEF LoginStep,
       LoginAcceptRefused, LoginIssue, LoginCommit
  <2>17. ASSUME NEW r \in Request, Arrival(r) PROVE req'[q].who \in Registered'
    BY <1>0, <1>3, <2>4, <2>17, ArrivalIs DEF Arrived, Settling
  <2>18. ASSUME NEW r \in Request, CutShort(r) PROVE req'[q].who \in Registered'
    BY <1>0, <2>3, <2>4, <2>18, Ended DEF CutShort
  <2>19. CASE UNCHANGED req
    BY <2>4, <2>19
  <2>20. QED
    BY <2>14, <2>15, <2>16, <2>17, <2>18, <2>19 DEF AccountsNext, accountVars, LoginInternal, Logout
<1>4. QED
  BY <1>2, <1>3 DEF Enrolled, Settling
-----------------------------------------------------------------------------
(* What the writes of the requests keep of the rows and the memberships.    *)

LEMMA RowSets ==
  ASSUME NEW ro \in [RosterRow -> AnyRow], NEW n \in RosterRow
  PROVE  /\ n \in Standing(ro) <=> ro[n].status \in {"INVITED", "CLAIMED", "REVOKED"}
         /\ n \in Standing(ro) => ro[n] \in EntryRow /\ ro[n].camper \in Camper
                                  /\ ro[n].name.of \in Person
                                  /\ ro[n].name = [of |-> ro[n].name.of, exact |-> ro[n].name.exact]
         /\ n \in Alive(ro) <=> ro[n].status \in {"INVITED", "CLAIMED"}
         /\ n \in Claimed(ro) <=> ro[n].status = "CLAIMED"
         /\ Claimed(ro) \subseteq Alive(ro) /\ Alive(ro) \subseteq Standing(ro)
         /\ Standing(ro) \subseteq RosterRow
<1>1. ro[n] \in AnyRow
  OBVIOUS
<1>2. QED
  BY <1>1, RowIs DEF Standing, Alive, Claimed

\* The names of rows that are exact are the same when their persons are.
LEMMA NamesAre ==
  ASSUME NEW ro \in [RosterRow -> AnyRow], NEW n \in RosterRow, NEW e \in CamperName,
         n \in Standing(ro), ro[n].name.exact, e.name.exact
  PROVE  ro[n].name = e.name <=> ro[n].name.of = e.name.of
<1>1. ro[n].name \in Name /\ e.name \in Name
  BY RowSets, ListingIs DEF EntryRow
<1>2. QED
  BY <1>1 DEF Name

\* createCamper and uploadCampers invite by a row that is not active, when no
\* active row has the camper id or the name and no membership waits for the id.
LEMMA InvitingIsSound ==
  ASSUME NEW ro \in [RosterRow -> AnyRow], NEW me \in MemberType, NEW reg, NEW mid, NEW pend,
         RowsSound(ro, me, reg, mid, pend),
         NEW e \in CamperName, e.name.exact, Free(ro, e, {}),
         \A m \in Claimed(ro) \cap mid : me[ro[m].claimedBy] # e.camper,
         NEW n \in RosterRow, n \notin Alive(ro),
         \A m \in Standing(ro) : ro[m].camper = e.camper => m = n,
         NEW new \in [RosterRow -> AnyRow],
         \A m \in RosterRow : m # n => new[m] = ro[m],
         new[n].camper = e.camper, new[n].name = e.name, new[n].status = "INVITED"
  PROVE  RowsSound(new, me, reg, mid, pend \cup {n})
<1> USE DEF RowsSound
<1>0. /\ \A m \in RosterRow : m # n =>
           /\ m \in Standing(new) <=> m \in Standing(ro)
           /\ m \in Alive(new) <=> m \in Alive(ro)
           /\ m \in Claimed(new) <=> m \in Claimed(ro)
      /\ n \in Standing(new) /\ n \in Alive(new) /\ n \notin Claimed(new)
      /\ n \notin Claimed(ro)
      /\ Standing(new) \subseteq RosterRow /\ Alive(new) \subseteq Standing(new)
      /\ Claimed(new) \subseteq Alive(new)
      /\ Standing(ro) \subseteq RosterRow /\ Alive(ro) \subseteq Standing(ro)
      /\ Claimed(ro) \subseteq Alive(ro)
  BY DEF Standing, Alive, Claimed
<1>1. \A k, m \in Standing(new) : new[k].camper = new[m].camper => k = m
  BY <1>0
<1>2. \A p, q \in Person : me[p] = me[q] /\ me[p] # NoCamper => p = q
  OBVIOUS
<1>3. \A m \in Standing(new) : new[m].name.exact
  BY <1>0
<1>4. \A k, m \in Alive(new) : new[k].name.of = new[m].name.of => k = m
  <2>1. \A m \in Alive(ro) : ro[m].name.of # e.name.of
    BY NamesAre, <1>0 DEF Free
  <2>2. QED
    BY <1>0, <2>1
<1>5. ASSUME NEW m \in Claimed(new)
      PROVE  /\ new[m].claimedBy = new[m].name.of
             /\ new[m].claimedBy \in reg
             /\ me[new[m].claimedBy] # NoCamper
             /\ m \in mid \/ me[new[m].claimedBy] = new[m].camper
             /\ \A k \in Standing(new) : new[k].camper = me[new[m].claimedBy] => k = m
  <2>1. m # n /\ m \in Claimed(ro) /\ new[m] = ro[m] /\ m \in RosterRow
    BY <1>0
  <2>2. /\ ro[m].claimedBy = ro[m].name.of
        /\ ro[m].claimedBy \in reg
        /\ me[ro[m].claimedBy] # NoCamper
        /\ m \in mid \/ me[ro[m].claimedBy] = ro[m].camper
        /\ \A k \in Standing(ro) : ro[k].camper = me[ro[m].claimedBy] => k = m
    BY <2>1
  <2>3. me[ro[m].claimedBy] # e.camper
    BY <2>1, <2>2, <1>0 DEF Free
  <2>4. QED
    BY <1>0, <2>1, <2>2, <2>3
<1>6. \A p \in Person : me[p] # NoCamper => \E m \in Claimed(new) : new[m].claimedBy = p
  BY <1>0
<1>7. \A m \in RosterRow :
        new[m].status = "INVITED" /\ new[m].name.of \in reg => m \in pend \cup {n}
  OBVIOUS
<1>8. QED
  BY <1>1, <1>2, <1>3, <1>4, <1>5, <1>6, <1>7

\* A row is claimed by its person, who becomes a member with its camper id when
\* nobody else has that (createCamper, uploadCampers, the first login).
LEMMA ClaimingIsSound ==
  ASSUME NEW ro \in [RosterRow -> AnyRow], NEW me \in MemberType, NEW reg, NEW mid, NEW pend,
         RowsSound(ro, me, reg, mid, pend),
         NEW n \in RosterRow, ro[n].status = "INVITED",
         NEW p \in Person, p = ro[n].name.of,
         \A q \in Person : q # p => me[q] # ro[n].camper,
         NEW new \in [RosterRow -> AnyRow],
         \A m \in RosterRow : m # n => new[m] = ro[m],
         new[n].camper = ro[n].camper, new[n].name = ro[n].name,
         new[n].status = "CLAIMED", new[n].claimedBy = p,
         NEW now \in MemberType,
         \A q \in Person : q # p => now[q] = me[q],
         now[p] = ro[n].camper
  PROVE  RowsSound(new, now, reg \cup {p}, mid, pend \ {n})
<1> USE DEF RowsSound
<1>0. /\ \A m \in RosterRow : m # n =>
           /\ m \in Standing(new) <=> m \in Standing(ro)
           /\ m \in Alive(new) <=> m \in Alive(ro)
           /\ m \in Claimed(new) <=> m \in Claimed(ro)
      /\ n \in Standing(new) /\ n \in Alive(new) /\ n \in Claimed(new)
      /\ n \in Standing(ro) /\ n \in Alive(ro) /\ n \notin Claimed(ro)
      /\ Standing(new) \subseteq RosterRow /\ Alive(new) \subseteq Standing(new)
      /\ Claimed(new) \subseteq Alive(new)
      /\ Standing(ro) \subseteq RosterRow /\ Alive(ro) \subseteq Standing(ro)
      /\ Claimed(ro) \subseteq Alive(ro)
  BY DEF Standing, Alive, Claimed
<1>1. \A k, m \in Standing(new) : new[k].camper = new[m].camper => k = m
  BY <1>0
<1>2. \A q, s \in Person : now[q] = now[s] /\ now[q] # NoCamper => q = s
  OBVIOUS
<1>3. \A m \in Standing(new) : new[m].name.exact
  BY <1>0
<1>4. \A k, m \in Alive(new) : new[k].name.of = new[m].name.of => k = m
  BY <1>0
<1>5. ASSUME NEW m \in Claimed(new)
      PROVE  /\ new[m].claimedBy = new[m].name.of
             /\ new[m].claimedBy \in reg \cup {p}
             /\ now[new[m].claimedBy] # NoCamper
             /\ m \in mid \/ now[new[m].claimedBy] = new[m].camper
             /\ \A k \in Standing(new) : new[k].camper = now[new[m].claimedBy] => k = m
  <2>1. CASE m = n
    <3>1. ro[n].camper \in Camper
      BY <1>0, RowSets
    <3>2. QED
      BY <1>0, <1>1, <2>1, <3>1, NullsAre
  <2>2. CASE m # n
    <3>1. m \in Claimed(ro) /\ new[m] = ro[m] /\ m \in RosterRow
      BY <1>0, <2>2
    <3>2. /\ ro[m].claimedBy = ro[m].name.of
          /\ ro[m].claimedBy \in reg
          /\ me[ro[m].claimedBy] # NoCamper
          /\ m \in mid \/ me[ro[m].claimedBy] = ro[m].camper
          /\ \A k \in Standing(ro) : ro[k].camper = me[ro[m].claimedBy] => k = m
      BY <3>1
    <3>3. ro[m].claimedBy \in Person /\ ro[m].claimedBy # p
      <4>1. ro[m].name.of \in Person
        BY <1>0, <3>1, RowSets
      <4>2. ro[m].name.of # ro[n].name.of
        BY <1>0, <2>2, <3>1
      <4>3. QED
        BY <3>2, <4>1, <4>2
    <3>4. QED
      BY <1>0, <2>2, <3>1, <3>2, <3>3
  <2>3. QED
    BY <2>1, <2>2
<1>6. \A q \in Person : now[q] # NoCamper => \E m \in Claimed(new) : new[m].claimedBy = q
  BY <1>0
<1>7. \A m \in RosterRow :
        new[m].status = "INVITED" /\ new[m].name.of \in reg \cup {p} => m \in pend \ {n}
  <2>1. SUFFICES ASSUME NEW m \in RosterRow, new[m].status = "INVITED",
                        new[m].name.of \in reg \cup {p}
                 PROVE  m \in pend /\ m # n
    OBVIOUS
  <2>2. m # n /\ m \in Alive(ro) /\ new[m] = ro[m]
    BY <2>1 DEF Alive
  <2>3. ro[m].name.of # p
    BY <1>0, <2>2
  <2>4. QED
    BY <2>1, <2>2, <2>3
<1>8. QED
  BY <1>1, <1>2, <1>3, <1>4, <1>5, <1>6, <1>7

\* updateCamper gives a row a camper id that no other row has and no membership
\* waits for; the membership of a claimed row follows.
LEMMA UpdatingIsSound ==
  ASSUME NEW ro \in [RosterRow -> AnyRow], NEW me \in MemberType, NEW reg, NEW mid, NEW pend,
         RowsSound(ro, me, reg, mid, pend),
         NEW n \in RosterRow, n \in Standing(ro), NEW c \in Camper,
         \A m \in Standing(ro) : ro[m].camper = c => m = n,
         \A m \in Claimed(ro) \cap mid : m # n => me[ro[m].claimedBy] # c,
         NEW new \in [RosterRow -> AnyRow],
         \A m \in RosterRow : m # n => new[m] = ro[m],
         new[n].camper = c, new[n].name = ro[n].name,
         new[n].status = ro[n].status, new[n].claimedBy = ro[n].claimedBy,
         NEW mids, mid \subseteq mids, ro[n].status = "CLAIMED" => n \in mids
  PROVE  RowsSound(new, me, reg, mids, pend)
<1> USE DEF RowsSound
<1>0. /\ Standing(new) = Standing(ro) /\ Alive(new) = Alive(ro) /\ Claimed(new) = Claimed(ro)
      /\ Standing(ro) \subseteq RosterRow /\ Alive(ro) \subseteq Standing(ro)
      /\ Claimed(ro) \subseteq Alive(ro)
      /\ n \in Claimed(ro) => n \in mids
  BY DEF Standing, Alive, Claimed
<1>1. \A k, m \in Standing(new) : new[k].camper = new[m].camper => k = m
  BY <1>0
<1>2. \A q, s \in Person : me[q] = me[s] /\ me[q] # NoCamper => q = s
  OBVIOUS
<1>3. \A m \in Standing(new) : new[m].name.exact
  BY <1>0
<1>4. \A k, m \in Alive(new) : new[k].name.of = new[m].name.of => k = m
  BY <1>0
<1>5. ASSUME NEW m \in Claimed(new)
      PROVE  /\ new[m].claimedBy = new[m].name.of
             /\ new[m].claimedBy \in reg
             /\ me[new[m].claimedBy] # NoCamper
             /\ m \in mids \/ me[new[m].claimedBy] = new[m].camper
             /\ \A k \in Standing(new) : new[k].camper = me[new[m].claimedBy] => k = m
  <2>1. m \in Claimed(ro) /\ m \in RosterRow /\ new[m].claimedBy = ro[m].claimedBy
        /\ new[m].name = ro[m].name
    BY <1>0
  <2>2. /\ ro[m].claimedBy = ro[m].name.of
        /\ ro[m].claimedBy \in reg
        /\ me[ro[m].claimedBy] # NoCamper
        /\ m \in mid \/ me[ro[m].claimedBy] = ro[m].camper
        /\ \A k \in Standing(ro) : ro[k].camper = me[ro[m].claimedBy] => k = m
    BY <2>1
  <2>3. m # n => me[ro[m].claimedBy] # c
    BY <1>0, <2>1, <2>2
  <2>4. QED
    BY <1>0, <2>1, <2>2, <2>3
<1>6. \A q \in Person : me[q] # NoCamper => \E m \in Claimed(new) : new[m].claimedBy = q
  BY <1>0
<1>7. \A m \in RosterRow : new[m].status = "INVITED" /\ new[m].name.of \in reg => m \in pend
  OBVIOUS
<1>8. QED
  BY <1>1, <1>2, <1>3, <1>4, <1>5, <1>6, <1>7

\* The membership follows the row that was updated.
LEMMA FollowingIsSound ==
  ASSUME NEW ro \in [RosterRow -> AnyRow], NEW me \in MemberType, NEW reg, NEW mid, NEW pend,
         RowsSound(ro, me, reg, mid, pend),
         NEW n \in RosterRow, ro[n].status = "CLAIMED",
         NEW p \in Person, p = ro[n].claimedBy,
         \A q \in Person : q # p => me[q] # ro[n].camper,
         NEW now \in MemberType,
         \A q \in Person : q # p => now[q] = me[q],
         now[p] = ro[n].camper,
         NEW mids, mid \subseteq mids \cup {n}
  PROVE  RowsSound(ro, now, reg, mids, pend)
<1> USE DEF RowsSound
<1>0. /\ Standing(ro) \subseteq RosterRow /\ Alive(ro) \subseteq Standing(ro)
      /\ Claimed(ro) \subseteq Alive(ro) /\ n \in Claimed(ro)
  BY DEF Standing, Alive, Claimed
<1>1. \A q, s \in Person : now[q] = now[s] /\ now[q] # NoCamper => q = s
  OBVIOUS
<1>2. ASSUME NEW m \in Claimed(ro)
      PROVE  /\ now[ro[m].claimedBy] # NoCamper
             /\ m \in mids \/ now[ro[m].claimedBy] = ro[m].camper
             /\ \A k \in Standing(ro) : ro[k].camper = now[ro[m].claimedBy] => k = m
  <2>1. CASE m = n
    <3>1. ro[n].camper \in Camper
      BY <1>0, RowSets
    <3>2. QED
      BY <1>0, <2>1, <3>1, NullsAre
  <2>2. CASE m # n
    <3>1. ro[m].claimedBy # p
      BY <1>0, <2>2
    <3>2. ro[m].claimedBy \in Person
      BY <1>0, RowSets
    <3>3. QED
      BY <1>0, <2>2, <3>1, <3>2
  <2>3. QED
    BY <2>1, <2>2
<1>3. \A q \in Person : now[q] # NoCamper => \E m \in Claimed(ro) : ro[m].claimedBy = q
  BY <1>0
<1>4. QED
  BY <1>1, <1>2, <1>3

\* removeCamper revokes a row, and ends the membership of one that is claimed.
LEMMA RemovingIsSound ==
  ASSUME NEW ro \in [RosterRow -> AnyRow], NEW me \in MemberType, NEW reg, NEW mid, NEW pend,
         RowsSound(ro, me, reg, mid, pend),
         NEW n \in RosterRow, n \in Standing(ro),
         NEW new \in [RosterRow -> AnyRow],
         \A m \in RosterRow : m # n => new[m] = ro[m],
         new[n].camper = ro[n].camper, new[n].name = ro[n].name, new[n].status = "REVOKED",
         NEW now \in MemberType,
         ro[n].status # "CLAIMED" => now = me,
         ro[n].status = "CLAIMED" =>
           /\ \A q \in Person : q # ro[n].claimedBy => now[q] = me[q]
           /\ now[ro[n].claimedBy] = NoCamper
  PROVE  RowsSound(new, now, reg, mid, pend)
<1> USE DEF RowsSound
<1>0. /\ Standing(new) = Standing(ro) /\ Alive(new) = Alive(ro) \ {n}
      /\ Claimed(new) = Claimed(ro) \ {n}
      /\ Standing(ro) \subseteq RosterRow /\ Alive(ro) \subseteq Standing(ro)
      /\ Claimed(ro) \subseteq Alive(ro)
      /\ n \in Claimed(ro) <=> ro[n].status = "CLAIMED"
  BY DEF Standing, Alive, Claimed
<1>1. \A k, m \in Standing(new) : new[k].camper = new[m].camper => k = m
  BY <1>0
<1>2. \A q, s \in Person : now[q] = now[s] /\ now[q] # NoCamper => q = s
  OBVIOUS
<1>3. \A m \in Standing(new) : new[m].name.exact
  BY <1>0
<1>4. \A k, m \in Alive(new) : new[k].name.of = new[m].name.of => k = m
  BY <1>0
<1>5. ASSUME NEW m \in Claimed(new)
      PROVE  /\ new[m].claimedBy = new[m].name.of
             /\ new[m].claimedBy \in reg
             /\ now[new[m].claimedBy] # NoCamper
             /\ m \in mid \/ now[new[m].claimedBy] = new[m].camper
             /\ \A k \in Standing(new) : new[k].camper = now[new[m].claimedBy] => k = m
  <2>1. m \in Claimed(ro) /\ m \in RosterRow /\ m # n /\ new[m] = ro[m]
    BY <1>0
  <2>2. ro[m].claimedBy \in Person /\ (n \in Claimed(ro) => ro[m].claimedBy # ro[n].claimedBy)
    <3>1. ro[m].name.of \in Person /\ ro[m].claimedBy = ro[m].name.of
      BY <1>0, <2>1, RowSets
    <3>2. n \in Claimed(ro) => ro[m].name.of # ro[n].name.of /\ ro[n].claimedBy = ro[n].name.of
      BY <1>0, <2>1
    <3>3. QED
      BY <3>1, <3>2
  <2>3. now[ro[m].claimedBy] = me[ro[m].claimedBy]
    BY <1>0, <2>2
  <2>4. QED
    BY <1>0, <2>1, <2>3
<1>6. \A q \in Person : now[q] # NoCamper => \E m \in Claimed(new) : new[m].claimedBy = q
  BY <1>0
<1>7. \A m \in RosterRow : new[m].status = "INVITED" /\ new[m].name.of \in reg => m \in pend
  OBVIOUS
<1>8. QED
  BY <1>1, <1>2, <1>3, <1>4, <1>5, <1>6, <1>7

\* More may wait than do.
LEMMA SoundWithMore ==
  ASSUME NEW ro, NEW me, NEW reg, NEW mid, NEW pend, NEW mids, NEW pends,
         RowsSound(ro, me, reg, mid, pend), mid \subseteq mids, pend \subseteq pends
  PROVE  RowsSound(ro, me, reg, mids, pends)
  BY DEF RowsSound

\* Somebody registers who has no row.
LEMMA RegisteringIsSound ==
  ASSUME NEW ro, NEW me, NEW reg, NEW mid, NEW pend, NEW p,
         RowsSound(ro, me, reg, mid, pend),
         \A n \in RosterRow : ro[n].status = "INVITED" => ro[n].name.of # p
  PROVE  RowsSound(ro, me, reg \cup {p}, mid, pend)
  BY DEF RowsSound
-----------------------------------------------------------------------------
(* What a step leaves alone that touches the campers and persons of S only. *)

\* A row stays, or is about S before and after, or a person of S claims it.
Touched(n, S) ==
  \/ roster'[n] = roster[n]
  \/ /\ roster'[n].camper \in S /\ roster'[n].name.of \in S
     /\ n \in Standing(roster) => roster[n].camper \in S
     /\ n \in Alive(roster) => roster[n].name.of \in S
  \/ /\ n \in Alive(roster) /\ n \in Alive(roster') /\ roster[n].name.of \in S
     /\ roster'[n].camper = roster[n].camper /\ roster'[n].name = roster[n].name

TouchesOnly(S) ==
  /\ \A n \in RosterRow : Touched(n, S)
  /\ \A p \in Person : p \notin S => member'[p] = member[p]
  /\ Registered \subseteq Registered' /\ Registered' \subseteq Registered \cup S

\* What the subject of a request tells.
LEMMA SubjectIs ==
  ASSUME RosterShape, InUse, NEW t \in Task
  PROVE  /\ task[t].at \in WithEntry =>
              /\ task[t].entry.camper \in Subject(t) \cap Camper
              /\ task[t].entry.name.of \in Subject(t) \cap Person
         /\ \A e \in ToSet(task[t].sheet) :
              e \in CamperName /\ e.camper \in Subject(t) \cap Camper
              /\ e.name.of \in Subject(t) \cap Person
         /\ task[t].at \in ByRow =>
              /\ task[t].row \in RosterRow /\ roster[task[t].row] \in EntryRow
              /\ task[t].row \in Standing(roster)
              /\ roster[task[t].row].camper \in Subject(t) \cap Camper
              /\ roster[task[t].row].name.of \in Subject(t) \cap Person
              /\ roster[task[t].row].claimedBy \in Subject(t)
              /\ roster[task[t].row].claimedBy # Nobody =>
                   /\ roster[task[t].row].claimedBy \in Person
                   /\ member[roster[task[t].row].claimedBy] \in Subject(t)
         /\ task[t].at \in Inviting =>
              /\ task[t].row \in RosterRow /\ roster[task[t].row] \in EntryRow
              /\ task[t].row \in Standing(roster)
<1>1. task[t].at \in WithEntry =>
        /\ task[t].entry.camper \in Subject(t) \cap Camper
        /\ task[t].entry.name.of \in Subject(t) \cap Person
  BY OwnRow, ListingIs DEF Subject, OfEntry
<1>2. ASSUME NEW e \in ToSet(task[t].sheet)
      PROVE  e \in CamperName /\ e.camper \in Subject(t) \cap Camper
             /\ e.name.of \in Subject(t) \cap Person
  <2>1. e \in CamperName
    BY OwnRow DEF ToSet
  <2>2. OfEntry(e) \subseteq OfSheet(task[t].sheet)
    BY DEF OfSheet
  <2>3. e.camper \in Subject(t) /\ e.name.of \in Subject(t)
    BY <2>2 DEF OfEntry, Subject
  <2>4. QED
    BY <2>1, <2>3, ListingIs
<1>3. ASSUME task[t].at \in Inviting \cup ByRow
      PROVE  /\ task[t].row \in RosterRow /\ roster[task[t].row] \in EntryRow
             /\ task[t].row \in Standing(roster)
  <2>1. task[t].row \in RosterRow /\ roster[task[t].row] \in EntryRow
    BY <1>3, OwnRow DEF InUse
  <2>2. QED
    BY <2>1 DEF EntryRow, Standing
<1>4. ASSUME task[t].at \in ByRow
      PROVE  /\ roster[task[t].row].camper \in Subject(t) \cap Camper
             /\ roster[task[t].row].name.of \in Subject(t) \cap Person
             /\ roster[task[t].row].claimedBy \in Subject(t)
             /\ roster[task[t].row].claimedBy # Nobody =>
                  /\ roster[task[t].row].claimedBy \in Person
                  /\ member[roster[task[t].row].claimedBy] \in Subject(t)
  <2> DEFINE row == roster[task[t].row]
  <2>1. row \in EntryRow
    BY <1>3, <1>4
  <2>2. row.camper \in Camper /\ row.name.of \in Person /\ row.claimedBy \in Person \cup {Nobody}
    BY <2>1 DEF EntryRow, Name
  <2>3. OfRow(row) \subseteq Subject(t)
    BY <1>4 DEF Subject
  <2>4. QED
    BY <2>2, <2>3 DEF OfRow
<1>5. QED
  BY <1>1, <1>2, <1>3, <1>4

\* A request that shares nothing with S keeps its subject, and what it knows.
LEMMA OthersStand ==
  ASSUME RosterShape, RosterShape', InUse, NEW S, TouchesOnly(S),
         NEW u \in Task, task'[u] = task[u], S \cap Subject(u) \subseteq {NoCamper, Nobody}
  PROVE  Subject(u)' = Subject(u) /\ (InformedOf(u) => InformedOf(u)')
<1> DEFINE x == task[u]
           n == task[u].row
<1>1. \A c \in Subject(u) : c \in Camper \cup Person => c \notin S
  BY NullsAre
<1>2. ASSUME x.at \in ByRow PROVE roster'[n] = roster[n]
  <2>1. n \in RosterRow /\ n \in Standing(roster) /\ roster[n].camper \notin S
        /\ roster[n].name.of \notin S
    BY <1>1, <1>2, SubjectIs
  <2>2. QED
    BY <2>1 DEF TouchesOnly, Touched
<1>3. Subject(u)' = Subject(u)
  <2>1. CASE x.at \in ByRow
    <3> DEFINE by == roster[n].claimedBy
    <3>1. roster'[n] = roster[n]
      BY <1>2, <2>1
    <3>2. by # Nobody => by \in Person /\ by \notin S
      BY <1>1, <2>1, SubjectIs
    <3>3. by # Nobody => member'[by] = member[by]
      BY <3>2 DEF TouchesOnly
    <3>4. OfRow(roster[n])' = OfRow(roster[n])
      BY <3>1, <3>3 DEF OfRow
    <3>5. QED
      BY <3>4 DEF Subject
  <2>2. CASE x.at \notin ByRow
    BY <2>2 DEF Subject
  <2>3. QED
    BY <2>1, <2>2
<1>4. SUFFICES ASSUME InformedOf(u) PROVE InformedOf(u)'
  BY <1>3
<1>5. \A m \in Alive(roster') :
        \/ m \in Alive(roster) /\ roster'[m].camper = roster[m].camper
           /\ roster'[m].name = roster[m].name
        \/ roster'[m].camper \in S /\ roster'[m].name.of \in S
  BY DEF TouchesOnly, Touched, Alive
<1>6. ASSUME NEW e, e.camper \in Subject(u) \cap Camper, e.name.of \in Subject(u) \cap Person,
             NEW own, Free(roster, e, own)
      PROVE  Free(roster', e, own)
  BY <1>1, <1>5, <1>6 DEF Free
<1>7. ASSUME x.at \in Inviting, roster[n].camper = x.entry.camper, roster[n].name = x.entry.name
      PROVE  roster'[n] = roster[n]
  <2>1. n \in RosterRow /\ n \in Standing(roster) /\ x.entry.camper \notin S
        /\ x.entry.name.of \notin S
    BY <1>1, <1>7, SubjectIs DEF Inviting, WithEntry
  <2>2. QED
    BY <1>7, <2>1 DEF TouchesOnly, Touched
<1>8. ASSUME x.at \in {"sheet", "commit"}, Agrees(roster, x.sheet)
      PROVE  Agrees(roster', x.sheet)
  <2>1. \A e \in ToSet(x.sheet) : e.camper \notin S /\ e.name.of \notin S
    BY <1>1, SubjectIs
  <2>2. ASSUME NEW e \in ToSet(x.sheet), NEW m \in Alive(roster')
        PROVE  roster'[m].camper = e.camper <=> roster'[m].name = e.name
    BY <1>5, <1>8, <2>1 DEF Agrees
  <2>3. QED
    BY <1>8, <2>2 DEF Agrees
<1>9. ASSUME NEW p \in Subject(u) \cap Person PROVE p \in Registered' <=> p \in Registered
  BY <1>1 DEF TouchesOnly
<1>10. x.at \in WithEntry =>
         x.entry.camper \in Subject(u) \cap Camper /\ x.entry.name.of \in Subject(u) \cap Person
  BY SubjectIs
<1>11. \A e \in ToSet(x.sheet) : e.name.of \in Subject(u) \cap Person
  BY SubjectIs
<1>12. /\ x.at \in WithEntry => x.entry.name.exact
       /\ x.at = "upsert" => Free(roster', x.entry, {})
       /\ x.at \in Inviting => /\ roster'[n].status = "INVITED"
                               /\ roster'[n].camper = x.entry.camper
                               /\ roster'[n].name = x.entry.name
       /\ x.at = "claim" => x.entry.name.of \in Registered'
  BY <1>4, <1>6, <1>7, <1>9, <1>10 DEF InformedOf, WithEntry, Inviting
<1>13. /\ x.at \in {"conflict", "write", "member"} => roster'[n].name = x.entry.name
       /\ x.at = "write" => Free(roster', x.entry, {n})
       /\ x.at = "member" => /\ roster'[n].status = "CLAIMED"
                             /\ roster'[n].camper = x.entry.camper
                             /\ x.was.claimedBy = roster'[n].claimedBy
       /\ x.at = "delete" => x.was = roster'[n]
  BY <1>2, <1>4, <1>6, <1>10 DEF InformedOf, WithEntry, ByRow
<1>14. /\ x.at \in {"sheet", "commit"} => Agrees(roster', x.sheet)
       /\ x.at = "commit" =>
            \A e \in ToSet(x.sheet) : e.name.of \in x.users <=> e.name.of \in Registered'
  BY <1>4, <1>8, <1>9, <1>11 DEF InformedOf
<1>15. QED
  BY <1>12, <1>13, <1>14 DEF InformedOf

\* The rows that invite whom S leaves alone stay the same.
LEMMA LoginsStand ==
  ASSUME RosterShape, NEW S, TouchesOnly(S), NEW p, p \notin S
  PROVE  OwnRows(roster', p) = OwnRows(roster, p)
<1>1. ASSUME NEW n \in RosterRow
      PROVE  /\ roster'[n].status = "INVITED" /\ roster'[n].name.of = p
                  <=> roster[n].status = "INVITED" /\ roster[n].name.of = p
             /\ roster[n].status = "INVITED" /\ roster[n].name.of = p
                  => roster'[n].camper = roster[n].camper
  BY DEF TouchesOnly, Touched, Alive
<1>2. QED
  BY <1>1 DEF OwnRows
-----------------------------------------------------------------------------
(* The steps of the requests, each of which touches its own subjects only.  *)

KeepsCalm(t) ==
  /\ TouchesOnly(Subject(t))
  /\ Subject(t)' \subseteq Subject(t) \cup {NoCamper, Nobody}
  /\ InformedOf(t)'
  /\ \A u \in Task : u # t => task'[u] = task[u]

\* Then the requests stay apart and informed, and the logins know their rows.
LEMMA KeepingIsCalm ==
  ASSUME Shape, RosterShape, RosterShape', InUse, Separate, Informed, Claiming,
         NEW t \in Task, KeepsCalm(t), UNCHANGED <<req, found>>
  PROVE  Separate' /\ Informed' /\ Claiming'
<1>1. ASSUME NEW u \in Task, u # t
      PROVE  Subject(u)' = Subject(u) /\ InformedOf(u)'
  <2>1. Subject(t) \cap Subject(u) \subseteq {NoCamper, Nobody} /\ task'[u] = task[u]
    BY <1>1 DEF Separate, KeepsCalm
  <2>2. InformedOf(u)
    BY DEF Informed
  <2>3. TouchesOnly(Subject(t))
    BY DEF KeepsCalm
  <2>4. QED
    BY <2>1, <2>2, <2>3, OthersStand
<1>2. Informed'
  BY <1>1 DEF Informed, KeepsCalm
<1>3. \A u \in Task : Subject(u)' \subseteq Subject(u) \cup {NoCamper, Nobody}
  BY <1>1 DEF KeepsCalm
<1>4. \A r \in Request : req[r].op = "login" => req[r].who \in Person
  BY Holds
<1>5. Separate'
  <2>1. \A u, v \in Task : u # v => (Subject(u)' \cap Subject(v)') \subseteq {NoCamper, Nobody}
    BY <1>3 DEF Separate
  <2>2. \A u \in Task, r \in Request : req[r].op = "login" => req[r].who \notin Subject(u)'
    BY <1>3, <1>4, NullsAre DEF Separate
  <2>3. QED
    BY <2>1, <2>2 DEF Separate
<1>6. Claiming'
  <2>1. ASSUME NEW r \in Request, req[r].at \in {"register", "commit"}
        PROVE  req[r].who \notin Subject(t)
    BY <2>1, OpAt DEF Separate
  <2>2. QED
    BY <2>1, LoginsStand DEF Claiming, KeepsCalm
<1>7. QED
  BY <1>2, <1>5, <1>6

\* The rows at which requests are, when one request moves.
LEMMA RowsMove ==
  ASSUME NEW t \in Task, \A u \in Task : u # t => task'[u] = task[u], NEW stages
  PROVE  /\ task[t].at \notin stages => RowsAt(stages) \subseteq RowsAt(stages)'
         /\ task'[t].at \in stages => RowsAt(stages) \ {task[t].row} \subseteq RowsAt(stages)'
                                      /\ task'[t].row \in RowsAt(stages)'
         /\ RowsAt(stages) \ {task[t].row} \subseteq RowsAt(stages)'
         /\ task[t].at \in stages => task[t].row \in RowsAt(stages)
  BY DEF RowsAt

\* A request that ends is about nothing any more.
LEMMA EndingIs ==
  ASSUME RosterShape, NEW t \in Task, TaskEnd(t)
  PROVE  /\ task'[t] = Rest /\ Rest.at = "idle"
         /\ \A u \in Task : u # t => task'[u] = task[u]
         /\ Subject(t)' \subseteq {NoCamper, Nobody}
         /\ InformedOf(t)'
<1>1. task'[t] = Rest /\ \A u \in Task : u # t => task'[u] = task[u]
  BY DEF TaskEnd, RosterShape
<1>2. /\ Rest.at = "idle" /\ Rest.entry = NoEntry /\ Rest.sheet = <<>>
      /\ Rest.at \notin WithEntry \cup Inviting \cup ByRow
      /\ Rest.at \notin {"upsert", "claim", "conflict", "write", "member", "delete", "sheet", "commit"}
  BY DEF Rest, WithEntry, Inviting, ByRow
<1>3. OfSheet(<<>>) = {}
  BY DEF OfSheet, ToSet
<1>4. Subject(t)' = {NoCamper, Nobody}
  BY <1>1, <1>2, <1>3, NullsAre DEF Subject, OfEntry
<1>5. InformedOf(t)'
  BY <1>1, <1>2 DEF InformedOf
<1>6. QED
  BY <1>1, <1>2, <1>4, <1>5

\* A request that moves on is about the same when the tables stay.
LEMMA MovingIs ==
  ASSUME NEW t \in Task, UNCHANGED <<roster, member>>,
         task'[t].entry = task[t].entry, task'[t].row = task[t].row,
         task'[t].sheet = task[t].sheet, task'[t].at \in ByRow => task[t].at \in ByRow
  PROVE  Subject(t)' \subseteq Subject(t)
<1>1. task'[t].at \in ByRow => OfRow(roster[task[t].row])' = OfRow(roster[task[t].row])
  BY DEF OfRow
<1>2. QED
  BY <1>1 DEF Subject

LEMMA StillTouchesNothing ==
  ASSUME UNCHANGED <<roster, member, role>>, NEW S
  PROVE  TouchesOnly(S)
  BY DEF TouchesOnly, Touched, Registered

\* No update of another request that is on its way to the membership has to do
\* with the campers of a request.
LEMMA UpdatesApart ==
  ASSUME RosterShape, InUse, RosterSound, Separate,
         NEW t \in Task, NEW c \in Camper, c \in Subject(t),
         NEW m \in Claimed(roster) \cap RowsAt({"member"}),
         task[t].at = "member" => task[t].row # m
  PROVE  member[roster[m].claimedBy] # c
<1>1. PICK u \in Task : task[u].at = "member" /\ task[u].row = m
  BY DEF RowsAt
<1>2. u # t /\ task[u].at \in ByRow
  BY <1>1 DEF ByRow
<1>3. roster[m].claimedBy \in Registered
  BY DEF RosterSound, RowsSound
<1>4. roster[m].claimedBy # Nobody
  BY <1>3, NullsAre DEF Registered
<1>5. member[roster[m].claimedBy] \in Subject(u)
  BY <1>1, <1>2, <1>4, SubjectIs
<1>6. QED
  BY <1>2, <1>5, NullsAre DEF Separate

\* The steps that read keep the rows and memberships as they are.
LEMMA ReadingKeeps ==
  ASSUME RosterShape, InUse, RosterSound, NEW t \in Task, InformedOf(t),
         \/ CreateCheck(t) \/ CreateFindUser(t) \/ UpdateCheck(t) \/ RemoveCamperRead(t)
         \/ UploadReadUsers(t) \/ ProfileRead(t) \/ ProfileWrite(t)
  PROVE  KeepsCalm(t) /\ RosterSound'
<1> USE DEF tables, rows, accountVars
<1> DEFINE x == task[t]
           n == task[t].row
           Others == \A u \in Task : u # t => task'[u] = task[u]
<1>0. /\ x \in TaskType /\ Fitting(x)
      /\ x.at \in WithEntry => x.entry \in CamperName
      /\ x.sheet \in Seq(CamperName)
  BY OwnRow
<1>1. UNCHANGED <<roster, member, role>>
  BY DEF CreateCheck, CreateFindUser, UpdateCheck, RemoveCamperRead, UploadReadUsers, ProfileRead,
     ProfileWrite
<1>2. \A S : TouchesOnly(S)
  BY <1>1, StillTouchesNothing
<1>3. Registered' = Registered
  BY <1>1 DEF Registered
<1>4. ASSUME Others, x.at # "member",
             \A m \in RowsAt(Inviting) : roster[m].status = "INVITED" /\ roster[m].name.of \in Registered
               => m \in RowsAt(Inviting)'
      PROVE  RosterSound'
  <2>1. RowsAt({"member"}) \subseteq RowsAt({"member"})'
    BY <1>4, RowsMove
  <2>2. RowsSound(roster, member, Registered, RowsAt({"member"})', RowsAt(Inviting)')
    BY <1>4, <2>1 DEF RosterSound, RowsSound
  <2>3. QED
    BY <1>1, <1>3, <2>2 DEF RosterSound
<1>5. ASSUME Others, x.at \notin Inviting \cup {"member"} PROVE RosterSound'
  BY <1>4, <1>5, RowsMove
<1>6. ASSUME TaskEnd(t) PROVE KeepsCalm(t)
  BY <1>2, <1>6, EndingIs DEF KeepsCalm
<1>7. ASSUME NEW s, TaskTo(t, s)
      PROVE  /\ task'[t].at = s /\ task'[t].entry = x.entry /\ task'[t].row = n
             /\ task'[t].sheet = x.sheet /\ Others
             /\ (s \in ByRow => x.at \in ByRow) => Subject(t)' \subseteq Subject(t)
  <2> DEFINE y == [x EXCEPT !.at = s]
  <2>1. y.at = s /\ y.entry = x.entry /\ y.row = n /\ y.sheet = x.sheet
    BY <1>0 DEF TaskType
  <2>2. task'[t] = y /\ Others
    BY <1>7 DEF TaskTo, RosterShape
  <2> HIDE DEF y
  <2>3. QED
    BY <1>1, <2>1, <2>2, MovingIs
<1>8. CASE CreateCheck(t)
  <2>1. x.at = "check" /\ x.entry.name.exact
    BY <1>8 DEF CreateCheck, InformedOf, WithEntry
  <2>2. CASE TaskEnd(t)
    BY <1>5, <1>6, <2>1, <2>2, EndingIs DEF Inviting
  <2>3. CASE Free(roster, x.entry, {}) /\ TaskTo(t, "upsert")
    <3>1. Subject(t)' \subseteq Subject(t) /\ Others
      BY <1>7, <2>3 DEF ByRow
    <3>2. InformedOf(t)'
      BY <1>1, <1>7, <2>1, <2>3 DEF InformedOf, WithEntry, Inviting
    <3>3. QED
      BY <1>2, <1>5, <2>1, <3>1, <3>2 DEF KeepsCalm, Inviting
  <2>4. QED
    BY <1>8, <2>2, <2>3 DEF CreateCheck, Free, Active, Alive
<1>9. CASE CreateFindUser(t)
  <2>1. /\ x.at = "user" /\ x.entry.name.exact /\ roster[n].status = "INVITED"
        /\ roster[n].camper = x.entry.camper /\ roster[n].name = x.entry.name
    BY <1>9 DEF CreateFindUser, InformedOf, WithEntry, Inviting
  <2>2. x.entry.name = [of |-> x.entry.name.of, exact |-> TRUE] /\ x.entry.name.of \in Person
    BY <1>0, <2>1, ListingIs DEF WithEntry
  <2>3. CASE UserNamed(x.entry.name) = {} /\ TaskEnd(t)
    <3>1. roster[n].name.of \notin Registered
      BY <2>1, <2>2, <2>3 DEF UserNamed
    <3>2. \A m \in RowsAt(Inviting) :
            roster[m].status = "INVITED" /\ roster[m].name.of \in Registered
               => m \in RowsAt(Inviting)'
      BY <2>3, <3>1, EndingIs, RowsMove
    <3>3. QED
      BY <1>4, <1>6, <2>1, <2>3, <3>2, EndingIs
  <2>4. CASE UserNamed(x.entry.name) # {} /\ TaskTo(t, "claim")
    <3>1. x.entry.name.of \in Registered
      <4>1. PICK p \in Registered : x.entry.name = [of |-> p, exact |-> TRUE]
        BY <2>4 DEF UserNamed
      <4>2. QED
        BY <4>1
    <3>2. Subject(t)' \subseteq Subject(t) /\ Others /\ task'[t].at = "claim" /\ task'[t].row = n
      BY <1>7, <2>4 DEF ByRow
    <3>3. InformedOf(t)'
      BY <1>1, <1>3, <1>7, <2>1, <2>4, <3>1 DEF InformedOf, WithEntry, Inviting
    <3>4. RowsAt(Inviting) \subseteq RowsAt(Inviting)'
      BY <3>2, RowsMove DEF Inviting
    <3>5. QED
      BY <1>2, <1>4, <2>1, <3>2, <3>3, <3>4 DEF KeepsCalm
  <2>5. QED
    BY <1>9, <2>3, <2>4 DEF CreateFindUser
<1>10. CASE UpdateCheck(t)
  <2>1. x.at = "conflict" /\ x.entry.name.exact /\ roster[n].name = x.entry.name
    BY <1>10 DEF UpdateCheck, InformedOf, WithEntry
  <2>2. CASE TaskEnd(t)
    BY <1>5, <1>6, <2>1, <2>2, EndingIs DEF Inviting
  <2>3. CASE Free(roster, x.entry, {n}) /\ TaskTo(t, "write")
    <3>1. Subject(t)' \subseteq Subject(t) /\ Others
      BY <1>7, <2>1, <2>3 DEF ByRow
    <3>2. InformedOf(t)'
      BY <1>1, <1>7, <2>1, <2>3 DEF InformedOf, WithEntry, Inviting
    <3>3. QED
      BY <1>2, <1>5, <2>1, <3>1, <3>2 DEF KeepsCalm, Inviting
  <2>4. QED
    BY <1>10, <2>2, <2>3 DEF UpdateCheck, Free, Active, Alive
<1>11. CASE RemoveCamperRead(t)
  <2> DEFINE y == [x EXCEPT !.at = "delete", !.was = roster[n]]
  <2>1. x.at = "remove" /\ task'[t] = y /\ Others
    BY <1>11 DEF RemoveCamperRead, RosterShape
  <2>2. y.at = "delete" /\ y.was = roster[n] /\ y.row = n /\ y.entry = x.entry /\ y.sheet = x.sheet
    BY <1>0 DEF TaskType
  <2> HIDE DEF y
  <2>3. Subject(t)' \subseteq Subject(t)
    BY <1>1, <2>1, <2>2, MovingIs DEF ByRow
  <2>4. InformedOf(t)'
    BY <1>1, <2>1, <2>2 DEF InformedOf, WithEntry, Inviting
  <2>5. QED
    BY <1>2, <1>5, <2>1, <2>3, <2>4 DEF KeepsCalm, Inviting
<1>12. CASE UploadReadUsers(t)
  <2> DEFINE us == UNION {UserNamed(x.sheet[k].name) : k \in DOMAIN x.sheet}
             y == [x EXCEPT !.at = "commit", !.users = us]
  <2>1. x.at = "sheet" /\ task'[t] = y /\ Others
    BY <1>12 DEF UploadReadUsers, RosterShape
  <2>2. Agrees(roster, x.sheet)
    BY <2>1 DEF InformedOf
  <2>3. ASSUME NEW e \in ToSet(x.sheet)
        PROVE  e.name.of \in us <=> e.name.of \in Registered
    <3>1. PICK k \in DOMAIN x.sheet : e = x.sheet[k]
      BY DEF ToSet
    <3>2. e.name = [of |-> e.name.of, exact |-> TRUE]
      <4>1. e \in CamperName
        BY <1>0, <3>1
      <4>2. e.name.exact = TRUE
        BY <2>2, <4>1, ListingIs DEF Agrees
      <4>3. QED
        BY <4>1, <4>2, ListingIs
    <3>3. e.name.of \in Registered => e.name.of \in UserNamed(e.name)
      BY <3>2 DEF UserNamed
    <3>4. \A j : UserNamed(x.sheet[j].name) \subseteq Registered
      BY DEF UserNamed
    <3>5. QED
      BY <3>1, <3>3, <3>4
  <2> HIDE DEF us
  <2>4. y.at = "commit" /\ y.users = us /\ y.row = n /\ y.entry = x.entry /\ y.sheet = x.sheet
    BY <1>0 DEF TaskType
  <2> HIDE DEF y
  <2>5. Subject(t)' \subseteq Subject(t)
    BY <1>1, <2>1, <2>4, MovingIs DEF ByRow
  <2>6. InformedOf(t)'
    BY <1>1, <1>3, <2>1, <2>2, <2>3, <2>4 DEF InformedOf, WithEntry, Inviting
  <2>7. QED
    BY <1>2, <1>5, <2>1, <2>5, <2>6 DEF KeepsCalm, Inviting
<1>13. CASE ProfileRead(t)
  <2>1. x.at = "profile"
    BY <1>13 DEF ProfileRead
  <2>2. CASE TaskEnd(t)
    BY <1>5, <1>6, <2>1, <2>2, EndingIs DEF Inviting
  <2>3. CASE TaskTo(t, "slack")
    <3>1. Subject(t)' \subseteq Subject(t) /\ Others
      BY <1>7, <2>3 DEF ByRow
    <3>2. InformedOf(t)'
      BY <1>7, <2>3 DEF InformedOf, WithEntry, Inviting
    <3>3. QED
      BY <1>2, <1>5, <2>1, <3>1, <3>2 DEF KeepsCalm, Inviting
  <2>4. QED
    BY <1>13, <2>2, <2>3 DEF ProfileRead
<1>14. CASE ProfileWrite(t)
  BY <1>5, <1>6, <1>14, EndingIs DEF ProfileWrite, Inviting
<1>15. QED
  BY <1>8, <1>9, <1>10, <1>11, <1>12, <1>13, <1>14

LEMMA InvitedIs ==
  ASSUME NEW x \in AnyRow, NEW e \in CamperName
  PROVE  /\ Invited(x, e) \in EntryRow
         /\ Invited(x, e).camper = e.camper /\ Invited(x, e).name = e.name
         /\ Invited(x, e).status = "INVITED" /\ Invited(x, e).claimedBy = x.claimedBy
  BY RowsWritten

\* createCamper invites by a row (organizations.service.ts:409).
LEMMA UpsertKeeps ==
  ASSUME RosterShape, RosterShape', InUse, RosterSound, Separate, NEW t \in Task, InformedOf(t),
         CreateUpsert(t)
  PROVE  KeepsCalm(t) /\ RosterSound'
<1> DEFINE x == task[t]
           e == task[t].entry
<1>1. PICK n \in UpsertTarget(roster, e.camper) :
        /\ roster' = [roster EXCEPT ![n] = Invited(@, e)]
        /\ task' = [task EXCEPT ![t].at = "user", ![t].row = n]
  BY DEF CreateUpsert
<1>2. /\ x.at = "upsert" /\ x \in TaskType /\ e \in CamperName /\ e.camper \in Camper
      /\ UNCHANGED <<member, role>>
      /\ e.camper \in Subject(t) /\ e.name.of \in Subject(t)
  BY OwnRow, SubjectIs DEF CreateUpsert, WithEntry, accountVars, rows
<1>3. e.name.exact /\ Free(roster, e, {})
  BY <1>2 DEF InformedOf, WithEntry
<1>4. n \in RosterRow /\ roster[n] \in AnyRow
  BY <1>1 DEF UpsertTarget, RosterShape
<1>5. /\ roster'[n].camper = e.camper /\ roster'[n].name = e.name /\ roster'[n].status = "INVITED"
      /\ \A m \in RosterRow : m # n => roster'[m] = roster[m]
  <2>1. /\ Invited(roster[n], e).camper = e.camper /\ Invited(roster[n], e).name = e.name
        /\ Invited(roster[n], e).status = "INVITED"
    BY <1>2, <1>4, InvitedIs
  <2>2. roster'[n] = Invited(roster[n], e) /\ \A m \in RosterRow : m # n => roster'[m] = roster[m]
    BY <1>1, <1>4 DEF RosterShape
  <2>3. QED
    BY <2>1, <2>2
<1> DEFINE y == [x EXCEPT !.at = "user", !.row = n]
<1>6. y.at = "user" /\ y.row = n /\ y.entry = e /\ y.sheet = x.sheet
  BY <1>2 DEF TaskType
<1>7. task'[t] = y /\ \A u \in Task : u # t => task'[u] = task[u]
  BY <1>1 DEF RosterShape
<1> HIDE DEF y
<1>8. /\ n \notin Alive(roster)
      /\ n \in Standing(roster) => roster[n].camper = e.camper
      /\ \A m \in Standing(roster) : roster[m].camper = e.camper => m = n
  <2>1. \A m \in Standing(roster) : roster[m].camper = e.camper => m \in RosterRow
    BY DEF Standing
  <2>2. \A k, m \in Standing(roster) : roster[k].camper = roster[m].camper => k = m
    BY DEF RosterSound, RowsSound
  <2>3. CASE n \in Standing(roster) /\ roster[n].camper = e.camper
    BY <1>3, <2>2, <2>3 DEF Free
  <2>4. CASE /\ roster[n].status = "unused"
             /\ \A m \in RosterRow : ~(roster[m].status # "unused" /\ roster[m].camper = e.camper)
    BY <2>4 DEF Alive, Standing
  <2>5. QED
    BY <1>1, <1>4, <2>3, <2>4 DEF UpsertTarget, Standing
<1>9. RowsSound(roster', member, Registered, RowsAt({"member"}), RowsAt(Inviting) \cup {n})
  <2>1. \A m \in Claimed(roster) \cap RowsAt({"member"}) : member[roster[m].claimedBy] # e.camper
    BY <1>2, UpdatesApart
  <2>2. RowsSound(roster, member, Registered, RowsAt({"member"}), RowsAt(Inviting))
    BY DEF RosterSound
  <2>3. roster \in [RosterRow -> AnyRow] /\ roster' \in [RosterRow -> AnyRow] /\ member \in MemberType
    BY DEF RosterShape
  <2> HIDE DEF e
  <2>4. QED
    BY <1>2, <1>3, <1>4, <1>5, <1>8, <2>1, <2>2, <2>3, InvitingIsSound
<1>10. RosterSound'
  <2>1. RowsAt({"member"}) \subseteq RowsAt({"member"})'
    BY <1>2, <1>7, RowsMove
  <2>2. RowsAt(Inviting) \cup {n} \subseteq RowsAt(Inviting)'
    BY <1>2, <1>6, <1>7, RowsMove DEF Inviting
  <2>3. RowsSound(roster', member, Registered, RowsAt({"member"})', RowsAt(Inviting)')
    BY <1>9, <2>1, <2>2, SoundWithMore
  <2>4. QED
    BY <1>2, <2>3 DEF RosterSound, Registered
<1>11. TouchesOnly(Subject(t))
  BY <1>2, <1>3, <1>4, <1>5, <1>8 DEF TouchesOnly, Touched, Standing, Registered
<1>12. Subject(t)' \subseteq Subject(t)
  BY <1>6, <1>7 DEF Subject, ByRow
<1>13. InformedOf(t)'
  BY <1>3, <1>5, <1>6, <1>7 DEF InformedOf, WithEntry, Inviting
<1>14. QED
  BY <1>7, <1>10, <1>11, <1>12, <1>13 DEF KeepsCalm

\* createCamper finds the user, who becomes a member.
LEMMA CreateClaimKeeps ==
  ASSUME RosterShape, RosterShape', InUse, RosterSound, NEW t \in Task, InformedOf(t),
         CreateClaim(t)
  PROVE  KeepsCalm(t) /\ RosterSound'
<1> DEFINE x == task[t]
           e == task[t].entry
           n == task[t].row
           p == task[t].entry.name.of
<1>1. /\ x.at = "claim" /\ e \in CamperName /\ e.camper \in Camper /\ p \in Person
      /\ n \in RosterRow /\ roster[n] \in EntryRow
      /\ e.camper \in Subject(t) /\ p \in Subject(t)
      /\ UNCHANGED role /\ TaskEnd(t)
      /\ Holders(e.camper) \subseteq {p}
  BY OwnRow, SubjectIs DEF CreateClaim, WithEntry, Inviting, accountVars, rows
<1>2. /\ roster[n].status = "INVITED" /\ roster[n].camper = e.camper /\ roster[n].name = e.name
      /\ p \in Registered
  BY <1>1 DEF InformedOf, Inviting
<1>3. /\ roster'[n].camper = roster[n].camper /\ roster'[n].name = roster[n].name
      /\ roster'[n].status = "CLAIMED" /\ roster'[n].claimedBy = p
      /\ \A m \in RosterRow : m # n => roster'[m] = roster[m]
  <2> DEFINE row == [roster[n] EXCEPT !.status = "CLAIMED", !.claimedBy = p]
  <2>1. /\ row.camper = roster[n].camper /\ row.name = roster[n].name
        /\ row.status = "CLAIMED" /\ row.claimedBy = p
    BY <1>1 DEF EntryRow
  <2>2. roster' = [roster EXCEPT ![n] = row]
    BY <1>1 DEF CreateClaim, RosterShape
  <2> HIDE DEF row
  <2>3. QED
    BY <1>1, <2>1, <2>2 DEF RosterShape
<1>4. member'[p] = e.camper /\ \A q \in Person : q # p => member'[q] = member[q]
  BY <1>1 DEF CreateClaim, RosterShape, MemberType
<1>5. \A q \in Person : q # p => member[q] # roster[n].camper
  BY <1>1, <1>2 DEF Holders
<1>6. RowsSound(roster', member', Registered \cup {p}, RowsAt({"member"}), RowsAt(Inviting) \ {n})
  <2>1. RowsSound(roster, member, Registered, RowsAt({"member"}), RowsAt(Inviting))
    BY DEF RosterSound
  <2>2. roster \in [RosterRow -> AnyRow] /\ roster' \in [RosterRow -> AnyRow]
        /\ member \in MemberType /\ member' \in MemberType
    BY DEF RosterShape
  <2>3. p = roster[n].name.of /\ member'[p] = roster[n].camper
    BY <1>2, <1>4
  <2> HIDE DEF n, p
  <2>4. QED
    BY <1>1, <1>2, <1>3, <1>4, <1>5, <2>1, <2>2, <2>3, ClaimingIsSound
<1>7. task'[t] = Rest /\ \A u \in Task : u # t => task'[u] = task[u]
  BY <1>1, EndingIs
<1>8. RosterSound'
  <2>1. RowsAt({"member"}) \subseteq RowsAt({"member"})'
    BY <1>1, <1>7, RowsMove
  <2>2. RowsAt(Inviting) \ {n} \subseteq RowsAt(Inviting)'
    BY <1>7, RowsMove
  <2>3. Registered' = Registered \cup {p}
    BY <1>1, <1>2 DEF Registered
  <2>4. RowsSound(roster', member', Registered \cup {p}, RowsAt({"member"})', RowsAt(Inviting)')
    BY <1>6, <2>1, <2>2, SoundWithMore
  <2>5. QED
    BY <2>3, <2>4 DEF RosterSound
<1>9. TouchesOnly(Subject(t))
  BY <1>1, <1>2, <1>3, <1>4 DEF TouchesOnly, Touched, Registered
<1>10. QED
  BY <1>1, <1>8, <1>9, EndingIs DEF KeepsCalm

\* updateCamper writes the row.
LEMMA UpdateKeeps ==
  ASSUME RosterShape, RosterShape', InUse, RosterSound, Separate, NEW t \in Task, InformedOf(t),
         UpdateWrite(t)
  PROVE  KeepsCalm(t) /\ RosterSound'
<1> DEFINE x == task[t]
           e == task[t].entry
           n == task[t].row
           new == [roster[n] EXCEPT !.camper = e.camper, !.name = e.name]
           y == [x EXCEPT !.at = "member", !.was = new]
           mids == RowsAt({"member"}) \cup {m \in {n} : roster[m].status = "CLAIMED"}
<1>1. /\ x.at = "write" /\ x \in TaskType /\ e \in CamperName /\ e.camper \in Camper
      /\ n \in RosterRow /\ roster[n] \in EntryRow /\ n \in Standing(roster)
      /\ e.camper \in Subject(t) /\ e.name.of \in Subject(t)
      /\ roster[n].camper \in Subject(t) /\ roster[n].name.of \in Subject(t)
      /\ UNCHANGED <<member, role>>
  BY OwnRow, SubjectIs DEF UpdateWrite, WithEntry, ByRow, accountVars, rows
<1>2. roster[n].name = e.name /\ e.name.exact /\ Free(roster, e, {n})
  BY <1>1 DEF InformedOf, WithEntry
<1>3. /\ new \in EntryRow /\ new.camper = e.camper /\ new.name = e.name
      /\ new.status = roster[n].status /\ new.claimedBy = roster[n].claimedBy
  BY <1>1, ListingIs DEF EntryRow
<1>4. roster' = [roster EXCEPT ![n] = new]
  BY DEF UpdateWrite
<1>5. y.at = "member" /\ y.was = new /\ y.row = n /\ y.entry = e /\ y.sheet = x.sheet
  BY <1>1 DEF TaskType
<1>6. IF new.status = "CLAIMED" /\ new.claimedBy # Nobody
      THEN task'[t] = y /\ \A u \in Task : u # t => task'[u] = task[u]
      ELSE TaskEnd(t)
  <2>1. IF new.status = "CLAIMED" /\ new.claimedBy # Nobody
        THEN task' = [task EXCEPT ![t] = y]
        ELSE TaskEnd(t)
    BY DEF UpdateWrite
  <2> HIDE DEF y, new
  <2>2. QED
    BY <2>1 DEF RosterShape
<1> HIDE DEF new, y
<1>7. /\ roster'[n] = new /\ \A m \in RosterRow : m # n => roster'[m] = roster[m]
  BY <1>1, <1>4 DEF RosterShape
<1>8. roster[n].status = "CLAIMED" => roster[n].claimedBy # Nobody
  <2>1. roster[n].status = "CLAIMED" => roster[n].claimedBy \in Registered
    BY <1>1 DEF RosterSound, RowsSound, Claimed
  <2>2. QED
    BY <2>1, NullsAre DEF Registered
<1>9. RowsSound(roster', member, Registered, mids, RowsAt(Inviting))
  <2>1. \A m \in Standing(roster) : roster[m].camper = e.camper => m = n
    BY <1>1 DEF UpdateWrite, RowsOf, Standing
  <2>2. \A m \in Claimed(roster) \cap RowsAt({"member"}) : m # n =>
          member[roster[m].claimedBy] # e.camper
    BY <1>1, UpdatesApart
  <2>3. RowsSound(roster, member, Registered, RowsAt({"member"}), RowsAt(Inviting))
    BY DEF RosterSound
  <2>4. roster \in [RosterRow -> AnyRow] /\ roster' \in [RosterRow -> AnyRow] /\ member \in MemberType
    BY DEF RosterShape
  <2>5. RowsAt({"member"}) \subseteq mids /\ (roster[n].status = "CLAIMED" => n \in mids)
    OBVIOUS
  <2>6. /\ roster'[n].camper = e.camper /\ roster'[n].name = roster[n].name
        /\ roster'[n].status = roster[n].status /\ roster'[n].claimedBy = roster[n].claimedBy
    BY <1>2, <1>3, <1>7
  <2> HIDE DEF mids, n, e
  <2>7. QED
    BY <1>1, <1>7, <2>1, <2>2, <2>3, <2>4, <2>5, <2>6, UpdatingIsSound
<1>10. \A u \in Task : u # t => task'[u] = task[u]
  BY <1>6, EndingIs
<1>11. RosterSound'
  <2>1. RowsAt(Inviting) \subseteq RowsAt(Inviting)'
    BY <1>1, <1>10, RowsMove DEF Inviting
  <2>2. mids \subseteq RowsAt({"member"})'
    <3>1. RowsAt({"member"}) \subseteq RowsAt({"member"})'
      BY <1>1, <1>10, RowsMove
    <3>2. roster[n].status = "CLAIMED" => task'[t].at \in {"member"} /\ task'[t].row = n
      BY <1>3, <1>5, <1>6, <1>8
    <3>3. roster[n].status = "CLAIMED" => n \in RowsAt({"member"})'
      BY <1>10, <3>2, RowsMove
    <3>4. QED
      BY <3>1, <3>3
  <2>3. RowsSound(roster', member, Registered, RowsAt({"member"})', RowsAt(Inviting)')
    BY <1>9, <2>1, <2>2, SoundWithMore
  <2>4. QED
    BY <1>1, <2>3 DEF RosterSound, Registered
<1>12. TouchesOnly(Subject(t))
  BY <1>1, <1>2, <1>3, <1>7 DEF TouchesOnly, Touched, Registered
<1>13. Subject(t)' \subseteq Subject(t) \cup {NoCamper, Nobody}
  <2>1. CASE TaskEnd(t)
    BY <2>1, EndingIs
  <2>2. CASE task'[t] = y
    <3>1. \A m \in RosterRow : m = n =>
            OfRow(roster[m])' \subseteq OfRow(roster[n]) \cup {e.camper}
      BY <1>1, <1>2, <1>3, <1>7 DEF OfRow
    <3>2. OfRow(roster[n]) \subseteq Subject(t)
      BY <1>1 DEF Subject, ByRow
    <3>3. QED
      BY <1>1, <1>5, <2>2, <3>1, <3>2 DEF Subject
  <2>3. QED
    BY <1>6, <2>1, <2>2
<1>14. InformedOf(t)'
  <2>1. CASE TaskEnd(t)
    BY <2>1, EndingIs
  <2>2. CASE task'[t] = y /\ new.status = "CLAIMED"
    BY <1>2, <1>3, <1>5, <1>7, <2>2 DEF InformedOf, WithEntry, Inviting
  <2>3. QED
    BY <1>6, <2>1, <2>2
<1>15. QED
  BY <1>10, <1>11, <1>12, <1>13, <1>14 DEF KeepsCalm

\* The membership follows.
LEMMA UpdateMemberKeeps ==
  ASSUME RosterShape, RosterShape', InUse, RosterSound, NEW t \in Task, InformedOf(t),
         UpdateMember(t)
  PROVE  KeepsCalm(t) /\ RosterSound'
<1> DEFINE x == task[t]
           e == task[t].entry
           n == task[t].row
           p == task[t].was.claimedBy
<1>1. /\ x.at = "member" /\ e \in CamperName /\ e.camper \in Camper /\ p \in Person
      /\ n \in RosterRow /\ roster[n] \in EntryRow
      /\ UNCHANGED <<roster, role>> /\ TaskEnd(t)
      /\ Holders(e.camper) \subseteq {p}
      /\ roster[n].claimedBy \in Subject(t)
  BY OwnRow, SubjectIs, ListingIs DEF UpdateMember, WithEntry, ByRow, Members, accountVars, rows
<1>2. roster[n].status = "CLAIMED" /\ roster[n].camper = e.camper /\ p = roster[n].claimedBy
  BY <1>1 DEF InformedOf
<1>3. member'[p] = roster[n].camper /\ \A q \in Person : q # p => member'[q] = member[q]
  BY <1>1, <1>2 DEF UpdateMember, RosterShape, MemberType
<1>4. \A q \in Person : q # p => member[q] # roster[n].camper
  BY <1>1, <1>2 DEF Holders
<1>5. task'[t] = Rest /\ \A u \in Task : u # t => task'[u] = task[u]
  BY <1>1, EndingIs
<1>6. RowsSound(roster, member', Registered, RowsAt({"member"})', RowsAt(Inviting))
  <2>1. RowsSound(roster, member, Registered, RowsAt({"member"}), RowsAt(Inviting))
    BY DEF RosterSound
  <2>2. roster \in [RosterRow -> AnyRow] /\ member \in MemberType /\ member' \in MemberType
    BY DEF RosterShape
  <2>3. RowsAt({"member"}) \subseteq RowsAt({"member"})' \cup {n}
    BY <1>5, RowsMove
  <2> HIDE DEF n, p
  <2>4. QED
    BY <1>1, <1>2, <1>3, <1>4, <2>1, <2>2, <2>3, FollowingIsSound
<1>7. RosterSound'
  <2>1. RowsAt(Inviting) \subseteq RowsAt(Inviting)'
    BY <1>1, <1>5, RowsMove DEF Inviting
  <2>2. RowsSound(roster, member', Registered, RowsAt({"member"})', RowsAt(Inviting)')
    BY <1>6, <2>1, SoundWithMore
  <2>3. QED
    BY <1>1, <2>2 DEF RosterSound, Registered
<1>8. TouchesOnly(Subject(t))
  BY <1>1, <1>2, <1>3 DEF TouchesOnly, Touched, Registered
<1>9. QED
  BY <1>1, <1>7, <1>8, EndingIs DEF KeepsCalm

\* removeCamper revokes the row, and ends the membership.
LEMMA RemovalKeeps ==
  ASSUME RosterShape, RosterShape', InUse, RosterSound, NEW t \in Task, InformedOf(t),
         RemoveCamperWrite(t)
  PROVE  KeepsCalm(t) /\ RosterSound'
<1> DEFINE x == task[t]
           n == task[t].row
           p == roster[n].claimedBy
           row == [roster[n] EXCEPT !.status = "REVOKED"]
<1>1. /\ x.at = "delete" /\ n \in RosterRow /\ roster[n] \in EntryRow /\ n \in Standing(roster)
      /\ roster[n].camper \in Subject(t) /\ roster[n].name.of \in Subject(t)
      /\ p \in Subject(t)
      /\ UNCHANGED role /\ TaskEnd(t)
  BY SubjectIs DEF RemoveCamperWrite, ByRow, accountVars, rows
<1>2. x.was = roster[n]
  BY <1>1 DEF InformedOf
<1>3. roster[n].status = "CLAIMED" => p # Nobody /\ p \in Person
  <2>1. roster[n].status = "CLAIMED" => p \in Registered
    BY <1>1 DEF RosterSound, RowsSound, Claimed
  <2>2. QED
    BY <2>1, NullsAre DEF Registered
<1>4. /\ roster'[n].camper = roster[n].camper /\ roster'[n].name = roster[n].name
      /\ roster'[n].status = "REVOKED"
      /\ \A m \in RosterRow : m # n => roster'[m] = roster[m]
  <2>1. row.camper = roster[n].camper /\ row.name = roster[n].name /\ row.status = "REVOKED"
    BY <1>1 DEF EntryRow
  <2>2. roster' = [roster EXCEPT ![n] = row]
    BY DEF RemoveCamperWrite
  <2> HIDE DEF row
  <2>3. QED
    BY <1>1, <2>1, <2>2 DEF RosterShape
<1>5. /\ roster[n].status # "CLAIMED" => member' = member
      /\ roster[n].status = "CLAIMED" =>
           /\ \A q \in Person : q # p => member'[q] = member[q]
           /\ member'[p] = NoCamper
  BY <1>2, <1>3 DEF RemoveCamperWrite, RosterShape, MemberType
<1>6. task'[t] = Rest /\ \A u \in Task : u # t => task'[u] = task[u]
  BY <1>1, EndingIs
<1>7. RowsSound(roster', member', Registered, RowsAt({"member"}), RowsAt(Inviting))
  <2>1. RowsSound(roster, member, Registered, RowsAt({"member"}), RowsAt(Inviting))
    BY DEF RosterSound
  <2>2. roster \in [RosterRow -> AnyRow] /\ roster' \in [RosterRow -> AnyRow]
        /\ member \in MemberType /\ member' \in MemberType
    BY DEF RosterShape
  <2> HIDE DEF n
  <2>3. QED
    BY <1>1, <1>4, <1>5, <2>1, <2>2, RemovingIsSound
<1>8. RosterSound'
  <2>1. RowsAt({"member"}) \subseteq RowsAt({"member"})' /\ RowsAt(Inviting) \subseteq RowsAt(Inviting)'
    BY <1>1, <1>6, RowsMove DEF Inviting
  <2>2. RowsSound(roster', member', Registered, RowsAt({"member"})', RowsAt(Inviting)')
    BY <1>7, <2>1, SoundWithMore
  <2>3. QED
    BY <1>1, <2>2 DEF RosterSound, Registered
<1>9. TouchesOnly(Subject(t))
  <2>1. \A m \in RosterRow : Touched(m, Subject(t))
    BY <1>1, <1>4 DEF Touched
  <2>2. \A q \in Person : q \notin Subject(t) => member'[q] = member[q]
    BY <1>1, <1>5
  <2>3. QED
    BY <1>1, <2>1, <2>2 DEF TouchesOnly, Registered
<1>10. QED
  BY <1>1, <1>8, <1>9, EndingIs DEF KeepsCalm
-----------------------------------------------------------------------------
(* A sheet, line by line. *)

LEMMA LineIs ==
  ASSUME NEW users, NEW e \in CamperName, NEW at \in UploadState, e.name.exact,
         UploadLine(users, e, at).ok
  PROVE  /\ at.ok
         /\ \E n \in RosterRow :
              LET to == UploadLine(users, e, at)
                  p == e.name.of
              IN /\ n \in UpsertTarget(at.roster, e.camper)
                 /\ \A m \in RosterRow : m # n => to.roster[m] = at.roster[m]
                 /\ to.roster[n] \in EntryRow
                 /\ to.roster[n].camper = e.camper /\ to.roster[n].name = e.name
                 /\ p \notin users => /\ to.roster[n].status = "INVITED"
                                      /\ to.roster[n].claimedBy = at.roster[n].claimedBy
                                      /\ to.member = at.member
                 /\ p \in users => /\ to.roster[n].status = "CLAIMED"
                                   /\ to.roster[n].claimedBy = p
                                   /\ to.member[p] = e.camper
                                   /\ \A q \in Person : q # p => to.member[q] = at.member[q]
                                   /\ \A q \in Person : q # p => at.member[q] # e.camper
<1> DEFINE targets == UpsertTarget(at.roster, e.camper)
           n == CHOOSE m \in UpsertTarget(at.roster, e.camper) : TRUE
           p == e.name.of
           row == Invited(at.roster[n], e)
           to == UploadLine(users, e, at)
<1>0. at.ok \in BOOLEAN /\ at.roster \in [RosterRow -> AnyRow] /\ at.member \in MemberType
  BY DEF UploadState
<1>1. at.ok /\ targets # {}
  <2>1. CASE ~at.ok \/ targets = {}
    <3>1. to = [at EXCEPT !.ok = FALSE]
      BY <2>1 DEF UploadLine
    <3>2. to.ok = FALSE
      BY <3>1 DEF UploadState
    <3>3. QED
      BY <3>2
  <2>2. QED
    BY <2>1
<1>2. n \in targets /\ n \in RosterRow
  BY <1>1 DEF UpsertTarget
<1>3. p \in Person /\ at.roster[n] \in AnyRow
  BY <1>0, <1>2, ListingIs
<1>4. /\ row \in EntryRow /\ row.camper = e.camper /\ row.name = e.name
      /\ row.status = "INVITED" /\ row.claimedBy = at.roster[n].claimedBy
  BY <1>3, InvitedIs
<1>5. IF p \notin users
      THEN to = [at EXCEPT !.roster[n] = row]
      ELSE to = [ok |-> \A q \in Person \ {p} : at.member[q] # e.camper,
                 roster |-> [at.roster EXCEPT
                               ![n] = [row EXCEPT !.status = "CLAIMED", !.claimedBy = p]],
                 member |-> [at.member EXCEPT ![p] = e.camper]]
  BY <1>1 DEF UploadLine
<1> HIDE DEF row, n
<1> DEFINE claimed == [row EXCEPT !.status = "CLAIMED", !.claimedBy = p]
<1>6. /\ claimed \in EntryRow /\ claimed.camper = e.camper /\ claimed.name = e.name
      /\ claimed.status = "CLAIMED" /\ claimed.claimedBy = p
  BY <1>3, <1>4 DEF EntryRow
<1> HIDE DEF claimed
<1>7. CASE p \notin users
  <2>1. to.roster = [at.roster EXCEPT ![n] = row] /\ to.member = at.member
    BY <1>5, <1>7 DEF UploadState
  <2>2. to.roster[n] = row /\ \A m \in RosterRow : m # n => to.roster[m] = at.roster[m]
    BY <1>0, <1>2, <2>1
  <2>3. QED
    BY <1>1, <1>2, <1>4, <1>7, <2>1, <2>2
<1>8. CASE p \in users
  <2>1. to.roster = [at.roster EXCEPT ![n] = claimed] /\ to.member = [at.member EXCEPT ![p] = e.camper]
        /\ to.ok = \A q \in Person \ {p} : at.member[q] # e.camper
    BY <1>5, <1>8 DEF claimed
  <2>2. to.roster[n] = claimed /\ \A m \in RosterRow : m # n => to.roster[m] = at.roster[m]
    BY <1>0, <1>2, <2>1
  <2>3. to.member[p] = e.camper /\ \A q \in Person : q # p => to.member[q] = at.member[q]
    BY <1>0, <1>3, <2>1 DEF MemberType
  <2>4. \A q \in Person : q # p => at.member[q] # e.camper
    BY <2>1
  <2>5. QED
    BY <1>1, <1>2, <1>6, <1>8, <2>2, <2>3, <2>4
<1>9. QED
  BY <1>7, <1>8

\* In the middle of a sheet the tables are sound, and agree with the sheet; the
\* updates under way have nothing to do with it.
Halfway(ro, me, reg, mid, pend, sheet) ==
  /\ RowsSound(ro, me, reg, mid, pend)
  /\ Agrees(ro, sheet)
  /\ \A m \in mid : m \in RosterRow /\ ro[m].status = "CLAIMED"
  /\ \A m \in mid : \A e \in ToSet(sheet) :
       /\ ro[m].camper # e.camper /\ ro[m].claimedBy # e.name.of
       /\ me[ro[m].claimedBy] # e.camper

LEMMA LineKeepsSound ==
  ASSUME NEW users, NEW reg, NEW mid, NEW pend, NEW sheet \in Seq(CamperName),
         NEW e \in ToSet(sheet), NEW at \in UploadState,
         \A f \in ToSet(sheet) : f.name.of \in users <=> f.name.of \in reg,
         Halfway(at.roster, at.member, reg, mid, pend, sheet),
         UploadLine(users, e, at).ok
  PROVE  LET to == UploadLine(users, e, at)
         IN Halfway(to.roster, to.member, reg, mid, pend, sheet)
<1> DEFINE to == UploadLine(users, e, at)
           p == e.name.of
           ro == at.roster
           me == at.member
           new == to.roster
           now == to.member
<1>0. /\ ToSet(sheet) \subseteq CamperName /\ e \in CamperName
      /\ e.camper \in Camper /\ p \in Person /\ e.name.exact
      /\ ro \in [RosterRow -> AnyRow] /\ me \in MemberType
      /\ new \in [RosterRow -> AnyRow] /\ now \in MemberType
  <2>1. ToSet(sheet) \subseteq CamperName
    BY DEF ToSet
  <2>2. to \in UploadState
    BY <2>1, LineKeepsShape
  <2>3. QED
    BY <2>1, <2>2, ListingIs DEF UploadState, Halfway, Agrees
<1>1. PICK n \in RosterRow :
        /\ n \in UpsertTarget(ro, e.camper)
        /\ \A m \in RosterRow : m # n => new[m] = ro[m]
        /\ new[n] \in EntryRow
        /\ new[n].camper = e.camper /\ new[n].name = e.name
        /\ p \notin users => /\ new[n].status = "INVITED"
                             /\ new[n].claimedBy = ro[n].claimedBy
                             /\ now = me
        /\ p \in users => /\ new[n].status = "CLAIMED"
                          /\ new[n].claimedBy = p
                          /\ now[p] = e.camper
                          /\ \A q \in Person : q # p => now[q] = me[q]
                          /\ \A q \in Person : q # p => me[q] # e.camper
  BY <1>0, LineIs
<1>2. RowsSound(ro, me, reg, mid, pend) /\ Agrees(ro, sheet)
  BY DEF Halfway
<1>3. p \in users <=> p \in reg
  OBVIOUS
<1> HIDE DEF p, to, ro, me, new, now
<1>4. n \notin mid
  <2>1. n \in mid => ro[n].status = "CLAIMED" /\ ro[n].camper # e.camper
    BY DEF Halfway, ro
  <2>2. QED
    BY <1>1, <2>1 DEF UpsertTarget
<1>5. /\ n \in Standing(ro) => ro[n].camper = e.camper
      /\ \A m \in Standing(ro) : ro[m].camper = e.camper => m = n
  <2>1. \A k, m \in Standing(ro) : ro[k].camper = ro[m].camper => k = m
    BY <1>2 DEF RowsSound
  <2>2. QED
    BY <1>1, <2>1 DEF UpsertTarget, Standing
<1>6. n \in Alive(ro) => ro[n].camper = e.camper /\ ro[n].name = e.name /\ n \in Standing(ro)
  BY <1>2, <1>5 DEF Agrees, Alive, Standing
<1>7. RowsSound(new, now, reg, mid, pend)
  <2>1. CASE n \notin Alive(ro)
    <3> DEFINE mean == [ro EXCEPT ![n] = Invited(ro[n], e)]
    <3>1. /\ mean \in [RosterRow -> AnyRow] /\ \A m \in RosterRow : m # n => mean[m] = ro[m]
          /\ mean[n].camper = e.camper /\ mean[n].name = e.name /\ mean[n].status = "INVITED"
      <4>1. /\ Invited(ro[n], e) \in EntryRow
            /\ Invited(ro[n], e).camper = e.camper /\ Invited(ro[n], e).name = e.name
            /\ Invited(ro[n], e).status = "INVITED"
        BY <1>0, InvitedIs
      <4>2. QED
        BY <1>0, <4>1 DEF AnyRow
    <3> HIDE DEF mean
    <3>2. Free(ro, e, {})
      BY <1>2, <1>5, <2>1 DEF Free, Agrees, Alive, Standing
    <3>3. \A m \in Claimed(ro) \cap mid : me[ro[m].claimedBy] # e.camper
      BY DEF Halfway, ro, me
    <3>4. RowsSound(mean, me, reg, mid, pend \cup {n})
      BY <1>0, <1>2, <1>5, <2>1, <3>1, <3>2, <3>3, InvitingIsSound
    <3>5. CASE p \notin users
      <4>1. \A m \in RosterRow : /\ new[m].camper = mean[m].camper /\ new[m].name = mean[m].name
                                 /\ new[m].status = mean[m].status
                                 /\ new[m].status = "CLAIMED" => new[m].claimedBy = mean[m].claimedBy
        BY <1>1, <3>1, <3>5
      <4>2. Standing(new) = Standing(mean) /\ Alive(new) = Alive(mean) /\ Claimed(new) = Claimed(mean)
            /\ Standing(new) \subseteq RosterRow /\ Alive(new) \subseteq RosterRow
            /\ \A m \in Claimed(new) : m \in RosterRow /\ new[m].status = "CLAIMED"
        BY <4>1 DEF Standing, Alive, Claimed
      <4>3. RowsSound(new, me, reg, mid, pend \cup {n})
        BY <3>4, <4>1, <4>2 DEF RowsSound
      <4>4. new[n].name.of \notin reg
        BY <1>1, <1>3, <3>5 DEF p
      <4>5. RowsSound(new, me, reg, mid, pend)
        BY <4>3, <4>4 DEF RowsSound
      <4>6. QED
        BY <1>1, <3>5, <4>5
    <3>6. CASE p \in users
      <4>1. p = mean[n].name.of /\ mean[n].camper = e.camper
        BY <3>1 DEF p
      <4>2. \A m \in RosterRow : m # n => new[m] = mean[m]
        BY <1>1, <3>1
      <4>3. RowsSound(new, now, reg \cup {p}, mid, (pend \cup {n}) \ {n})
        BY <1>0, <1>1, <3>1, <3>4, <3>6, <4>1, <4>2, ClaimingIsSound DEF p
      <4>4. reg \cup {p} = reg /\ (pend \cup {n}) \ {n} \subseteq pend
        BY <1>3, <3>6
      <4>5. QED
        BY <4>3, <4>4, SoundWithMore
    <3>7. QED
      BY <3>5, <3>6
  <2>2. CASE ro[n].status = "INVITED"
    <3>1. ro[n].camper = e.camper /\ ro[n].name = e.name /\ ro[n] \in EntryRow
      BY <1>0, <1>6, <2>2, RowSets DEF Alive
    <3>2. CASE p \notin users
      <4>1. new[n] = ro[n]
        BY <1>1, <2>2, <3>1, <3>2 DEF EntryRow
      <4>2. new = ro
        BY <1>0, <1>1, <4>1
      <4>3. QED
        BY <1>1, <1>2, <3>2, <4>2
    <3>3. CASE p \in users
      <4>1. p = ro[n].name.of
        BY <3>1 DEF p
      <4>2. RowsSound(new, now, reg \cup {p}, mid, pend \ {n})
        BY <1>0, <1>1, <1>2, <2>2, <3>1, <3>3, <4>1, ClaimingIsSound DEF p
      <4>3. reg \cup {p} = reg
        BY <1>3, <3>3
      <4>4. RowsSound(new, now, reg, mid, pend \ {n})
        BY <4>2, <4>3
      <4>5. QED
        BY <4>4, SoundWithMore
    <3>4. QED
      BY <3>2, <3>3
  <2>3. CASE ro[n].status = "CLAIMED"
    <3>1. ro[n].camper = e.camper /\ ro[n].name = e.name /\ ro[n] \in EntryRow /\ n \in Claimed(ro)
      BY <1>0, <1>6, <2>3, RowSets DEF Alive
    <3>2. ro[n].claimedBy = p /\ p \in reg /\ me[p] = e.camper
      BY <1>2, <1>4, <3>1 DEF RowsSound, p
    <3>3. new[n] = ro[n]
      BY <1>1, <1>3, <2>3, <3>1, <3>2 DEF EntryRow
    <3>4. new = ro
      BY <1>0, <1>1, <3>3
    <3>5. now = me
      BY <1>0, <1>1, <1>3, <3>2 DEF MemberType
    <3>6. QED
      BY <1>2, <3>4, <3>5
  <2>4. QED
    BY <2>1, <2>2, <2>3 DEF Alive
<1>8. Agrees(new, sheet)
  <2>1. \A f \in ToSet(sheet) : e.camper = f.camper <=> e.name = f.name
    BY <1>2 DEF Agrees
  <2>2. \A m \in Alive(new) : m # n => m \in Alive(ro) /\ new[m] = ro[m]
    BY <1>1 DEF Alive
  <2>3. ASSUME NEW f \in ToSet(sheet), NEW m \in Alive(new)
        PROVE  new[m].camper = f.camper <=> new[m].name = f.name
    BY <1>1, <1>2, <2>1, <2>2 DEF Agrees
  <2>4. QED
    BY <1>2, <2>3 DEF Agrees
<1>9. ASSUME NEW m \in mid
      PROVE  /\ m \in RosterRow /\ new[m].status = "CLAIMED"
             /\ \A f \in ToSet(sheet) :
                  /\ new[m].camper # f.camper /\ new[m].claimedBy # f.name.of
                  /\ now[new[m].claimedBy] # f.camper
  <2>1. /\ m \in RosterRow /\ ro[m].status = "CLAIMED" /\ ro[m].claimedBy # p
        /\ \A f \in ToSet(sheet) :
             /\ ro[m].camper # f.camper /\ ro[m].claimedBy # f.name.of
             /\ me[ro[m].claimedBy] # f.camper
    BY DEF Halfway, ro, me, p
  <2>2. new[m] = ro[m]
    BY <1>1, <1>4, <2>1
  <2>3. ro[m].claimedBy \in Person
    <3>1. ro[m].claimedBy = ro[m].name.of /\ ro[m].name.of \in Person
      BY <1>0, <1>2, <2>1, RowSets DEF RowsSound
    <3>2. QED
      BY <3>1
  <2>4. now[ro[m].claimedBy] = me[ro[m].claimedBy]
    BY <1>1, <2>1, <2>3
  <2>5. QED
    BY <2>1, <2>2, <2>4
<1>10. Halfway(new, now, reg, mid, pend, sheet)
  BY <1>7, <1>8, <1>9 DEF Halfway
<1>11. QED
  BY <1>10 DEF new, now, to

\* Within a sheet only what it names is touched.
Within(ro, me, S) ==
  /\ \A n \in RosterRow : ro[n] # roster[n] =>
       /\ ro[n].camper \in S /\ ro[n].name.of \in S
       /\ n \in Standing(roster) => roster[n].camper \in S
       /\ n \in Alive(roster) => roster[n].name.of \in S
  /\ \A p \in Person : p \notin S => me[p] = member[p]

LEMMA LineStaysWithin ==
  ASSUME NEW users, NEW sheet \in Seq(CamperName), NEW e \in ToSet(sheet), NEW at \in UploadState,
         NEW S, \A f \in ToSet(sheet) : f.camper \in S /\ f.name.of \in S,
         Agrees(at.roster, sheet), Within(at.roster, at.member, S),
         UploadLine(users, e, at).ok
  PROVE  LET to == UploadLine(users, e, at) IN Within(to.roster, to.member, S)
<1> DEFINE to == UploadLine(users, e, at)
           p == e.name.of
<1>0. e \in CamperName /\ e.name.exact /\ p \in Person /\ e.camper \in S /\ p \in S
  <2>1. e \in CamperName
    BY DEF ToSet
  <2>2. QED
    BY <2>1, ListingIs DEF Agrees
<1>1. PICK n \in RosterRow :
        /\ n \in UpsertTarget(at.roster, e.camper)
        /\ \A m \in RosterRow : m # n => to.roster[m] = at.roster[m]
        /\ to.roster[n] \in EntryRow
        /\ to.roster[n].camper = e.camper /\ to.roster[n].name = e.name
        /\ p \notin users => /\ to.roster[n].status = "INVITED"
                             /\ to.roster[n].claimedBy = at.roster[n].claimedBy
                             /\ to.member = at.member
        /\ p \in users => /\ to.roster[n].status = "CLAIMED"
                          /\ to.roster[n].claimedBy = p
                          /\ to.member[p] = e.camper
                          /\ \A q \in Person : q # p => to.member[q] = at.member[q]
                          /\ \A q \in Person : q # p => at.member[q] # e.camper
  BY <1>0, LineIs
<1> HIDE DEF to
<1>2. at.roster[n] = roster[n] =>
        /\ n \in Standing(roster) => roster[n].camper \in S
        /\ n \in Alive(roster) => roster[n].name.of \in S
  <2>1. SUFFICES ASSUME at.roster[n] = roster[n], n \in Standing(roster)
                 PROVE  roster[n].camper \in S /\ (n \in Alive(roster) => roster[n].name.of \in S)
    BY DEF Alive, Standing
  <2>2. roster[n].camper = e.camper
    BY <1>1, <2>1 DEF UpsertTarget, Standing
  <2>3. n \in Alive(roster) => roster[n].name = e.name
    BY <1>1, <2>1, <2>2 DEF Agrees, Alive
  <2>4. QED
    BY <1>0, <2>2, <2>3
<1>3. \A m \in RosterRow : to.roster[m] # roster[m] =>
        /\ to.roster[m].camper \in S /\ to.roster[m].name.of \in S
        /\ m \in Standing(roster) => roster[m].camper \in S
        /\ m \in Alive(roster) => roster[m].name.of \in S
  BY <1>0, <1>1, <1>2 DEF Within
<1>4. \A q \in Person : q \notin S => to.member[q] = member[q]
  BY <1>0, <1>1 DEF Within
<1>5. Within(to.roster, to.member, S)
  BY <1>3, <1>4 DEF Within
<1>6. QED
  BY <1>5 DEF to

\* uploadCampers writes the whole sheet.
LEMMA UploadKeeps ==
  ASSUME RosterShape, RosterShape', InUse, RosterSound, Separate, Informed,
         NEW t \in Task, UploadCommit(t)
  PROVE  KeepsCalm(t) /\ RosterSound'
<1> DEFINE sheet == task[t].sheet
           users == task[t].users
           k == Len(task[t].sheet)
           start == [ok |-> TRUE, roster |-> roster, member |-> member]
           mid == RowsAt({"member"})
           pend == RowsAt(Inviting)
           S == Subject(t)
           Good == {at \in UploadState : at.ok =>
                      /\ Halfway(at.roster, at.member, Registered, mid, pend, sheet)
                      /\ Within(at.roster, at.member, S)}
<1>1. sheet \in Seq(CamperName) /\ k \in Nat
  BY OwnRow
<1>2. PICK f : /\ Through(f, k, users, sheet, start)
               /\ task[t].at = "commit"
               /\ f[k].ok /\ roster' = f[k].roster /\ member' = f[k].member
               /\ task' = [task EXCEPT ![t] = Rest]
               /\ UNCHANGED <<accountVars, slack, found, rosterHistory>>
  BY <1>1, CommitIs
<1>3. /\ Agrees(roster, sheet)
      /\ \A e \in ToSet(sheet) : e.name.of \in users <=> e.name.of \in Registered
  BY <1>2 DEF Informed, InformedOf
<1>4. \A e \in ToSet(sheet) : e.camper \in S \cap Camper /\ e.name.of \in S \cap Person
  BY SubjectIs
<1>5. ASSUME NEW m \in mid
      PROVE  /\ m \in RosterRow /\ roster[m].status = "CLAIMED"
             /\ \A e \in ToSet(sheet) :
                  /\ roster[m].camper # e.camper /\ roster[m].claimedBy # e.name.of
                  /\ member[roster[m].claimedBy] # e.camper
  <2>1. PICK u \in Task : task[u].at = "member" /\ task[u].row = m
    BY DEF RowsAt
  <2>2. u # t /\ task[u].at \in ByRow
    BY <1>2, <2>1 DEF ByRow
  <2>3. m \in RosterRow /\ roster[m].status = "CLAIMED"
    BY <2>1, <2>2, SubjectIs DEF Informed, InformedOf
  <2>4. roster[m].claimedBy # Nobody
    <3>1. roster[m].claimedBy \in Registered
      BY <2>3 DEF RosterSound, RowsSound, Claimed
    <3>2. QED
      BY <3>1, NullsAre DEF Registered
  <2>5. /\ roster[m].camper \in Subject(u) /\ roster[m].claimedBy \in Subject(u)
        /\ member[roster[m].claimedBy] \in Subject(u)
    BY <2>1, <2>2, <2>4, SubjectIs
  <2>6. \A c \in S : c \in Camper \cup Person => c \notin Subject(u)
    BY <2>2, NullsAre DEF Separate
  <2>7. QED
    BY <1>4, <2>3, <2>5, <2>6
<1>6. start \in Good
  <2>1. start \in UploadState
    BY DEF UploadState, RosterShape
  <2>2. Halfway(roster, member, Registered, mid, pend, sheet)
    BY <1>3, <1>5 DEF Halfway, RosterSound
  <2>3. Within(roster, member, S)
    BY DEF Within
  <2> HIDE DEF mid, pend, S, sheet
  <2>4. QED
    BY <2>1, <2>2, <2>3
<1>7. ASSUME NEW j \in 1..k, NEW at \in Good
      PROVE  UploadLine(users, sheet[j], at) \in Good
  <2> DEFINE e == sheet[j]
             to == UploadLine(users, e, at)
  <2>1. e \in ToSet(sheet) /\ e \in CamperName /\ at \in UploadState
    BY <1>1 DEF ToSet
  <2>2. to \in UploadState
    BY <2>1, LineKeepsShape
  <2>3. ASSUME to.ok PROVE at.ok
    <3>1. e.name.exact
      BY <1>3, <2>1 DEF Agrees
    <3>2. QED
      BY <2>1, <2>3, <3>1, LineIs
  <2> HIDE DEF e, k, start
  <2>4. ASSUME to.ok
        PROVE  /\ Halfway(to.roster, to.member, Registered, mid, pend, sheet)
               /\ Within(to.roster, to.member, S)
    <3>1. /\ Halfway(at.roster, at.member, Registered, mid, pend, sheet)
          /\ Within(at.roster, at.member, S)
      BY <2>3, <2>4
    <3>2. Agrees(at.roster, sheet)
      BY <3>1 DEF Halfway
    <3>3. \A f2 \in ToSet(sheet) : f2.camper \in S /\ f2.name.of \in S
      BY <1>4
    <3> HIDE DEF mid, pend, S, sheet, users
    <3>4. Halfway(to.roster, to.member, Registered, mid, pend, sheet)
      BY <1>1, <1>3, <2>1, <2>4, <3>1, LineKeepsSound
    <3>5. Within(to.roster, to.member, S)
      BY <1>1, <2>1, <2>4, <3>1, <3>2, <3>3, LineStaysWithin
    <3>6. QED
      BY <3>4, <3>5
  <2>5. QED
    BY <2>2, <2>4 DEF e
<1>8. f[k] \in Good
  <2> HIDE DEF k, start, Good, sheet, users
  <2>1. QED
    BY <1>1, <1>2, <1>6, <1>7, LinesKeep
<1>9. Halfway(roster', member', Registered, mid, pend, sheet) /\ Within(roster', member', S)
  BY <1>2, <1>8
<1>10. TaskEnd(t) /\ UNCHANGED role /\ task'[t] = Rest
       /\ \A u \in Task : u # t => task'[u] = task[u]
  BY <1>2, EndingIs DEF TaskEnd, accountVars, rows
<1>11. RosterSound'
  <2>1. mid \subseteq RowsAt({"member"})' /\ pend \subseteq RowsAt(Inviting)'
    BY <1>2, <1>10, RowsMove DEF Inviting
  <2>2. RowsSound(roster', member', Registered, mid, pend)
    BY <1>9 DEF Halfway
  <2>3. RowsSound(roster', member', Registered, RowsAt({"member"})', RowsAt(Inviting)')
    BY <2>1, <2>2, SoundWithMore
  <2>4. QED
    BY <1>10, <2>3 DEF RosterSound, Registered
<1>12. TouchesOnly(S)
  BY <1>9, <1>10 DEF Within, TouchesOnly, Touched, Registered
<1>13. QED
  BY <1>10, <1>11, <1>12, EndingIs DEF KeepsCalm
-----------------------------------------------------------------------------
(* Arrivals: what does not clash is about something else. *)

LEMMA SubjectIsAbout ==
  ASSUME RosterShape, NEW t \in Task
  PROVE  Subject(t) \subseteq About(task[t])
<1>1. task[t].at \in ByRow => task[t].row \in RosterRow
  BY OwnRow
<1>2. QED
  BY <1>1, NullsAre DEF Subject, About

Same == RosterSound' /\ Separate' /\ Informed' /\ Claiming'

LEMMA BeginIsCalm ==
  ASSUME Shape, RosterShape, RosterShape', InUse, RosterSound, Separate, Informed, Claiming,
         NEW t \in Task, NEW x \in TaskType, NEW causes, TaskBegin(t, x, causes), Undisturbed',
         x.at \in {"check", "conflict", "remove", "sheet", "profile"}, InformedOf(t)'
  PROVE  Same
<1>1. /\ task[t] = Rest /\ task' = [task EXCEPT ![t] = x]
      /\ UNCHANGED <<roster, member, role, req, found>>
  BY DEF TaskBegin, tables, accountVars, rows
<1>2. task'[t] = x /\ \A u \in Task : u # t => task'[u] = task[u]
  BY <1>1 DEF RosterShape
<1>3. Rest.at = "idle"
  BY DEF Rest
<1>4. Clashes(About(x)) \subseteq {"profiles"}
  BY DEF TaskBegin, Disturb, Undisturbed
<1>5. /\ \A u \in Task : About(x) \cap About(task[u]) \subseteq {NoCamper, Nobody}
      /\ \A r \in Request : req[r].op = "login" => req[r].who \notin About(x)
  <2>1. "overlap" \notin Clashes(About(x))
    BY <1>4
  <2>2. QED
    BY <2>1 DEF Clashes
<1>6. Subject(t)' \subseteq About(x)
  <2>1. Subject(t)' \subseteq About(task[t])'
    <3>1. task'[t].at \in ByRow => task'[t].row \in RosterRow
      BY DEF RosterShape, Fitting
    <3>2. QED
      BY <3>1, NullsAre DEF Subject, About
  <2>2. task'[t].row # NoRow => OfRow(roster[task[t].row])' = OfRow(roster[x.row])
    BY <1>1, <1>2 DEF OfRow
  <2>3. About(task[t])' = About(x)
    BY <1>2, <2>2 DEF About
  <2>4. QED
    BY <2>1, <2>3
<1>7. ASSUME NEW u \in Task, u # t
      PROVE  Subject(u)' = Subject(u) /\ InformedOf(u)' /\ Subject(u) \subseteq About(task[u])
  <2>1. TouchesOnly({})
    BY <1>1, StillTouchesNothing
  <2>2. QED
    BY <1>2, <1>7, <2>1, OthersStand, SubjectIsAbout DEF Informed
<1>8. Informed'
  BY <1>7 DEF Informed
<1>9. Separate'
  <2>1. \A u, v \in Task : u # v => (Subject(u)' \cap Subject(v)') \subseteq {NoCamper, Nobody}
    <3>1. \A u \in Task : u # t => (Subject(t)' \cap Subject(u)') \subseteq {NoCamper, Nobody}
      BY <1>5, <1>6, <1>7
    <3>2. \A u, v \in Task : u # v /\ u # t /\ v # t =>
            (Subject(u)' \cap Subject(v)') \subseteq {NoCamper, Nobody}
      BY <1>7 DEF Separate
    <3>3. QED
      BY <3>1, <3>2
  <2>2. \A u \in Task, r \in Request : req[r].op = "login" => req[r].who \notin Subject(u)'
    <3>1. \A r \in Request : req[r].op = "login" => req[r].who \notin Subject(t)'
      BY <1>5, <1>6
    <3>2. QED
      BY <1>7, <3>1 DEF Separate
  <2>3. QED
    BY <1>1, <2>1, <2>2 DEF Separate
<1>10. Claiming'
  BY <1>1 DEF Claiming
<1>11. RosterSound'
  <2>1. RowsAt({"member"}) \subseteq RowsAt({"member"})' /\ RowsAt(Inviting) \subseteq RowsAt(Inviting)'
    BY <1>1, <1>2, <1>3, RowsMove DEF Inviting
  <2>2. RowsSound(roster, member, Registered, RowsAt({"member"})', RowsAt(Inviting)')
    BY <2>1, SoundWithMore DEF RosterSound
  <2>3. QED
    BY <1>1, <2>2 DEF RosterSound, Registered
<1>12. QED
  BY <1>8, <1>9, <1>10, <1>11 DEF Same

LEMMA ArrivalIsCalm ==
  ASSUME Shape, RosterShape, RosterShape', InUse, RosterSound, Separate, Informed, Claiming,
         NEW t \in Task, TaskArrival(t), Undisturbed'
  PROVE  Same
<1>0. ASSUME NEW x \in TaskType, NEW causes, TaskBegin(t, x, causes)
      PROVE  /\ task'[t] = x /\ UNCHANGED <<roster, member, role>>
             /\ causes \subseteq {"profiles"}
  BY <1>0 DEF TaskBegin, tables, accountVars, rows, Disturb, Undisturbed, RosterShape
<1>1. Active = Alive(roster)
  BY DEF Active, Alive
<1>2. ASSUME NEW e \in CamperName
      PROVE  /\ Strains(e) \subseteq {"profiles", "reassignment"} => e.name.exact
             /\ Strains(e) \subseteq {"profiles"} => \A n \in Alive(roster) :
                  roster[n].camper = e.camper <=> roster[n].name = e.name
  <2>1. e # NoEntry
    BY ListingIs, NullsAre
  <2>2. e.name.exact \/ "spelling" \in Strains(e)
    BY <2>1 DEF Strains
  <2>3. \/ \A n \in Alive(roster) : (roster[n].camper = e.camper) = (roster[n].name = e.name)
        \/ "reassignment" \in Strains(e)
    BY <1>1 DEF Strains
  <2>4. QED
    BY <2>2, <2>3
<1>3. ASSUME NEW e \in Entry, CreateBegin(t, e) PROVE Same
  <2> DEFINE x == [Rest EXCEPT !.at = "check", !.entry = e]
             causes == Strains(e) \ {"reassignment"}
  <2>1. x \in TaskType /\ x.at = "check" /\ x.entry = e
    BY ArrivalsFit DEF Rest
  <2>2. TaskBegin(t, x, causes)
    BY <1>3 DEF CreateBegin
  <2>3. e.name.exact
    BY <1>0, <1>2, <2>1, <2>2, ListingIs
  <2> HIDE DEF x, causes
  <2>4. InformedOf(t)'
    BY <1>0, <2>1, <2>2, <2>3 DEF InformedOf, WithEntry, Inviting
  <2>5. QED
    BY <2>1, <2>2, <2>4, BeginIsCalm
<1>4. ASSUME NEW n \in RosterRow, NEW e \in Entry, UpdateBegin(t, n, e) PROVE Same
  <2> DEFINE x == [Rest EXCEPT !.at = "conflict", !.row = n, !.entry = e]
             causes == (Strains(e) \ {"reassignment"})
                       \cup (IF e.name = roster[n].name THEN {} ELSE {"rename"})
  <2>1. x \in TaskType /\ x.at = "conflict" /\ x.entry = e /\ x.row = n
    BY ArrivalsFit DEF Rest
  <2>2. TaskBegin(t, x, causes)
    BY <1>4 DEF UpdateBegin
  <2>3. e.name.exact /\ e.name = roster[n].name
    <3>1. causes \subseteq {"profiles"}
      BY <1>0, <2>1, <2>2
    <3>2. e.name.exact
      BY <1>2, <3>1, ListingIs
    <3>3. QED
      BY <3>1, <3>2
  <2> HIDE DEF x, causes
  <2>4. InformedOf(t)'
    BY <1>0, <2>1, <2>2, <2>3 DEF InformedOf, WithEntry, Inviting
  <2>5. QED
    BY <2>1, <2>2, <2>4, BeginIsCalm
<1>5. ASSUME NEW n \in RosterRow, RemoveCamperBegin(t, n) PROVE Same
  <2> DEFINE x == [Rest EXCEPT !.at = "remove", !.row = n]
  <2>1. x \in TaskType /\ x.at = "remove"
    BY ArrivalsFit DEF Rest
  <2>2. TaskBegin(t, x, {})
    BY <1>5 DEF RemoveCamperBegin
  <2> HIDE DEF x
  <2>3. InformedOf(t)'
    BY <1>0, <2>1, <2>2 DEF InformedOf, WithEntry, Inviting
  <2>4. QED
    BY <2>1, <2>2, <2>3, BeginIsCalm
<1>6. ASSUME NEW s \in Sheet, UploadBegin(t, s) PROVE Same
  <2> DEFINE x == [Rest EXCEPT !.at = "sheet", !.sheet = s]
             strains == UNION {Strains(e) : e \in ToSet(s)}
             causes == strains
               \cup (IF \E j, k \in DOMAIN s : (s[j].camper = s[k].camper) # (s[j].name = s[k].name)
                     THEN {"reassignment"} ELSE {})
  <2>1. x \in TaskType /\ x.at = "sheet" /\ x.sheet = s
    BY ArrivalsFit DEF Rest
  <2>2. TaskBegin(t, x, causes)
    BY <1>6, Zenon DEF UploadBegin
  <2>3. causes \subseteq {"profiles"}
    BY <1>0, <2>1, <2>2
  <2>4. \A e \in ToSet(s) : Strains(e) \subseteq {"profiles"}
    <3>1. strains \subseteq {"profiles"}
      BY <2>3
    <3>2. QED
      BY <3>1
  <2>5. \A j, k \in DOMAIN s : s[j].camper = s[k].camper <=> s[j].name = s[k].name
    BY <2>3
  <2>6. Agrees(roster, s)
    <3>1. ToSet(s) \subseteq CamperName
      BY ListingIs DEF ToSet
    <3>2. \A e, f \in ToSet(s) : e.camper = f.camper <=> e.name = f.name
      BY <2>5 DEF ToSet
    <3>3. QED
      BY <1>2, <2>4, <3>1, <3>2 DEF Agrees
  <2> HIDE DEF x, causes
  <2>7. InformedOf(t)'
    BY <1>0, <2>1, <2>2, <2>6 DEF InformedOf, WithEntry, Inviting
  <2>8. QED
    BY <2>1, <2>2, <2>7, BeginIsCalm
<1>7. ASSUME NEW p \in Person, NEW a \in SlackAccount, ProfileBegin(t, p, a) PROVE Same
  <2> DEFINE x == [Rest EXCEPT !.at = "profile", !.who = p, !.account = a]
  <2>1. x \in TaskType /\ x.at = "profile"
    BY ArrivalsFit DEF Rest
  <2>2. PICK causes \in SUBSET {"profiles"} : TaskBegin(t, x, causes)
    BY <1>7 DEF ProfileBegin
  <2> HIDE DEF x
  <2>3. InformedOf(t)'
    BY <1>0, <2>1, <2>2 DEF InformedOf, WithEntry, Inviting
  <2>4. QED
    BY <2>1, <2>2, <2>3, BeginIsCalm
<1>8. QED
  BY <1>3, <1>4, <1>5, <1>6, <1>7 DEF TaskArrival
-----------------------------------------------------------------------------
(* The accounts. *)

\* A first login that knows its rows is not refused.
LEMMA NobodyIsRefused ==
  ASSUME Shape, RosterShape, RosterSound, Claiming, NEW r \in Request, req[r].at = "commit"
  PROVE  ClaimPossible(found[r])
<1>1. found[r] = OwnRows(roster, req[r].who)
  BY DEF Claiming
<1>2. ASSUME NEW x \in found[r]
      PROVE  /\ x = [row |-> x.row, camper |-> roster[x.row].camper] /\ x.row \in RosterRow
             /\ roster[x.row].status = "INVITED" /\ roster[x.row].name.of = req[r].who
  BY <1>1, <1>2, OwnRowsAre DEF RosterShape
<1>3. ASSUME NEW x \in found[r], NEW y \in found[r] PROVE x = y
  <2>1. x.row = y.row
    BY <1>2 DEF RosterSound, RowsSound, Alive
  <2>2. QED
    BY <1>2, <2>1
<1>4. ASSUME NEW x \in found[r], NEW p \in Person, member[p] = x.camper
      PROVE  FALSE
  <2> DEFINE n == x.row
  <2>1. n \in RosterRow /\ n \in Standing(roster) /\ roster[n].status = "INVITED"
        /\ x.camper = roster[n].camper
    BY <1>2 DEF Standing
  <2> HIDE DEF n
  <2>2. roster[n].camper \in Camper
    BY <2>1, RowSets DEF RosterShape
  <2>3. PICK m \in Claimed(roster) : roster[m].claimedBy = p
    BY <1>4, <2>1, <2>2, NullsAre DEF RosterSound, RowsSound
  <2>4. n = m
    BY <1>4, <2>1, <2>3 DEF RosterSound, RowsSound
  <2>5. QED
    BY <2>1, <2>3, <2>4 DEF Claimed
<1>5. QED
  BY <1>3, <1>4 DEF ClaimPossible, Holders

\* A first login registers the person, whose row is claimed.
LEMMA ClaimIsCalm ==
  ASSUME Sound, Enrolled, RosterShape, RosterShape', InUse, RosterSound, Separate, Informed,
         Claiming, NEW r \in Request, ClaimAtLogin(r)
  PROVE  Same
<1> DEFINE p == req[r].who
           S == {p}
<1>0. Shape
  BY DEF Sound
<1>1. /\ p \in Person
      /\ \A n \in RosterRow :
           IF n \in RowsIn(found[r])
           THEN /\ roster'[n] \in EntryRow
                /\ roster'[n].camper = roster[n].camper /\ roster'[n].name = roster[n].name
                /\ roster'[n].status = "CLAIMED" /\ roster'[n].claimedBy = p
           ELSE roster'[n] = roster[n]
      /\ found' = [found EXCEPT ![r] = {}]
      /\ \A q \in Person : q # p => member'[q] = member[q]
      /\ found[r] = {} => member' = member
      /\ \A x \in found[r] : member'[p] = x.camper
      /\ \A x, y \in found[r] : x = y
      /\ \A x \in found[r] : Holders(x.camper) = {}
      /\ task' = task
  BY <1>0, LoginClaims
<1>2. found[r] = OwnRows(roster, p)
  BY DEF ClaimAtLogin, LoginCommit, Claiming
<1>14. /\ \A x \in found[r] : x.camper = roster[x.row].camper
       /\ \A n \in RosterRow : n \in RowsIn(found[r])
                              <=> roster[n].status = "INVITED" /\ roster[n].name.of = p
       /\ RowsIn(found[r]) \subseteq RosterRow
  <2>1. \A x \in OwnRows(roster, p) : x = [row |-> x.row, camper |-> roster[x.row].camper]
    BY OwnRowsAre DEF RosterShape
  <2>2. \A x \in OwnRows(roster, p) : x.camper = roster[x.row].camper
    BY <2>1
  <2>3. \A n : n \in RowsIn(OwnRows(roster, p))
              <=> n \in RosterRow /\ roster[n].status = "INVITED" /\ roster[n].name.of = p
    BY OwnRowsAre DEF RosterShape
  <2>4. QED
    BY <1>2, <2>2, <2>3
<1>3. Registered' = Registered \cup {p}
  <2>1. p \in Person /\ (Promote(p) \/ role' = [role EXCEPT ![p] = "USER"])
    BY <1>1 DEF ClaimAtLogin, LoginCommit
  <2>2. QED
    BY <1>0, <2>1 DEF Promote, Registered, Shape
<1>4. req'[r] = Idle /\ \A q \in Request : q # r => req'[q] = req[q]
  BY <1>0, Ended DEF ClaimAtLogin, LoginCommit
<1>5. req[r].op = "login"
  BY <1>0, OpAt DEF ClaimAtLogin, LoginCommit
<1> HIDE DEF p
<1>6. TouchesOnly(S)
  <2>1. ASSUME NEW n \in RowsIn(found[r])
        PROVE  n \in Alive(roster) /\ n \in Alive(roster') /\ roster[n].name.of \in S
               /\ roster'[n].camper = roster[n].camper /\ roster'[n].name = roster[n].name
    BY <1>1, <1>14 DEF Alive
  <2>2. QED
    BY <1>1, <1>3, <2>1 DEF TouchesOnly, Touched
<1>7. RowsSound(roster', member', Registered \cup {p}, RowsAt({"member"}), RowsAt(Inviting))
  <2>0. RowsSound(roster, member, Registered, RowsAt({"member"}), RowsAt(Inviting))
        /\ roster \in [RosterRow -> AnyRow] /\ roster' \in [RosterRow -> AnyRow]
        /\ member \in MemberType /\ member' \in MemberType
    BY DEF RosterSound, RosterShape
  <2>1. CASE found[r] = {}
    <3>0. RowsIn(found[r]) = {}
      BY <2>1 DEF RowsIn
    <3>1. roster' = roster /\ member' = member
      BY <1>1, <2>0, <2>1, <3>0
    <3>2. \A n \in RosterRow : roster[n].status = "INVITED" => roster[n].name.of # p
      BY <1>14, <3>0
    <3>3. QED
      BY <2>0, <3>1, <3>2, RegisteringIsSound
  <2>2. ASSUME NEW x \in found[r]
        PROVE  RowsSound(roster', member', Registered \cup {p}, RowsAt({"member"}), RowsAt(Inviting))
    <3> DEFINE n == x.row
    <3>0. n \in RowsIn(found[r]) /\ x.camper = roster[n].camper /\ RowsIn(found[r]) = {n}
      BY <1>1, <1>14, <2>2 DEF RowsIn
    <3>5. member'[p] = x.camper /\ Holders(x.camper) = {}
      BY <1>1, <2>2
    <3> HIDE DEF n
    <3>1. n \in RosterRow /\ roster[n].status = "INVITED" /\ roster[n].name.of = p
      BY <1>14, <3>0
    <3>2. \A q \in Person : member[q] # roster[n].camper
      BY <3>0, <3>5 DEF Holders
    <3>3. /\ \A m \in RosterRow : m # n => roster'[m] = roster[m]
          /\ roster'[n].camper = roster[n].camper /\ roster'[n].name = roster[n].name
          /\ roster'[n].status = "CLAIMED" /\ roster'[n].claimedBy = p
          /\ member'[p] = roster[n].camper
      BY <1>1, <3>0, <3>1, <3>5
    <3>4. RowsSound(roster', member', Registered \cup {p}, RowsAt({"member"}), RowsAt(Inviting) \ {n})
      BY <1>1, <2>0, <3>1, <3>2, <3>3, ClaimingIsSound
    <3>6. QED
      BY <3>4, SoundWithMore
  <2>3. QED
    BY <2>1, <2>2
<1>8. RosterSound'
  <2>1. RowsAt({"member"})' = RowsAt({"member"}) /\ RowsAt(Inviting)' = RowsAt(Inviting)
    BY <1>1 DEF RowsAt
  <2>2. QED
    BY <1>3, <1>7, <2>1 DEF RosterSound
<1>9. ASSUME NEW u \in Task PROVE Subject(u)' = Subject(u) /\ InformedOf(u)'
  <2>1. S \cap Subject(u) = {}
    BY <1>5 DEF Separate, p
  <2>2. QED
    BY <1>1, <1>6, <2>1, OthersStand DEF Informed
<1>10. Informed'
  BY <1>9 DEF Informed
<1>11. Separate'
  BY <1>4, <1>9, IdleIs DEF Separate
<1>12. Claiming'
  <2>1. ASSUME NEW q \in Request, req'[q].at \in {"register", "commit"}
        PROVE  found'[q] = OwnRows(roster', req'[q].who)
    <3>1. q # r /\ req'[q] = req[q] /\ found'[q] = found[q]
      BY <1>1, <1>4, <2>1, IdleIs DEF RosterShape
    <3>2. req[q].op = "login"
      BY <1>0, <2>1, <3>1, OpAt
    <3>3. req[q].who # p
      BY <1>5, <3>1, <3>2 DEF Separate, p
    <3>4. found[q] = OwnRows(roster, req[q].who)
      BY <2>1, <3>1 DEF Claiming
    <3>5. req[q].who \notin S
      BY <3>3
    <3> HIDE DEF S
    <3>6. QED
      BY <1>6, <3>1, <3>4, <3>5, LoginsStand
  <2>2. QED
    BY <2>1 DEF Claiming
<1>13. QED
  BY <1>8, <1>10, <1>11, <1>12 DEF Same

\* What login q knows when it is about to commit, and still knows after the step.
Knows(q) == req'[q].at \in {"register", "commit"} =>
  found'[q] = OwnRows(roster, req'[q].who)
KnowsStill(q) == req'[q].at \in {"register", "commit"} =>
  req[q].at \in {"register", "commit"} /\ req'[q].who = req[q].who /\ found'[q] = found[q]

\* Nothing but the requests about the accounts changes.
LEMMA UntouchedIsCalm ==
  ASSUME RosterSound, Informed, Claiming, UNCHANGED <<roster, member, task, Registered>>,
         Separate', \A q \in Request : Knows(q) \/ KnowsStill(q)
  PROVE  Same
<1>1. RosterSound'
  <2>1. RowsAt({"member"})' = RowsAt({"member"}) /\ RowsAt(Inviting)' = RowsAt(Inviting)
    BY DEF RowsAt
  <2>2. QED
    BY <2>1 DEF RosterSound
<1>2. ASSUME NEW u \in Task PROVE InformedOf(u)'
  BY DEF Informed, InformedOf
<1>3. ASSUME NEW q \in Request, req'[q].at \in {"register", "commit"}
      PROVE  found'[q] = OwnRows(roster, req'[q].who)
  <2>1. CASE KnowsStill(q)
    BY <1>3, <2>1 DEF KnowsStill, Claiming
  <2>2. QED
    BY <1>3, <2>1 DEF Knows
<1>4. Claiming'
  BY <1>3 DEF Claiming
<1>5. QED
  BY <1>1, <1>2, <1>4 DEF Same, Informed

\* Who logs in stays who it was.
LEMMA StillSeparate ==
  ASSUME Separate, UNCHANGED <<roster, member, task>>,
         \A q \in Request : req'[q].op = "login" => req[q].op = "login" /\ req'[q].who = req[q].who
  PROVE  Separate'
<1>1. ASSUME NEW u \in Task PROVE Subject(u)' = Subject(u)
  BY DEF Subject, OfRow
<1>2. QED
  BY <1>1 DEF Separate

LEMMA AloneIsCalm ==
  ASSUME Sound, Enrolled, RosterSound, Separate, Informed, Claiming,
         AccountsAlone, UNCHANGED rosterVars
  PROVE  Same
<1> USE DEF rows, history, rosterVars, tables
<1>0. Shape /\ Shape'
  <2>1. AccountsNext
    BY DEF AccountsAlone, AccountsNext, Arrival, LoginStep
  <2>2. QED
    BY <2>1, SoundStep DEF Sound
<1>1. UNCHANGED Registered
  <2>1. UNCHANGED role \/ \E r \in Request : LoginAccept(r) \/ RemoveWrite(r)
    BY DEF AccountsAlone, InviteBegin, RemoveBegin, RevokeBegin, Begin, AdminStep,
       InviteCheckAdmin, InviteCheckPending, InviteCreate, RevokeRead, RevokeWrite, RemoveRead,
       RemoveCount, LoginFindAccount, LoginFindUser, LoginLink, LoginFindInvitation,
       LoginAcceptRefused, LoginIssue, LoginRegister, LoginInternal, Logout
  <2>2. ASSUME NEW r \in Request, LoginAccept(r) PROVE UNCHANGED Registered
    BY <1>0, <2>2 DEF LoginAccept, Promote, Enrolled, Registered, Shape
  <2>3. ASSUME NEW r \in Request, RemoveWrite(r) PROVE UNCHANGED Registered
    BY <1>0, <2>3 DEF RemoveWrite, Enrolled, Registered, Shape
  <2>4. QED
    BY <2>1, <2>2, <2>3 DEF Registered
<1>2. ASSUME NEW q \in Request, UNCHANGED req
      PROVE  KnowsStill(q) /\ (req'[q].op = "login" => req[q].op = "login" /\ req'[q].who = req[q].who)
  BY <1>2 DEF KnowsStill
<1>3. ASSUME NEW r \in Request, NEW q \in Request, Arrived(r), req'[r].op # "login"
      PROVE  KnowsStill(q) /\ (req'[q].op = "login" => req[q].op = "login" /\ req'[q].who = req[q].who)
  BY <1>0, <1>3 DEF Arrived, KnowsStill
<1>4. ASSUME NEW r \in Request, NEW q \in Request, Goes(r),
             req'[r].at \in {"register", "commit"} => req[r].at \in {"register", "commit"}
      PROVE  KnowsStill(q) /\ (req'[q].op = "login" => req[q].op = "login" /\ req'[q].who = req[q].who)
  BY <1>4, IdleIs DEF Goes, KnowsStill
<1>5. ASSUME NEW r \in Request,
             \E by, who \in Person : InviteBegin(r, by, who) \/ RemoveBegin(r, by, who)
      PROVE  Arrived(r) /\ req'[r].op # "login"
  <2>1. Arrived(r)
    BY <1>0, <1>5, ArrivalIs DEF Arrival
  <2>2. req'[r].op \in {"invite", "remove"}
    <3>1. PICK by \in Person, who \in Person : InviteBegin(r, by, who) \/ RemoveBegin(r, by, who)
      BY <1>5
    <3>2. CASE InviteBegin(r, by, who)
      BY <1>0, <3>2 DEF InviteBegin, Begin, Idle, Shape
    <3>3. CASE RemoveBegin(r, by, who)
      BY <1>0, <3>3 DEF RemoveBegin, Begin, Idle, Shape
    <3>4. QED
      BY <3>1, <3>2, <3>3
  <2>3. QED
    BY <2>1, <2>2
<1>6. ASSUME NEW r \in Request, \E by \in Person, i \in Invitation : RevokeBegin(r, by, i)
      PROVE  Arrived(r) /\ req'[r].op # "login"
  <2>1. Arrived(r)
    BY <1>0, <1>6, ArrivalIs DEF Arrival
  <2>2. req'[r].op = "revoke"
    BY <1>0, <1>6, IdleIs DEF RevokeBegin, Begin, Idle, Shape
  <2>3. QED
    BY <2>1, <2>2
<1>7. ASSUME NEW r \in Request, AdminStep(r)
      PROVE  /\ Goes(r)
             /\ req'[r].at \in {"register", "commit"} => req[r].at \in {"register", "commit"}
  <2>1. Goes(r) /\ req[r].op # "login"
    BY <1>0, <1>7, StepGoes, OpAt DEF AdminStep, InviteCheckAdmin, InviteCheckPending, InviteCreate,
       RevokeRead, RevokeWrite, RemoveRead, RemoveCount, RemoveWrite
  <2>2. req'[r].at \in {"register", "commit"} => req'[r].op = "login"
    BY <1>0 DEF Shape, AnyReq, Idle, InviteReq, RevokeReq, RemoveReq, LoginReq, AcceptReq, LateReq
  <2>3. QED
    BY <2>1, <2>2, IdleIs DEF Goes
<1>8. ASSUME NEW r \in Request,
             \/ LoginFindAccount(r) \/ LoginFindUser(r) \/ LoginLink(r) \/ LoginFindInvitation(r)
             \/ LoginAccept(r) \/ LoginAcceptRefused(r) \/ LoginIssue(r) \/ LoginRegister(r)
      PROVE  /\ Goes(r)
             /\ req'[r].at \in {"register", "commit"} => req[r].at \in {"register", "commit"}
  <2>1. Goes(r)
    BY <1>0, <1>8, StepGoes DEF LoginStep
  <2>2. \A s : MoveTo(r, s) => req'[r].at = s
    BY <1>0, Moved
  <2>3. \A s, i : MoveWith(r, s, i) => req'[r].at = s
    BY <1>0, MovedWith
  <2>4. End(r) => req'[r].at = "idle"
    BY <1>0, Ended, IdleIs
  <2>5. CASE LoginFindAccount(r) \/ LoginFindUser(r) \/ LoginLink(r) \/ LoginAccept(r)
             \/ LoginAcceptRefused(r) \/ LoginIssue(r) \/ LoginRegister(r)
    BY <2>1, <2>2, <2>4, <2>5 DEF LoginFindAccount, LoginFindUser, LoginLink, LoginAccept,
       LoginAcceptRefused, LoginIssue, LoginRegister
  <2>6. CASE LoginFindInvitation(r)
    BY <2>1, <2>2, <2>3, <2>6 DEF LoginFindInvitation
  <2>7. QED
    BY <1>8, <2>5, <2>6
<1>9. ASSUME NEW p \in Person, LoginInternal(p) \/ Logout(p) PROVE UNCHANGED req
  BY <1>9 DEF LoginInternal, Logout
<1>10. ASSUME NEW q \in Request
       PROVE  KnowsStill(q) /\ (req'[q].op = "login" => req[q].op = "login" /\ req'[q].who = req[q].who)
  BY <1>2, <1>3, <1>4, <1>5, <1>6, <1>7, <1>8, <1>9 DEF AccountsAlone
<1>11. QED
  BY <1>1, <1>10, StillSeparate, UntouchedIsCalm

\* A login arrives, which has nothing to do with the requests under way.
LEMMA LoginArrivesCalm ==
  ASSUME Shape, RosterShape, RosterSound, Separate, Informed, Claiming,
         NEW r \in Request, NEW p \in Person, RosterAtLogin(r, p), Undisturbed'
  PROVE  Same
<1> USE DEF rows
<1>1. UNCHANGED <<roster, member, task, Registered>>
  BY DEF RosterAtLogin, tables, LoginBegin, Begin, Registered
<1>2. /\ req'[r].op = "login" /\ req'[r].who = p /\ req'[r].at = "account"
      /\ \A q \in Request : q # r => req'[q] = req[q]
      /\ \A q \in Request : found'[q] = found[q]
  BY DEF RosterAtLogin, LoginBegin, Begin, Shape, Idle
<1>3. "overlap" \notin Clashes({p})
  BY DEF RosterAtLogin, Disturb, Undisturbed
<1>4. /\ \A u \in Task : p \notin Subject(u)
      /\ \A q \in Request : req[q].op = "login" => req[q].who # p
  <2>1. \A u \in Task : ({p} \cap About(task[u])) \ {NoCamper, Nobody} = {}
    BY <1>3 DEF Clashes
  <2>2. \A u \in Task : p \notin About(task[u])
    BY <2>1, NullsAre
  <2>3. \A q \in Request : ~(req[q].op = "login" /\ req[q].who \in {p})
    BY <1>3 DEF Clashes
  <2>4. QED
    BY <2>2, <2>3, SubjectIsAbout
<1>5. \A u \in Task : Subject(u)' = Subject(u)
  BY <1>1 DEF Subject, OfRow
<1>6. Separate'
  BY <1>2, <1>4, <1>5 DEF Separate
<1>7. \A q \in Request : KnowsStill(q)
  BY <1>2 DEF KnowsStill
<1>8. QED
  BY <1>1, <1>6, <1>7, UntouchedIsCalm

\* It reads the rows that invite its person, or ends.
LEMMA LoginReadsCalm ==
  ASSUME Shape, RosterShape, RosterSound, Separate, Informed, Claiming,
         NEW r \in Request, ReadInvited(r) \/ LoginCutShort(r)
  PROVE  Same
<1> USE DEF rows
<1>1. UNCHANGED <<roster, member, task, Registered>>
  BY DEF ReadInvited, LoginReadRoster, LoginCutShort, CutShort, tables, Registered
<1>2. /\ \A q \in Request : q # r => req'[q] = req[q] /\ found'[q] = found[q]
      /\ req'[r].op = "login" => req[r].op = "login" /\ req'[r].who = req[r].who
      /\ Knows(r)
  <2>1. CASE ReadInvited(r)
    <3>1. MoveTo(r, "register")
      BY <2>1 DEF ReadInvited, LoginReadRoster
    <3>2. req'[r].who = req[r].who /\ req'[r].op = req[r].op
          /\ \A q \in Request : q # r => req'[q] = req[q]
      BY <3>1, Moved
    <3>3. QED
      BY <2>1, <3>2 DEF ReadInvited, RosterShape, Knows
  <2>2. CASE LoginCutShort(r)
    <3>1. req'[r] = Idle /\ \A q \in Request : q # r => req'[q] = req[q]
      BY <2>2, Ended DEF LoginCutShort, CutShort
    <3>2. QED
      BY <2>2, <3>1, IdleIs DEF LoginCutShort, RosterShape, Knows
  <2>3. QED
    BY <2>1, <2>2
<1>3. \A q \in Request : Knows(q) \/ KnowsStill(q)
  BY <1>2 DEF KnowsStill
<1>4. Separate'
  BY <1>1, <1>2, StillSeparate
<1>5. QED
  BY <1>1, <1>3, <1>4, UntouchedIsCalm

\* What disturbed the tables is never forgotten.
LEMMA DisturbedGrows == [Next]_vars => disturbed \subseteq disturbed'
<1> USE DEF rosterHistory, rosterVars
<1> SUFFICES ASSUME [Next]_vars PROVE disturbed \subseteq disturbed'
  OBVIOUS
<1>1. ASSUME NEW t \in Task, TaskArrival(t) PROVE disturbed \subseteq disturbed'
  BY <1>1 DEF TaskArrival, CreateBegin, UpdateBegin, RemoveCamperBegin, UploadBegin, ProfileBegin,
     TaskBegin, Disturb
<1>2. ASSUME NEW t \in Task, TaskStep(t) PROVE UNCHANGED disturbed
  BY <1>2 DEF TaskStep, CreateCheck, CreateUpsert, CreateFindUser, CreateClaim,
     UpdateCheck, UpdateWrite, UpdateMember, RemoveCamperRead, RemoveCamperWrite, UploadReadUsers,
     UploadCommit, ProfileRead, ProfileWrite
<1>3. ASSUME NEW r \in Request, NEW p \in Person, RosterAtLogin(r, p)
      PROVE  disturbed \subseteq disturbed'
  BY <1>3 DEF RosterAtLogin, Disturb
<1>4. ASSUME NEW r \in Request,
             ReadInvited(r) \/ ClaimAtLogin(r) \/ ClaimRefused(r) \/ LoginCutShort(r)
      PROVE  UNCHANGED disturbed
  BY <1>4 DEF ReadInvited, ClaimAtLogin, ClaimRefused, LoginCutShort
<1>5. ASSUME NEW t \in Task, TaskDies(t) PROVE disturbed \subseteq disturbed'
  BY <1>5 DEF TaskDies
<1>6. QED
  BY <1>1, <1>2, <1>3, <1>4, <1>5 DEF Next, vars

LEMMA TaskStepIsCalm ==
  ASSUME Shape, RosterShape, RosterShape', InUse, RosterSound, Separate, Informed, Claiming,
         NEW t \in Task, TaskStep(t)
  PROVE  Same
<1>1. InformedOf(t)
  BY DEF Informed
<1>2. KeepsCalm(t) /\ RosterSound'
  BY <1>1, ReadingKeeps, UpsertKeeps, CreateClaimKeeps, UpdateKeeps, UpdateMemberKeeps,
     RemovalKeeps, UploadKeeps DEF TaskStep
<1>3. UNCHANGED <<req, found>>
  BY DEF TaskStep, CreateCheck, CreateUpsert, CreateFindUser, CreateClaim,
     UpdateCheck, UpdateWrite, UpdateMember, RemoveCamperRead, RemoveCamperWrite, UploadReadUsers,
     UploadCommit, ProfileRead, ProfileWrite, accountVars
<1>4. QED
  BY <1>2, <1>3, KeepingIsCalm DEF Same

\* The calm lasts until something disturbs it.
LEMMA CalmStep ==
  ASSUME Sound, Enrolled, RosterShape, InUse, Calm, [Next]_vars
  PROVE  Calm'
<1> USE DEF rosterHistory, rosterVars
<1>1. SUFFICES ASSUME Undisturbed' PROVE Same /\ refused' = {}
  BY DEF Calm, Same
<1>2. Undisturbed
  BY <1>1, DisturbedGrows DEF Undisturbed
<1>3. Shape /\ RosterSound /\ Separate /\ Informed /\ Claiming /\ refused = {}
  BY <1>2 DEF Calm, Sound
<1>4. RosterShape'
  BY <1>3, RosterShapeStep
<1>5. CASE AccountsAlone /\ UNCHANGED rosterVars
  BY <1>3, <1>5, AloneIsCalm
<1>6. ASSUME NEW t \in Task, TaskArrival(t) PROVE Same /\ refused' = {}
  BY <1>1, <1>3, <1>4, <1>6, ArrivalIsCalm, BeginIs
<1>7. ASSUME NEW t \in Task, TaskStep(t) PROVE Same /\ refused' = {}
  <2>1. UNCHANGED refused
    BY <1>7 DEF TaskStep, CreateCheck, CreateUpsert, CreateFindUser, CreateClaim,
       UpdateCheck, UpdateWrite, UpdateMember, RemoveCamperRead, RemoveCamperWrite, UploadReadUsers,
       UploadCommit, ProfileRead, ProfileWrite
  <2>2. QED
    BY <1>3, <1>4, <1>7, <2>1, TaskStepIsCalm
<1>8. ASSUME NEW t \in Task, TaskDies(t) PROVE FALSE
  BY <1>1, <1>8 DEF TaskDies, Undisturbed
<1>9. ASSUME NEW r \in Request, NEW p \in Person, RosterAtLogin(r, p) PROVE Same /\ refused' = {}
  <2>1. UNCHANGED refused
    BY <1>9 DEF RosterAtLogin
  <2>2. QED
    BY <1>1, <1>3, <1>9, <2>1, LoginArrivesCalm
<1>10. ASSUME NEW r \in Request, ReadInvited(r) \/ LoginCutShort(r) PROVE Same /\ refused' = {}
  <2>1. UNCHANGED refused
    BY <1>10 DEF ReadInvited, LoginCutShort
  <2>2. QED
    BY <1>3, <1>10, <2>1, LoginReadsCalm
<1>11. ASSUME NEW r \in Request, ClaimAtLogin(r) PROVE Same /\ refused' = {}
  <2>1. UNCHANGED refused
    BY <1>11 DEF ClaimAtLogin
  <2>2. QED
    BY <1>3, <1>4, <1>11, <2>1, ClaimIsCalm
<1>12. ASSUME NEW r \in Request, ClaimRefused(r) PROVE FALSE
  BY <1>3, <1>12, NobodyIsRefused DEF ClaimRefused
<1>13. CASE UNCHANGED vars
  <2>1. UNCHANGED <<roster, member, task, Registered, req, found, refused>>
    BY <1>13 DEF vars, accountVars, rows, tables, Registered
  <2>2. Separate'
    BY <1>3, <2>1, StillSeparate
  <2>3. \A q \in Request : KnowsStill(q)
    BY <2>1 DEF KnowsStill
  <2>4. QED
    BY <1>3, <2>1, <2>2, <2>3, UntouchedIsCalm
<1>14. QED
  BY <1>3, <1>5, <1>6, <1>7, <1>8, <1>9, <1>10, <1>11, <1>12, <1>13 DEF Next
-----------------------------------------------------------------------------
(* What holds always. *)

LEMMA CalmInit == Init => Enrolled /\ Calm
<1> SUFFICES ASSUME Init PROVE Enrolled /\ Calm
  OBVIOUS
<1>1. /\ roster = [n \in RosterRow |-> Unused] /\ member = [p \in Person |-> NoCamper]
      /\ task = [t \in Task |-> Rest] /\ refused = {}
      /\ req = [r \in Request |-> Idle] /\ linked = {}
  BY DEF Init, RosterInit, AccountsInit
<1>2. /\ Rest.at = "idle" /\ Rest.entry = NoEntry /\ Rest.sheet = <<>>
      /\ Rest.at \notin WithEntry \cup Inviting \cup ByRow
      /\ Rest.at \notin {"upsert", "claim", "conflict", "write", "member", "delete", "sheet", "commit"}
  BY DEF Rest, WithEntry, Inviting, ByRow
<1>3. Enrolled
  BY <1>1, IdleIs DEF Enrolled
<1>4. RosterSound
  <2>1. Standing(roster) = {} /\ Alive(roster) = {} /\ Claimed(roster) = {}
    BY <1>1, NullsAre DEF Standing, Alive, Claimed
  <2>2. \A n \in RosterRow : roster[n].status # "INVITED"
    BY <1>1, NullsAre
  <2>3. \A p \in Person : member[p] = NoCamper
    BY <1>1
  <2>4. QED
    BY <2>1, <2>2, <2>3 DEF RosterSound, RowsSound
<1>5. Separate
  <2>1. \A t \in Task : Subject(t) = {NoCamper, Nobody}
    <3>1. OfSheet(<<>>) = {}
      BY DEF OfSheet, ToSet
    <3>2. QED
      BY <1>1, <1>2, <3>1, NullsAre DEF Subject, OfEntry
  <2>2. QED
    BY <1>1, <2>1, IdleIs DEF Separate
<1>6. Informed
  BY <1>1, <1>2 DEF Informed, InformedOf
<1>7. Claiming
  BY <1>1, IdleIs DEF Claiming
<1>8. QED
  BY <1>1, <1>3, <1>4, <1>5, <1>6, <1>7 DEF Calm

LEMMA RosterAlways == Spec => []RosterInv
<1>1. Init => RosterInv
  BY SoundInit, ShapeStarts, CalmInit DEF Init, RosterInv
<1>2. RosterInv /\ [Next]_vars => RosterInv'
  <2> SUFFICES ASSUME RosterInv, [Next]_vars PROVE RosterInv'
    OBVIOUS
  <2>1. Sound' /\ Enrolled'
    BY SoundStep, EnrolledStep, RosterStepsAccounts DEF RosterInv
  <2>2. RosterShape' /\ InUse' /\ Calm'
    BY RosterShapeStep, InUseStep, CalmStep DEF RosterInv, Sound
  <2>3. QED
    BY <2>1, <2>2 DEF RosterInv
<1>3. QED
  BY <1>1, <1>2, PTL DEF Spec

LEMMA NobodyAtWork ==
  ASSUME Quiet
  PROVE  RowsAt({"member"}) = {} /\ RowsAt(Inviting) = {}
  BY DEF Quiet, RowsAt, Inviting

\* The members are those of the claimed rows, with their camper ids, whenever no
\* request is under way and nothing disturbed the two tables
\* (organizations.service.ts: the requests of the roster; auth.service.ts:116).
THEOREM RosterAndMembersAgree == Spec => []RosterConsistent
<1>1. RosterInv => RosterConsistent
  <2> SUFFICES ASSUME RosterInv, Undisturbed, Quiet, NEW p \in Person, NEW c \in Camper
               PROVE  member[p] = c <=> \E n \in RosterRow :
                        roster[n].status = "CLAIMED" /\ roster[n].claimedBy = p
                        /\ roster[n].camper = c
    BY DEF RosterConsistent
  <2>1. RowsSound(roster, member, Registered, {}, {})
    BY NobodyAtWork DEF RosterInv, Calm, RosterSound
  <2>2. \A n \in Claimed(roster) : member[roster[n].claimedBy] = roster[n].camper
    BY <2>1 DEF RowsSound
  <2>3. member[p] = c => \E n \in Claimed(roster) : roster[n].claimedBy = p
    BY <2>1, NullsAre DEF RowsSound
  <2>4. QED
    BY <2>2, <2>3 DEF Claimed
<1>2. QED
  BY <1>1, RosterAlways, PTL

\* The first login of whoever is invited goes through: at most one row is its
\* own, and nobody holds the camper id of that row (auth.service.ts:141).
THEOREM FirstLoginGoesThrough == Spec => []FirstLoginSucceeds
<1>1. RosterInv => FirstLoginSucceeds
  BY DEF RosterInv, Calm, FirstLoginSucceeds
<1>2. QED
  BY <1>1, RosterAlways, PTL

\* No row waits for somebody who has an account already (auth.service.ts:73, 116).
THEOREM NobodyIsKeptWaiting == Spec => []NobodyWaitsInVain
<1>1. RosterInv => NobodyWaitsInVain
  <2> SUFFICES ASSUME RosterInv, Undisturbed, Quiet PROVE NobodyWaitsInVain
    BY DEF NobodyWaitsInVain
  <2>1. RowsSound(roster, member, Registered, {}, {})
    BY NobodyAtWork DEF RosterInv, Calm, RosterSound
  <2>2. QED
    BY <2>1 DEF RowsSound, NobodyWaitsInVain
<1>2. QED
  BY <1>1, RosterAlways, PTL
-----------------------------------------------------------------------------
(* The Slack account of a member.                                          *)

\* The requests that name a Slack account.
Naming(x) == x.at \in {"profile", "slack"}

\* Unless two of them are of one member, the account of whoever is about to
\* write one is still free: nothing but such a request writes an account.
SlackFree ==
  "profiles" \notin disturbed =>
    /\ \A t \in Task : task[t].at = "slack" => slack[task[t].who] = NoAccount
    /\ \A t, u \in Task : t # u /\ Naming(task[t]) /\ Naming(task[u])
                            => task[t].who # task[u].who

\* What a step does that names no account: it writes none, and only takes some away.
NoneNamed ==
  /\ \A p \in Person : slack'[p] \in {slack[p], NoAccount}
  /\ \A t \in Task : Naming(task'[t]) => task'[t] = task[t]

LEMMA NoneNamedKeeps ==
  ASSUME RosterShape, SlackFree, NoneNamed, disturbed \subseteq disturbed'
  PROVE  SlackFree'
<1> SUFFICES ASSUME "profiles" \notin disturbed'
             PROVE  /\ \A t \in Task : task'[t].at = "slack" => slack'[task'[t].who] = NoAccount
                    /\ \A t, u \in Task : t # u /\ Naming(task'[t]) /\ Naming(task'[u])
                                            => task'[t].who # task'[u].who
  BY DEF SlackFree, Naming
<1>1. ASSUME NEW t \in Task, task'[t].at = "slack" PROVE slack'[task'[t].who] = NoAccount
  <2>1. task'[t] = task[t] /\ slack[task[t].who] = NoAccount
    BY <1>1 DEF NoneNamed, SlackFree, Naming
  <2>2. task[t].who \in Person
    BY <1>1, <2>1 DEF RosterShape, Fitting
  <2>3. QED
    BY <2>1, <2>2 DEF NoneNamed
<1>2. ASSUME NEW t \in Task, NEW u \in Task, t # u, Naming(task'[t]), Naming(task'[u])
      PROVE  task'[t].who # task'[u].who
  <2>1. task'[t] = task[t] /\ task'[u] = task[u]
    BY <1>2 DEF NoneNamed
  <2>2. QED
    BY <1>2, <2>1 DEF SlackFree
<1>3. QED
  BY <1>1, <1>2

\* A step that leaves the requests alone but one, which ends or goes on otherwise.
LEMMA OneMoves ==
  ASSUME RosterShape, NEW t \in Task, NEW x, ~Naming(x), task' = [task EXCEPT ![t] = x]
  PROVE  \A u \in Task : Naming(task'[u]) => task'[u] = task[u]
  BY DEF RosterShape

LEMMA SlackFreeStep == RosterShape /\ SlackFree /\ [Next]_vars => SlackFree'
<1> USE DEF tables, rosterHistory
<1> SUFFICES ASSUME RosterShape, SlackFree, [Next]_vars PROVE SlackFree'
  OBVIOUS
<1>0. /\ disturbed \subseteq disturbed' /\ task \in [Task -> TaskType]
      /\ \A p \in Person : slack[p] \in {slack[p], NoAccount}
  BY DisturbedGrows DEF RosterShape
<1>1. CASE UNCHANGED <<slack, task>>
  BY <1>0, <1>1, NoneNamedKeeps DEF NoneNamed
<1>2. ASSUME NEW t \in Task, TaskArrival(t) PROVE SlackFree'
  <2>1. UNCHANGED slack
    BY <1>2, BeginIs
  <2>2. CASE ~Naming(task'[t])
    <3>1. \A u \in Task : Naming(task'[u]) => task'[u] = task[u]
      BY <1>2, <2>2, BeginIs
    <3>2. QED
      BY <1>0, <2>1, <3>1, NoneNamedKeeps DEF NoneNamed
  <2>3. ASSUME NEW p \in Person, NEW account \in SlackAccount, ProfileBegin(t, p, account)
        PROVE  SlackFree'
    <3> SUFFICES ASSUME "profiles" \notin disturbed'
                 PROVE  /\ \A u \in Task : task'[u].at = "slack" => slack'[task'[u].who] = NoAccount
                        /\ \A v, u \in Task : v # u /\ Naming(task'[v]) /\ Naming(task'[u])
                                                => task'[v].who # task'[u].who
      BY DEF SlackFree, Naming
    <3>1. /\ task'[t].at = "profile" /\ task'[t].who = p
          /\ \A u \in Task : u # t => task'[u] = task[u]
      BY <1>0, <2>3 DEF ProfileBegin, TaskBegin, Rest
    <3>2. \A u \in Task : ~(Naming(task[u]) /\ task[u].who = p)
      BY <2>3 DEF ProfileBegin, TaskBegin, Disturb, Naming
    <3>3. "profiles" \notin disturbed
      BY <1>0
    <3>4. QED
      BY <2>1, <3>1, <3>2, <3>3 DEF SlackFree, Naming
  <2>4. \/ ~Naming(task'[t])
        \/ \E p \in Person, account \in SlackAccount : ProfileBegin(t, p, account)
    <3>1. ASSUME NEW e \in Entry, CreateBegin(t, e) PROVE ~Naming(task'[t])
      BY <1>0, <3>1 DEF CreateBegin, TaskBegin, Rest, Naming
    <3>2. ASSUME NEW n \in RosterRow, NEW e \in Entry, UpdateBegin(t, n, e)
          PROVE  ~Naming(task'[t])
      BY <1>0, <3>2 DEF UpdateBegin, TaskBegin, Rest, Naming
    <3>3. ASSUME NEW n \in RosterRow, RemoveCamperBegin(t, n) PROVE ~Naming(task'[t])
      BY <1>0, <3>3 DEF RemoveCamperBegin, TaskBegin, Rest, Naming
    <3>4. ASSUME NEW s \in Sheet, UploadBegin(t, s) PROVE ~Naming(task'[t])
      BY <1>0, <3>4 DEF UploadBegin, TaskBegin, Rest, Naming
    <3>5. QED
      BY <1>2, <3>1, <3>2, <3>3, <3>4 DEF TaskArrival
  <2>5. QED
    BY <2>2, <2>3, <2>4
<1>3. ASSUME NEW t \in Task, TaskDies(t) \/ TaskStep(t), ~ProfileRead(t), ~ProfileWrite(t)
      PROVE  SlackFree'
  <2>1. \A p \in Person : slack'[p] \in {slack[p], NoAccount}
    <3>1. CASE RemoveCamperWrite(t)
      BY <1>0, <3>1 DEF RemoveCamperWrite, RosterShape
    <3>2. CASE ~RemoveCamperWrite(t)
      BY <1>0, <1>3, <3>2 DEF TaskStep, CreateCheck, CreateUpsert, CreateFindUser, CreateClaim,
         UpdateCheck, UpdateWrite, UpdateMember, RemoveCamperRead, UploadReadUsers,
         UploadCommit, TaskDies
    <3>3. QED
      BY <3>1, <3>2
  <2>2. /\ ~Naming(task'[t])
        /\ \A u \in Task : u # t => task'[u] = task[u]
    <3>1. CASE TaskDies(t) \/ RemoveCamperWrite(t) \/ CreateClaim(t) \/ UpdateMember(t)
               \/ UploadCommit(t)
      BY <1>0, <3>1 DEF RemoveCamperWrite, CreateClaim, UpdateMember, UploadCommit, TaskDies,
         TaskEnd, Rest, Naming
    <3>2. CASE CreateCheck(t) \/ CreateFindUser(t) \/ UpdateCheck(t) \/ UpdateWrite(t)
      BY <1>0, <3>2 DEF CreateCheck, CreateFindUser, UpdateCheck, UpdateWrite, TaskEnd, TaskTo,
         Rest, Naming, TaskType
    <3>3. CASE CreateUpsert(t) \/ RemoveCamperRead(t) \/ UploadReadUsers(t)
      BY <1>0, <3>3 DEF CreateUpsert, RemoveCamperRead, UploadReadUsers, Naming, TaskType
    <3>4. QED
      BY <1>3, <3>1, <3>2, <3>3 DEF TaskStep
  <2>3. QED
    BY <1>0, <2>1, <2>2, NoneNamedKeeps DEF NoneNamed
<1>4. ASSUME NEW t \in Task, ProfileRead(t) PROVE SlackFree'
  <2>1. CASE TaskEnd(t)
    BY <1>0, <1>4, <2>1, NoneNamedKeeps DEF NoneNamed, ProfileRead, TaskEnd, Rest, Naming
  <2>2. CASE TaskTo(t, "slack") /\ slack[task[t].who] = NoAccount
    <3>1. /\ task'[t].at = "slack" /\ task'[t].who = task[t].who /\ task[t].at = "profile"
          /\ \A u \in Task : u # t => task'[u] = task[u]
          /\ UNCHANGED <<slack, disturbed>>
      BY <1>0, <1>4, <2>2 DEF ProfileRead, TaskTo, TaskType
    <3>2. QED
      BY <2>2, <3>1 DEF SlackFree, Naming
  <2>3. QED
    BY <1>4, <2>1, <2>2 DEF ProfileRead
<1>5. ASSUME NEW t \in Task, ProfileWrite(t) PROVE SlackFree'
  <2>1. /\ task'[t].at = "idle" /\ task[t].at = "slack" /\ UNCHANGED disturbed
        /\ \A u \in Task : u # t => task'[u] = task[u]
        /\ \A p \in Person : p # task[t].who => slack'[p] = slack[p]
    BY <1>0, <1>5 DEF ProfileWrite, TaskEnd, Rest, RosterShape
  <2>2. \A u \in Task : task[u].at = "slack" => task[u].who \in Person
    BY DEF RosterShape, Fitting
  <2>3. QED
    BY <2>1, <2>2 DEF SlackFree, Naming
<1>6. QED
  <2>1. ASSUME NEW r \in Request, ReadInvited(r) \/ ClaimAtLogin(r) \/ ClaimRefused(r)
                                  \/ LoginCutShort(r) \/ \E p \in Person : RosterAtLogin(r, p)
        PROVE  UNCHANGED <<slack, task>>
    BY <2>1 DEF ReadInvited, ClaimAtLogin, ClaimRefused, LoginCutShort, RosterAtLogin
  <2>2. QED
    BY <1>1, <1>2, <1>3, <1>4, <1>5, <2>1 DEF Next, rosterVars, vars

\* Whatever requests come, a Slack account that a member named stays as it is as
\* long as the member stays, unless two requests of that member overlap
\* (organizations.service.ts:722: the check and the write are not one).
THEOREM SlackAccountIsKept == Spec => SlackIdKept
<1>1. RosterShape /\ SlackFree /\ [Next]_vars =>
        \A p \in Person :
          slack[p] # NoAccount /\ slack'[p] # slack[p] /\ "profiles" \notin disturbed
            => slack'[p] = NoAccount /\ member'[p] = NoCamper
  <2> USE DEF tables, rosterHistory
  <2> SUFFICES ASSUME RosterShape, SlackFree, [Next]_vars, NEW p \in Person,
                      slack[p] # NoAccount, slack'[p] # slack[p], "profiles" \notin disturbed
               PROVE  slack'[p] = NoAccount /\ member'[p] = NoCamper
    OBVIOUS
  <2>1. PICK t \in Task : RemoveCamperWrite(t) \/ ProfileWrite(t)
    <3>1. ASSUME NEW r \in Request, ReadInvited(r) \/ ClaimAtLogin(r) \/ ClaimRefused(r)
                                    \/ LoginCutShort(r) \/ \E q \in Person : RosterAtLogin(r, q)
          PROVE  UNCHANGED slack
      BY <3>1 DEF ReadInvited, ClaimAtLogin, ClaimRefused, LoginCutShort, RosterAtLogin
    <3>2. ASSUME NEW t \in Task, TaskArrival(t) PROVE UNCHANGED slack
      BY <3>2, BeginIs
    <3>3. ASSUME NEW t \in Task, TaskDies(t) \/ TaskStep(t), ~RemoveCamperWrite(t),
                 ~ProfileWrite(t)
          PROVE  UNCHANGED slack
      BY <3>3 DEF TaskStep, CreateCheck, CreateUpsert, CreateFindUser, CreateClaim,
         UpdateCheck, UpdateWrite, UpdateMember, RemoveCamperRead, UploadReadUsers,
         UploadCommit, ProfileRead, TaskDies
    <3>4. QED
      BY <3>1, <3>2, <3>3 DEF Next, vars, rosterVars
  <2>2. CASE RemoveCamperWrite(t)
    BY <2>2 DEF RemoveCamperWrite, RosterShape, MemberType
  <2>3. CASE ProfileWrite(t)
    <3>1. task[t].at = "slack" /\ p = task[t].who
      BY <2>3 DEF ProfileWrite, RosterShape
    <3>2. QED
      BY <3>1 DEF SlackFree
  <2>4. QED
    BY <2>1, <2>2, <2>3
<1>2. Init => SlackFree
  BY DEF Init, RosterInit, Rest, SlackFree, Naming
<1>3. QED
  BY <1>1, <1>2, SlackFreeStep, ShapedAlways, PTL DEF Spec, SlackIdKept
=============================================================================
