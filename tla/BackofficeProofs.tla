-------------------------- MODULE BackofficeProofs --------------------------
(***************************************************************************)
(* The roster and the pages of the administrators leave the accounts as    *)
(* module Accounts says: every step of the back office is a step of the    *)
(* accounts or leaves them alone.  So what is proved of the accounts holds *)
(* in the back office, and the same goes for the roster.  Each page has an *)
(* invariant of its own: what it does not tell yet is what its calls have  *)
(* done and will answer.  The page of the administrators keeps sets, those *)
(* of the templates and of the campers sequences that their own calls      *)
(* shorten, extend or replace.                                             *)
(***************************************************************************)
EXTENDS Backoffice, RosterProofs, OrganizationsProofs

\* Each step of the back office is a step of the accounts or none.
LEMMA BackofficeStepsAccounts == [BackofficeNext]_allVars => [AccountsNext]_accountVars
<1>1. AdminPageCall => AccountsNext
  BY ClerkIsSomebody DEF AdminPageCall, HandleInvite, HandleRevoke, HandleRemove, AccountsNext,
     Arrival
<1>2. QED
  BY <1>1, RosterStepsAccounts DEF BackofficeNext, allVars, vars

\* The back office implements the accounts: neither the roster nor a page adds a
\* way to become, invite or remove an administrator, or takes one away.
THEOREM BackofficeImplementsAccounts == BackofficeSpec => AccountsSpec
<1>1. BackofficeInit => AccountsInit
  BY DEF BackofficeInit, Init
<1>2. QED
  BY <1>1, BackofficeStepsAccounts, PTL DEF BackofficeSpec, AccountsSpec

\* What is proved of the accounts, for the whole back office.
THEOREM BackofficeAccountsSafe ==
  BackofficeSpec => [](/\ AccountsTypeOK /\ LastAdminKept /\ OnePendingEach
                       /\ PromotedOncePerInvitation /\ OnlyDemotedAreShutOut
                       /\ RevokedGaveNothing /\ InvitersWereAdmins)
  BY BackofficeImplementsAccounts, AccountsTypeCorrect, AdministratorRemains, OnePending,
     PromotedOnce, ShutOutWereDemoted, RevokedIsVoid, InvitersLegitimate, PTL
-----------------------------------------------------------------------------
(* The roster, behind its page. *)

\* To the roster the calls of the page of the administrators are requests of the
\* accounts; the other pages leave its tables alone.
LEMMA BackofficeStepsRoster == [BackofficeNext]_allVars => [Next]_vars
<1>1. ASSUME AdminPageCall PROVE AccountsAlone
  <2>1. PICK r \in Request :
          \/ \E who \in Person : HandleInvite(r, who) \/ HandleRemove(r, who)
          \/ \E i \in Invitation : HandleRevoke(r, i)
    BY <1>1 DEF AdminPageCall
  <2>2. \/ \E who \in Person : InviteBegin(r, Clerk, who) \/ RemoveBegin(r, Clerk, who)
        \/ \E i \in Invitation : RevokeBegin(r, Clerk, i)
    BY <2>1 DEF HandleInvite, HandleRemove, HandleRevoke
  <2>3. QED
    BY <2>2, ClerkIsSomebody DEF AccountsAlone
<1>2. QED
  BY <1>1 DEF BackofficeNext, Next, allVars

\* The back office implements the roster.
THEOREM BackofficeImplementsRoster == BackofficeSpec => Spec
<1>1. BackofficeInit => Init
  BY DEF BackofficeInit
<1>2. QED
  BY <1>1, BackofficeStepsRoster, PTL DEF BackofficeSpec, Spec

\* What is proved of the roster, for the whole back office.
THEOREM BackofficeRosterSafe ==
  BackofficeSpec => [](RosterConsistent /\ FirstLoginSucceeds /\ NobodyWaitsInVain) /\ SlackIdKept
  BY BackofficeImplementsRoster, RosterAndMembersAgree, FirstLoginGoesThrough, NobodyIsKeptWaiting,
     SlackAccountIsKept, PTL
-----------------------------------------------------------------------------
(* Parts of lists. *)

Listed(list) == {list[k] : k \in DOMAIN list}

\* The first k of a list that are in `kept'.
Upto(f, k, list, kept) ==
  f = [j \in 0..k |-> IF j = 0 THEN <<>>
                      ELSE IF list[j] \in kept THEN Append(f[j - 1], list[j]) ELSE f[j - 1]]

LEMMA UptoExists ==
  ASSUME NEW list, NEW kept, NEW k \in Nat
  PROVE  \E f : Upto(f, k, list, kept)
<1> DEFINE Bad == {j \in Nat : ~\E f : Upto(f, j, list, kept)}
<1>1. SUFFICES ASSUME Bad # {} PROVE FALSE
  OBVIOUS
<1>2. PICK j \in Bad : \A i \in Bad : j <= i
  BY <1>1, Least
<1>3. j \in Nat /\ ~\E f : Upto(f, j, list, kept)
  OBVIOUS
<1>4. CASE j = 0
  <2> DEFINE g == [i \in 0..0 |-> <<>>]
  <2>1. g = [i \in 0..0 |-> IF i = 0 THEN <<>>
                            ELSE IF list[i] \in kept THEN Append(g[i - 1], list[i]) ELSE g[i - 1]]
    OBVIOUS
  <2>2. QED
    BY <1>3, <1>4, <2>1 DEF Upto
<1>5. CASE j # 0
  <2>1. j - 1 \in Nat /\ j - 1 \notin Bad
    BY <1>2, <1>3, <1>5
  <2>2. PICK f : Upto(f, j - 1, list, kept)
    BY <2>1
  <2> DEFINE last == IF list[j] \in kept THEN Append(f[j - 1], list[j]) ELSE f[j - 1]
  <2> DEFINE g == [i \in 0..j |-> IF i = j THEN last ELSE f[i]]
  <2>3. \A i \in 0..(j - 1) :
          f[i] = IF i = 0 THEN <<>>
                 ELSE IF list[i] \in kept THEN Append(f[i - 1], list[i]) ELSE f[i - 1]
    BY <2>2 DEF Upto
  <2>4. ASSUME NEW i \in 0..j
        PROVE  g[i] = IF i = 0 THEN <<>>
                      ELSE IF list[i] \in kept THEN Append(g[i - 1], list[i]) ELSE g[i - 1]
    <3> HIDE DEF last
    <3>1. CASE i = j
      <4>1. i # 0 /\ i - 1 \in 0..j /\ i - 1 # j
        BY <1>3, <1>5, <3>1
      <4>2. g[i - 1] = f[j - 1] /\ g[i] = last
        BY <3>1, <4>1
      <4>3. QED
        BY <3>1, <4>1, <4>2 DEF last
    <3>2. CASE i # j /\ i # 0
      <4>1. i \in 0..(j - 1) /\ i - 1 \in 0..j /\ i - 1 # j
        BY <1>3, <3>2
      <4>2. g[i - 1] = f[i - 1] /\ g[i] = f[i]
        BY <3>2, <4>1
      <4>3. QED
        BY <2>3, <3>2, <4>1, <4>2
    <3>3. CASE i = 0
      BY <1>3, <1>5, <2>3, <3>3
    <3>4. QED
      BY <3>1, <3>2, <3>3
  <2>5. Upto(g, j, list, kept)
    <3> HIDE DEF last
    <3>1. g = [i \in 0..j |-> g[i]]
      OBVIOUS
    <3> HIDE DEF g
    <3>2. QED
      BY <2>4, <3>1, Zenon DEF Upto
  <2>6. QED
    BY <1>3, <2>5
<1>6. QED
  BY <1>4, <1>5

LEMMA SublistIs ==
  ASSUME NEW list, NEW kept, Len(list) \in Nat
  PROVE  \E f : Upto(f, Len(list), list, kept) /\ Sublist(list, kept) = f[Len(list)]
<1> DEFINE k == Len(list)
           f == CHOOSE g : g = [j \in 0..k |-> IF j = 0 THEN <<>>
                  ELSE IF list[j] \in kept THEN Append(g[j - 1], list[j]) ELSE g[j - 1]]
<1>1. \E g : g = [j \in 0..k |-> IF j = 0 THEN <<>>
                  ELSE IF list[j] \in kept THEN Append(g[j - 1], list[j]) ELSE g[j - 1]]
  <2> HIDE DEF k
  <2>1. \E g : Upto(g, k, list, kept)
    BY UptoExists DEF k
  <2>2. QED
    BY <2>1, Zenon DEF Upto
<1>2. Upto(f, k, list, kept)
  <2> HIDE DEF k
  <2>1. QED
    BY <1>1, Zenon DEF Upto
<1>3. Sublist(list, kept) = f[k]
  BY Zenon DEF Sublist
<1>4. QED
  <2> HIDE DEF f
  <2>1. QED
    BY <1>2, <1>3

\* The list s has what is in `list' up to n, in its order.
InTurn(s, list, n) ==
  \A a, b \in DOMAIN s : a < b => \E x, y \in 1..n : x < y /\ s[a] = list[x] /\ s[b] = list[y]

\* The list s is what of the first j of `list' is in `kept'.
Picks(s, j, list, kept) ==
  /\ s \in Seq(kept)
  /\ \A i \in DOMAIN s : \E m \in 1..j : list[m] \in kept /\ s[i] = list[m]
  /\ \A m \in 1..j : list[m] \in kept => \E i \in DOMAIN s : s[i] = list[m]
  /\ InTurn(s, list, j)

LEMMA PickOne ==
  ASSUME NEW S, NEW list \in Seq(S), NEW kept, NEW j \in 1..Len(list), NEW s,
         Picks(s, j - 1, list, kept)
  PROVE  Picks(IF list[j] \in kept THEN Append(s, list[j]) ELSE s, j, list, kept)
<1>1. j \in Nat /\ j - 1 \in Nat /\ s \in Seq(kept)
  BY DEF Picks
<1>2. \A m : m \in 1..j <=> m \in 1..(j - 1) \/ m = j
  BY <1>1
<1>3. CASE list[j] \notin kept
  <2>1. 1..(j - 1) \subseteq 1..j
    BY <1>2
  <2>2. InTurn(s, list, j)
    <3> SUFFICES ASSUME NEW a \in DOMAIN s, NEW b \in DOMAIN s, a < b
                 PROVE  \E x, y \in 1..j : x < y /\ s[a] = list[x] /\ s[b] = list[y]
      BY DEF InTurn
    <3>1. PICK x \in 1..(j - 1), y \in 1..(j - 1) : x < y /\ s[a] = list[x] /\ s[b] = list[y]
      BY DEF Picks, InTurn
    <3>2. QED
      BY <2>1, <3>1
  <2>3. QED
    BY <1>2, <1>3, <2>2 DEF Picks
<1>4. CASE list[j] \in kept
  <2> DEFINE t == Append(s, list[j])
  <2>1. /\ t \in Seq(kept) /\ Len(s) \in Nat /\ DOMAIN s = 1..Len(s)
        /\ DOMAIN t = 1..(Len(s) + 1)
        /\ t[Len(s) + 1] = list[j] /\ \A i \in DOMAIN s : t[i] = s[i]
    BY <1>1, <1>4
  <2> HIDE DEF t
  <2>2. \A i : i \in DOMAIN t <=> i \in DOMAIN s \/ i = Len(s) + 1
    BY <2>1
  <2>3. \A i \in DOMAIN t : \E m \in 1..j : list[m] \in kept /\ t[i] = list[m]
    BY <1>2, <1>4, <2>1, <2>2 DEF Picks
  <2>4. \A m \in 1..j : list[m] \in kept => \E i \in DOMAIN t : t[i] = list[m]
    BY <1>2, <2>1, <2>2 DEF Picks
  <2>5. ASSUME NEW a \in DOMAIN t, NEW b \in DOMAIN t, a < b
        PROVE  \E x, y \in 1..j : x < y /\ t[a] = list[x] /\ t[b] = list[y]
    <3>1. a \in DOMAIN s /\ t[a] = s[a]
      BY <2>1, <2>2, <2>5
    <3>2. CASE b \in DOMAIN s
      <4>1. PICK x \in 1..(j - 1), y \in 1..(j - 1) : x < y /\ s[a] = list[x] /\ s[b] = list[y]
        BY <2>5, <3>1, <3>2 DEF Picks, InTurn
      <4>2. QED
        BY <1>2, <2>1, <3>1, <3>2, <4>1
    <3>3. CASE b = Len(s) + 1
      <4>1. PICK m \in 1..(j - 1) : s[a] = list[m]
        BY <3>1 DEF Picks
      <4>2. m \in 1..j /\ j \in 1..j /\ m < j
        BY <1>1
      <4>3. QED
        BY <2>1, <3>1, <3>3, <4>1, <4>2
    <3>4. QED
      BY <2>2, <3>2, <3>3
  <2>6. InTurn(t, list, j)
    BY <2>5 DEF InTurn
  <2>7. QED
    BY <1>4, <2>1, <2>3, <2>4, <2>6 DEF Picks, t
<1>5. QED
  BY <1>3, <1>4

\* A part of a list has what of the list is kept, in its order.
LEMMA SublistHas ==
  ASSUME NEW S, NEW list \in Seq(S), NEW kept
  PROVE  /\ Sublist(list, kept) \in Seq(kept)
         /\ Listed(Sublist(list, kept)) = Listed(list) \cap kept
         /\ InTurn(Sublist(list, kept), list, Len(list))
<1> DEFINE n == Len(list)
<1>1. n \in Nat /\ DOMAIN list = 1..n
  OBVIOUS
<1>2. PICK f : Upto(f, n, list, kept) /\ Sublist(list, kept) = f[n]
  BY <1>1, SublistIs
<1>3. \A j \in 0..n : f[j] = IF j = 0 THEN <<>>
                             ELSE IF list[j] \in kept THEN Append(f[j - 1], list[j]) ELSE f[j - 1]
  BY <1>2 DEF Upto
<1>4. Picks(f[n], n, list, kept)
  <2> DEFINE Bad == {j \in 0..n : ~Picks(f[j], j, list, kept)}
  <2>1. SUFFICES ASSUME Bad # {} PROVE FALSE
    BY <1>1
  <2>2. PICK j \in Bad : \A i \in Bad : j <= i
    <3>1. Bad \in SUBSET Nat
      OBVIOUS
    <3>2. QED
      BY <2>1, <3>1, Least
  <2>3. j \in 0..n /\ ~Picks(f[j], j, list, kept)
    OBVIOUS
  <2>4. Picks(f[0], 0, list, kept)
    <3>1. f[0] = <<>>
      BY <1>1, <1>3
    <3>2. QED
      BY <3>1 DEF Picks, InTurn
  <2>5. j \in 1..n /\ j - 1 \in 0..n
    BY <1>1, <2>3, <2>4
  <2>6. Picks(f[j - 1], j - 1, list, kept)
    BY <2>2, <2>5
  <2>7. f[j] = IF list[j] \in kept THEN Append(f[j - 1], list[j]) ELSE f[j - 1]
    BY <1>3, <2>5
  <2>8. Picks(f[j], j, list, kept)
    BY <2>5, <2>6, <2>7, PickOne
  <2>9. QED
    BY <2>3, <2>8
<1>5. Listed(f[n]) = Listed(list) \cap kept
  <2> HIDE DEF n
  <2>1. ASSUME NEW i \in DOMAIN f[n] PROVE f[n][i] \in Listed(list) \cap kept
    BY <1>1, <1>4 DEF Picks, Listed
  <2>2. ASSUME NEW m \in DOMAIN list, list[m] \in kept PROVE list[m] \in Listed(f[n])
    BY <1>1, <1>4, <2>2 DEF Picks, Listed
  <2>3. QED
    BY <2>1, <2>2 DEF Listed
<1>6. f[n] \in Seq(kept) /\ InTurn(f[n], list, n)
  BY <1>4 DEF Picks
<1>7. QED
  BY <1>2, <1>5, <1>6

-----------------------------------------------------------------------------
(* The page of the templates. *)

CallType == [kind : {"none", "add", "edit", "remove"}, at : {"idle", "find", "write", "written"},
             id : 0..MaxTemplates, content : Content \cup {NoContent}]

\* What a list says of a template, and what the table does.
Contents(list, i) == {e.content : e \in {x \in Listed(list) : x.id = i}}
Kept(table, i) == {table[i]} \ {NoContent}
IdsOnce(list) == \A j, k \in DOMAIN list : list[j].id = list[k].id => j = k
Sorted(list) == \A j, k \in DOMAIN list : j < k => list[j].id < list[k].id

\* An added template has no id before it is written, and only a removal holds no
\* content.
Genuine(a) ==
  /\ a.kind = "none" => a = NoCall
  /\ a # NoCall => a.kind # "none" /\ a.at # "idle"
  /\ a.kind = "add" /\ a.at # "written" => a.id = 0
  /\ a.kind \in {"edit", "remove"} \/ a.at = "written" => a.id \in TemplateId
  /\ a.kind \in {"add", "edit"} => a.content # NoContent
  /\ a.kind = "remove" => a.content = NoContent
  /\ a.kind = "add" => a.at # "find"

\* What was added and is not answered.
Fresh(a) == a.kind = "add" /\ a.at = "written"

Troubles == {"unloaded", "others", "overlap", "lost", "overtaken"}
CallsGenuine(calls, known) ==
  calls \in [Call -> CallType] /\ \A c \in Call : Genuine(calls[c]) /\ calls[c].id <= known
AddsNew(calls, list) ==
  /\ \A c \in Call : Fresh(calls[c]) => Contents(list, calls[c].id) = {}
  /\ \A c, d \in Call : c # d /\ Fresh(calls[c]) /\ Fresh(calls[d]) => calls[c].id # calls[d].id
NoneAfter(known, table, list, data) ==
  \A i \in TemplateId : i > known =>
    table[i] = NoContent /\ Contents(list, i) = {} /\ Contents(data, i) = {}

TableShape ==
  /\ template \in Tables
  /\ created \in 0..MaxTemplates
  /\ listed \in Seq(Lines) /\ IdsOnce(listed)
  /\ load \in [at : {"closed", "asked", "answered", "done"}, data : Seq(Lines)]
  /\ Sorted(load.data)
  /\ callsLeft \in Nat
  /\ unsynced \subseteq Troubles
  /\ load.at # "done" => \A c \in Call : call[c] = NoCall
  /\ CallsGenuine(call, created)
  /\ AddsNew(call, listed)
  /\ NoneAfter(created, template, listed, load.data)

\* As long as nothing separates them, list and table differ only where a call
\* is written and not answered, and there the answer brings what the table has.
Catching ==
  unsynced \subseteq {"overtaken"} =>
    /\ load.at = "answered" => \A i \in TemplateId : Contents(load.data, i) = Kept(template, i)
    /\ load.at = "done" =>
         /\ \A c, d \in Call : c # d /\ call[c].id # 0 => call[c].id # call[d].id
         /\ \A c \in Call :
              /\ call[c].at = "written" => template[call[c].id] = call[c].content
              /\ call[c].kind = "edit" => Contents(listed, call[c].id) # {}
         /\ \A i \in TemplateId :
              \/ Contents(listed, i) = Kept(template, i)
              \/ \E c \in Call : call[c].at = "written" /\ call[c].id = i

\* As long as no answer overtakes another, the list is sorted, and what is added
\* and not answered comes after all that is on it.
InOrder ==
  "overtaken" \notin unsynced =>
    /\ Sorted(listed)
    /\ \A c \in Call : Fresh(call[c]) =>
         \A i \in TemplateId : i >= call[c].id => Contents(listed, i) = {}

TableInv == TableShape /\ Catching /\ InOrder

LEMMA NoCallIs ==
  /\ NoCall \in CallType /\ NoCall.id = 0 /\ NoCall.at = "idle" /\ NoCall.kind = "none"
  /\ Genuine(NoCall)
  /\ ~Fresh(NoCall)
  BY TemplatesAreBounded DEF NoCall, CallType, Genuine, Fresh

\* What an answer does to a list.
Carries(new, list, a) ==
  /\ new \in Seq(Lines) /\ IdsOnce(new)
  /\ \A i \in TemplateId :
       Contents(new, i) = IF i # a.id \/ (a.kind = "edit" /\ Contents(list, i) = {})
                      THEN Contents(list, i) ELSE {a.content} \ {NoContent}
  /\ Sorted(list) /\ (a.kind = "add" => \A i \in TemplateId : i >= a.id => Contents(list, i) = {})
       => Sorted(new)

LEMMA ContentsHave ==
  ASSUME NEW list, NEW k \in DOMAIN list
  PROVE  list[k].content \in Contents(list, list[k].id)
  BY DEF Contents, Listed

LEMMA ContentsAre ==
  ASSUME NEW list, NEW i, NEW d \in Contents(list, i)
  PROVE  \E k \in DOMAIN list : list[k].id = i /\ list[k].content = d
  BY DEF Contents, Listed

LEMMA LinesAre ==
  ASSUME NEW list \in Seq(Lines)
  PROVE  /\ Len(list) \in Nat /\ DOMAIN list = 1..Len(list)
         /\ \A k \in DOMAIN list : list[k] \in Lines /\ list[k].id \in TemplateId /\ list[k].content \in Content
<1>1. \A e \in Lines : e.id \in TemplateId /\ e.content \in Content
  BY DEF Lines
<1>2. QED
  BY <1>1

LEMMA EmptyList ==
  /\ <<>> \in Seq(Lines) /\ IdsOnce(<<>>) /\ Sorted(<<>>) /\ \A i : Contents(<<>>, i) = {}
  BY DEF IdsOnce, Sorted, Contents, Listed

\* A sorted list has each template once.
LEMMA SortedOnce ==
  ASSUME NEW list \in Seq(Lines), Sorted(list)
  PROVE  IdsOnce(list)
<1>1. ASSUME NEW j \in DOMAIN list, NEW k \in DOMAIN list, j # k PROVE list[j].id # list[k].id
  <2>1. j < k \/ k < j
    BY <1>1, LinesAre
  <2>2. list[j].id \in Int /\ list[k].id \in Int
    BY LinesAre, TemplatesAreBounded DEF TemplateId
  <2>3. QED
    BY <2>1, <2>2 DEF Sorted
<1>2. QED
  BY <1>1 DEF IdsOnce

LEMMA AddedLine ==
  ASSUME NEW list \in Seq(Lines), IdsOnce(list), NEW a \in CallType, a.kind = "add",
         a.id \in TemplateId, a.content \in Content, Contents(list, a.id) = {}
  PROVE  Carries(Applied(list, a), list, a)
<1> DEFINE line == [id |-> a.id, content |-> a.content]
           n == Len(list)
           new == Append(list, line)
<1>1. Applied(list, a) = new
  BY DEF Applied
<1>2. line \in Lines /\ line.id = a.id /\ line.content = a.content
  BY DEF Lines
<1> HIDE DEF line
<1>3. /\ n \in Nat /\ DOMAIN list = 1..n /\ new \in Seq(Lines) /\ DOMAIN new = 1..(n + 1)
      /\ new[n + 1] = line /\ \A k \in 1..n : new[k] = list[k]
  BY <1>2
<1> HIDE DEF new, n
<1>4. \A k \in DOMAIN list : list[k].id # a.id
  BY ContentsHave
<1>5. \A k : k \in DOMAIN new <=> k \in DOMAIN list \/ k = n + 1
  BY <1>3
<1>6. IdsOnce(new)
  BY <1>2, <1>3, <1>4, <1>5 DEF IdsOnce
<1>7. Listed(new) = Listed(list) \cup {line}
  BY <1>3, <1>5 DEF Listed
<1>8. ASSUME NEW i \in TemplateId
      PROVE  Contents(new, i) = IF i # a.id \/ (a.kind = "edit" /\ Contents(list, i) = {})
                            THEN Contents(list, i) ELSE {a.content} \ {NoContent}
  <2>1. CASE i # a.id
    <3>1. {x \in Listed(new) : x.id = i} = {x \in Listed(list) : x.id = i}
      BY <1>2, <1>7, <2>1
    <3>2. QED
      BY <2>1, <3>1 DEF Contents
  <2>2. CASE i = a.id
    <3>1. {x \in Listed(new) : x.id = i} = {line}
      BY <1>2, <1>4, <1>7, <2>2 DEF Listed
    <3>2. Contents(new, i) = {a.content}
      BY <1>2, <3>1 DEF Contents
    <3>3. QED
      BY <2>2, <3>2, NoContentIsNone
  <2>3. QED
    BY <2>1, <2>2
<1>9. ASSUME Sorted(list), \A i \in TemplateId : i >= a.id => Contents(list, i) = {}
      PROVE  Sorted(new)
  <2>1. ASSUME NEW k \in DOMAIN list PROVE list[k].id < a.id
    <3>1. list[k].id \in TemplateId /\ Contents(list, list[k].id) # {}
      BY LinesAre, ContentsHave
    <3>2. QED
      BY <1>9, <3>1, TemplatesAreBounded DEF TemplateId
  <2>2. QED
    BY <1>2, <1>3, <1>5, <1>9, <2>1 DEF Sorted
<1>10. QED
  BY <1>1, <1>3, <1>6, <1>8, <1>9 DEF Carries

LEMMA EditedLine ==
  ASSUME NEW list \in Seq(Lines), IdsOnce(list), NEW a \in CallType, a.kind = "edit",
         a.id \in TemplateId, a.content \in Content
  PROVE  Carries(Applied(list, a), list, a)
<1> DEFINE line == [id |-> a.id, content |-> a.content]
           new == [k \in DOMAIN list |-> IF list[k].id = line.id THEN line ELSE list[k]]
<1>1. Applied(list, a) = new
  BY DEF Applied
<1>2. line \in Lines /\ line.id = a.id /\ line.content = a.content
  BY DEF Lines
<1> HIDE DEF line
<1>3. /\ Len(list) \in Nat /\ DOMAIN list = 1..Len(list)
      /\ \A k \in DOMAIN list : list[k] \in Lines
  BY LinesAre
<1>4. new \in Seq(Lines) /\ DOMAIN new = DOMAIN list
  <2>1. new \in [1..Len(list) -> Lines]
    BY <1>2, <1>3
  <2>2. QED
    BY <1>3, <2>1
<1>5. \A k \in DOMAIN list : /\ list[k].id = a.id => new[k] = line
                             /\ list[k].id # a.id => new[k] = list[k]
                             /\ new[k].id = list[k].id
  BY <1>2
<1> HIDE DEF new
<1>6. IdsOnce(new) /\ (Sorted(list) => Sorted(new))
  BY <1>4, <1>5 DEF IdsOnce, Sorted
<1>7. ASSUME NEW i \in TemplateId
      PROVE  Contents(new, i) = IF i # a.id \/ (a.kind = "edit" /\ Contents(list, i) = {})
                            THEN Contents(list, i) ELSE {a.content} \ {NoContent}
  <2>1. CASE i # a.id
    <3>1. {x \in Listed(new) : x.id = i} = {x \in Listed(list) : x.id = i}
      BY <1>4, <1>5, <2>1 DEF Listed
    <3>2. QED
      BY <2>1, <3>1 DEF Contents
  <2>2. CASE i = a.id /\ Contents(list, i) = {}
    <3>1. \A k \in DOMAIN list : list[k].id # i
      BY <2>2, ContentsHave
    <3>2. {x \in Listed(new) : x.id = i} = {}
      BY <1>4, <1>5, <3>1 DEF Listed
    <3>3. Contents(new, i) = {}
      BY <3>2 DEF Contents
    <3>4. QED
      BY <2>2, <3>3
  <2>3. CASE i = a.id /\ Contents(list, i) # {}
    <3>1. PICK k \in DOMAIN list : list[k].id = i
      BY <2>3, ContentsAre
    <3>2. {x \in Listed(new) : x.id = i} = {line}
      BY <1>2, <1>4, <1>5, <2>3, <3>1 DEF Listed
    <3>3. Contents(new, i) = {a.content}
      BY <1>2, <3>2 DEF Contents
    <3>4. QED
      BY <2>3, <3>3, NoContentIsNone
  <2>4. QED
    BY <2>1, <2>2, <2>3
<1>8. QED
  BY <1>1, <1>4, <1>6, <1>7 DEF Carries

LEMMA RemovedLine ==
  ASSUME NEW list \in Seq(Lines), IdsOnce(list), NEW a \in CallType, a.kind = "remove",
         a.id \in TemplateId, a.content = NoContent
  PROVE  Carries(Applied(list, a), list, a)
<1> DEFINE kept == {e \in Lines : e.id # a.id}
           new == Sublist(list, kept)
<1>1. Applied(list, a) = new
  BY DEF Applied
<1>2. \A e : e \in kept <=> e \in Lines /\ e.id # a.id
  OBVIOUS
<1> HIDE DEF kept
<1>3. new \in Seq(kept) /\ Listed(new) = Listed(list) \cap kept /\ InTurn(new, list, Len(list))
  BY SublistHas
<1> HIDE DEF new
<1>4. new \in Seq(Lines) /\ DOMAIN new = 1..Len(new) /\ Len(new) \in Nat
  <2>1. kept \subseteq Lines
    BY <1>2
  <2>2. QED
    BY <1>3, <2>1
<1>5. IdsOnce(new)
  <2>1. ASSUME NEW b \in DOMAIN new, NEW c \in DOMAIN new, b < c PROVE new[b].id # new[c].id
    <3>1. PICK x \in DOMAIN list, y \in DOMAIN list : x < y /\ new[b] = list[x] /\ new[c] = list[y]
      BY <1>3, <2>1, LinesAre DEF InTurn
    <3>2. x # y
      BY <3>1, LinesAre
    <3>3. QED
      BY <3>1, <3>2 DEF IdsOnce
  <2>2. \A b, c \in DOMAIN new : b = c \/ b < c \/ c < b
    BY <1>4
  <2>3. QED
    BY <2>1, <2>2 DEF IdsOnce
<1>6. Sorted(list) => Sorted(new)
  <2> SUFFICES ASSUME Sorted(list), NEW b \in DOMAIN new, NEW c \in DOMAIN new, b < c
               PROVE  new[b].id < new[c].id
    BY DEF Sorted
  <2>1. PICK x \in DOMAIN list, y \in DOMAIN list : x < y /\ new[b] = list[x] /\ new[c] = list[y]
    BY <1>3, LinesAre DEF InTurn
  <2>2. QED
    BY <2>1 DEF Sorted
<1>7. ASSUME NEW i \in TemplateId
      PROVE  Contents(new, i) = IF i # a.id \/ (a.kind = "edit" /\ Contents(list, i) = {})
                            THEN Contents(list, i) ELSE {a.content} \ {NoContent}
  <2>0. Listed(list) \subseteq Lines
    BY LinesAre DEF Listed
  <2>1. CASE i # a.id
    <3>1. {x \in Listed(new) : x.id = i} = {x \in Listed(list) : x.id = i}
      BY <1>2, <1>3, <2>0, <2>1
    <3>2. QED
      BY <2>1, <3>1 DEF Contents
  <2>2. CASE i = a.id
    <3>1. {x \in Listed(new) : x.id = i} = {}
      BY <1>2, <1>3, <2>2
    <3>2. QED
      BY <2>2, <3>1 DEF Contents
  <2>3. QED
    BY <2>1, <2>2
<1>8. QED
  BY <1>1, <1>4, <1>5, <1>6, <1>7 DEF Carries

\* What the server lists is the table, sorted.
LEMMA FindAllTells ==
  ASSUME template \in Tables
  PROVE  /\ FindAll \in Seq(Lines) /\ Sorted(FindAll)
         /\ \A i \in TemplateId : Contents(FindAll, i) = Kept(template, i)
<1> DEFINE row(i) == [id |-> i, content |-> template[i]]
           list == [i \in TemplateId |-> row(i)]
           S == [id : TemplateId, content : Content \cup {NoContent}]
<1>1. list \in Seq(S) /\ DOMAIN list = TemplateId /\ \A i \in TemplateId : list[i] = row(i)
  BY TemplatesAreBounded DEF TemplateId, Tables
<1>2. \A i \in TemplateId : /\ row(i).id = i /\ row(i).content = template[i]
                            /\ row(i) \in Lines <=> template[i] # NoContent
  BY NoContentIsNone DEF Lines, Tables
<1>3. FindAll = Sublist(list, Lines)
  BY DEF FindAll
<1> HIDE DEF list, row, S
<1>4. /\ FindAll \in Seq(Lines) /\ Listed(FindAll) = Listed(list) \cap Lines
      /\ InTurn(FindAll, list, Len(list))
  BY <1>1, <1>3, SublistHas
<1>5. Sorted(FindAll)
  <2> SUFFICES ASSUME NEW b \in DOMAIN FindAll, NEW c \in DOMAIN FindAll, b < c
               PROVE  FindAll[b].id < FindAll[c].id
    BY DEF Sorted
  <2>0. DOMAIN list = 1..Len(list)
    BY <1>1
  <2>1. PICK x \in DOMAIN list, y \in DOMAIN list : x < y /\ FindAll[b] = list[x] /\ FindAll[c] = list[y]
    BY <1>4, <2>0 DEF InTurn
  <2>2. QED
    BY <1>1, <1>2, <2>1
<1>6. ASSUME NEW i \in TemplateId PROVE Contents(FindAll, i) = Kept(template, i)
  <2>1. {x \in Listed(FindAll) : x.id = i} = {x \in {row(i)} : x \in Lines}
    BY <1>1, <1>2, <1>4 DEF Listed
  <2>2. CASE template[i] = NoContent
    <3>1. {x \in Listed(FindAll) : x.id = i} = {}
      BY <1>2, <2>1, <2>2
    <3>2. QED
      BY <2>2, <3>1 DEF Contents, Kept
  <2>3. CASE template[i] # NoContent
    <3>1. {x \in Listed(FindAll) : x.id = i} = {row(i)}
      BY <1>2, <2>1, <2>3
    <3>2. QED
      BY <1>2, <2>3, <3>1 DEF Contents, Kept
  <2>4. QED
    BY <2>2, <2>3
<1>7. QED
  BY <1>4, <1>5, <1>6

LEMMA TablesStart ==
  ASSUME NEW n \in Nat, TemplatesInit(n)
  PROVE  TableInv
<1> USE TemplatesAreBounded
<1>1. PICK t \in Table :
        /\ template = [i \in TemplateId |-> IF i \in DOMAIN t THEN t[i] ELSE NoContent]
        /\ created = Len(t)
  BY DEF TemplatesInit
<1>2. t \in Seq(Content) /\ Len(t) <= MaxTemplates
  BY TablesFit
<1>3. template \in Tables /\ created \in 0..MaxTemplates
      /\ \A i \in TemplateId : i > created => template[i] = NoContent
  <2>1. Len(t) \in Nat /\ DOMAIN t = 1..Len(t) /\ \A i \in DOMAIN t : t[i] \in Content
    BY <1>2
  <2>2. created \in 0..MaxTemplates
    BY <1>1, <1>2, <2>1
  <2>3. template \in Tables
    BY <1>1, <2>1 DEF Tables
  <2>4. ASSUME NEW i \in TemplateId, i > created PROVE template[i] = NoContent
    BY <1>1, <2>1, <2>4 DEF TemplateId
  <2>5. QED
    BY <2>2, <2>3, <2>4
<1>4. \A c \in Call : call[c] = NoCall
  BY DEF TemplatesInit
<1>5. TableShape
  <2>1. CallsGenuine(call, created) /\ AddsNew(call, listed)
    BY <1>3, <1>4, NoCallIs DEF CallsGenuine, AddsNew, TemplatesInit
  <2>2. NoneAfter(created, template, listed, load.data)
    BY <1>3, EmptyList DEF NoneAfter, TemplatesInit
  <2>3. QED
    BY <1>3, <1>4, <2>1, <2>2, EmptyList DEF TemplatesInit, TableShape
<1>6. Catching
  BY DEF TemplatesInit, Catching
<1>7. InOrder
  BY <1>4, NoCallIs, EmptyList DEF TemplatesInit, InOrder
<1>8. QED
  BY <1>5, <1>6, <1>7 DEF TableInv

LEMMA TablesStay == TableInv /\ UNCHANGED templateVars => TableInv'
  BY DEF TableInv, TableShape, Catching, InOrder, templateVars

\* What an answer does to the list of the page.
LEMMA AnswerCarries ==
  ASSUME TableShape, NEW c \in Call, Answer(c)
  PROVE  /\ Carries(listed', listed, call[c]) /\ call[c].id \in TemplateId
         /\ call[c].kind \in {"add", "edit", "remove"}
         /\ call[c].kind # "remove" => call[c].content \in Content
         /\ call[c].kind = "remove" => call[c].content = NoContent
<1>1. call[c] \in CallType /\ Genuine(call[c]) /\ call[c] # NoCall
  BY NoCallIs DEF TableShape, CallsGenuine, Answer
<1>2. /\ call[c].id \in TemplateId /\ call[c].kind \in {"add", "edit", "remove"}
      /\ call[c].kind # "remove" => call[c].content \in Content
      /\ call[c].kind = "remove" => call[c].content = NoContent
  BY <1>1 DEF Answer, Genuine, CallType
<1>3. listed \in Seq(Lines) /\ IdsOnce(listed) /\ listed' = Applied(listed, call[c])
  BY DEF TableShape, Answer
<1>4. CASE call[c].kind = "add"
  <2>1. Contents(listed, call[c].id) = {}
    BY <1>4 DEF TableShape, AddsNew, Answer, Fresh
  <2>2. QED
    BY <1>1, <1>2, <1>3, <1>4, <2>1, AddedLine
<1>5. CASE call[c].kind = "edit"
  BY <1>1, <1>2, <1>3, <1>5, EditedLine
<1>6. CASE call[c].kind = "remove"
  BY <1>1, <1>2, <1>3, <1>6, RemovedLine
<1>7. QED
  BY <1>2, <1>4, <1>5, <1>6

\* What a call does to the calls.
LEMMA CallMoves ==
  ASSUME NEW known \in 0..MaxTemplates, NEW later \in 0..MaxTemplates, known <= later, NEW list,
         CallsGenuine(call, known), AddsNew(call, list), NEW c \in Call, NEW a \in CallType,
         Genuine(a), a.id <= later, call' = [call EXCEPT ![c] = a],
         Fresh(a) => /\ Contents(list, a.id) = {}
                     /\ \A d \in Call : d # c /\ Fresh(call[d]) => call[d].id # a.id
  PROVE  CallsGenuine(call', later) /\ AddsNew(call', list)
<1>1. call'[c] = a /\ (\A d \in Call : d # c => call'[d] = call[d]) /\ call' \in [Call -> CallType]
  BY DEF CallsGenuine
<1>2. ASSUME NEW d \in Call PROVE Genuine(call'[d]) /\ call'[d].id <= later
  <2>1. CASE d = c
    BY <1>1, <2>1
  <2>2. CASE d # c
    <3>1. call[d] \in CallType /\ Genuine(call[d]) /\ call[d].id <= known /\ call[d].id \in 0..MaxTemplates
      BY DEF CallsGenuine, CallType
    <3>2. call[d].id <= later
      BY <3>1, TemplatesAreBounded
    <3>3. QED
      BY <1>1, <2>2, <3>1, <3>2
  <2>3. QED
    BY <2>1, <2>2
<1>3. CallsGenuine(call', later)
  BY <1>1, <1>2 DEF CallsGenuine
<1>4. AddsNew(call', list)
  BY <1>1 DEF AddsNew
<1>5. QED
  BY <1>3, <1>4

\* What the end of a call leaves.
LEMMA CallGoes ==
  ASSUME TableShape, NEW c \in Call, CallEnds(c)
  PROVE  CallsGenuine(call', created) /\ AddsNew(call', listed) /\ call'[c] = NoCall
         /\ \A d \in Call : d # c => call'[d] = call[d]
<1>1. call' = [call EXCEPT ![c] = NoCall] /\ CallsGenuine(call, created) /\ AddsNew(call, listed)
      /\ created \in 0..MaxTemplates
  BY DEF CallEnds, TableShape
<1>2. NoCall.id <= created /\ created <= created
  BY <1>1, NoCallIs, TemplatesAreBounded
<1>3. call'[c] = NoCall /\ \A d \in Call : d # c => call'[d] = call[d]
  BY <1>1 DEF CallsGenuine
<1>4. QED
  BY <1>1, <1>2, <1>3, NoCallIs, CallMoves

\* What the steps keep of the shape.
LEMMA TableShapeStep ==
  ASSUME TableShape, TemplatesNext
  PROVE  TableShape'
<1> USE TemplatesAreBounded, NoContentIsNone, NoCallIs
<1>0. /\ template \in Tables /\ created \in 0..MaxTemplates /\ created <= created
      /\ listed \in Seq(Lines) /\ IdsOnce(listed)
      /\ load \in [at : {"closed", "asked", "answered", "done"}, data : Seq(Lines)] /\ Sorted(load.data)
      /\ callsLeft \in Nat /\ unsynced \subseteq Troubles
      /\ load.at # "done" => \A c \in Call : call[c] = NoCall
      /\ CallsGenuine(call, created) /\ AddsNew(call, listed)
      /\ NoneAfter(created, template, listed, load.data)
  BY DEF TableShape
<1>1. \A c \in Call : call[c] \in CallType /\ Genuine(call[c]) /\ call[c].id <= created
  BY <1>0 DEF CallsGenuine
<1>2. CASE LoadRead
  <2>1. FindAll \in Seq(Lines) /\ Sorted(FindAll)
        /\ \A i \in TemplateId : i > created => Contents(FindAll, i) = {}
    BY <1>0, FindAllTells DEF Kept, NoneAfter
  <2>2. load' = [at |-> "answered", data |-> FindAll] /\ load.at # "done"
        /\ UNCHANGED <<template, created, listed, call, callsLeft, unsynced>>
    BY <1>2 DEF LoadRead
  <2>3. NoneAfter(created', template', listed', load'.data)
    BY <1>0, <2>1, <2>2 DEF NoneAfter
  <2>4. QED
    BY <1>0, <2>1, <2>2, <2>3 DEF TableShape
<1>3. CASE LoadShow
  <2>1. load.data \in Seq(Lines) /\ IdsOnce(load.data)
    BY <1>0, SortedOnce
  <2>2. listed' = load.data /\ load' = [at |-> "done", data |-> <<>>] /\ load.at # "done"
        /\ UNCHANGED <<template, created, call, callsLeft, unsynced>>
    BY <1>3 DEF LoadShow
  <2>3. AddsNew(call', listed')
    BY <1>0, <2>2 DEF AddsNew
  <2>4. NoneAfter(created', template', listed', load'.data)
    BY <1>0, <2>2, EmptyList DEF NoneAfter
  <2>5. QED
    BY <1>0, <2>1, <2>2, <2>3, <2>4, EmptyList DEF TableShape
<1>4. CASE LoadFails
  <2>1. load' = [at |-> "done", data |-> <<>>] /\ unsynced' = unsynced \cup {"unloaded"}
        /\ UNCHANGED <<template, created, listed, call, callsLeft>>
    BY <1>4 DEF LoadFails
  <2>2. NoneAfter(created', template', listed', load'.data)
    BY <1>0, <2>1, EmptyList DEF NoneAfter
  <2>3. unsynced' \subseteq Troubles
    BY <1>0, <2>1 DEF Troubles
  <2>4. QED
    BY <1>0, <2>1, <2>2, <2>3, EmptyList DEF TableShape
<1>5. ASSUME NEW c \in Call, NEW kind \in {"add", "edit", "remove"}, NEW i \in 0..MaxTemplates,
             NEW content \in Content \cup {NoContent}, Start(c, kind, i, content),
             kind = "add" => i = 0, kind # "add" => i \in TemplateId /\ i <= created,
             kind = "remove" <=> content = NoContent
      PROVE  TableShape'
  <2> DEFINE a == [kind |-> kind, at |-> IF kind = "add" THEN "write" ELSE "find",
                   id |-> i, content |-> content]
  <2>1. a \in CallType /\ Genuine(a) /\ ~Fresh(a) /\ a.id <= created
    BY <1>0, <1>5 DEF CallType, Fresh, Genuine, NoCall
  <2>2. call' = [call EXCEPT ![c] = a] /\ load.at = "done" /\ callsLeft' \in Nat
        /\ UNCHANGED <<template, created, listed, load>>
        /\ unsynced' \subseteq Troubles
    BY <1>0, <1>5 DEF Start, desk, Troubles
  <2> HIDE DEF a
  <2>3. CallsGenuine(call', created) /\ AddsNew(call', listed)
    BY <1>0, <2>1, <2>2, CallMoves
  <2>4. QED
    BY <1>0, <2>2, <2>3 DEF TableShape
<1>6. ASSUME NEW c \in Call, NEW a \in CallType, Genuine(a), a.id = call[c].id, load.at = "done",
             call' = [call EXCEPT ![c] = a], ~Fresh(a), UNCHANGED <<created, desk, callsLeft, unsynced>>,
             template' \in Tables, \A i \in TemplateId : i > created => template'[i] = NoContent
      PROVE  TableShape'
  <2>1. a.id <= created
    BY <1>1, <1>6
  <2>2. CallsGenuine(call', created) /\ AddsNew(call', listed)
    BY <1>0, <1>6, <2>1, CallMoves
  <2>3. NoneAfter(created', template', listed', load'.data)
    BY <1>0, <1>6 DEF NoneAfter, desk
  <2>4. QED
    BY <1>0, <1>6, <2>2, <2>3 DEF TableShape, desk
<1>7. ASSUME NEW c \in Call, Find(c) PROVE TableShape'
  <2>0. load.at = "done" /\ call[c].at = "find" /\ call[c] # NoCall
    BY <1>0, <1>7 DEF Find
  <2>1. CASE CallTo(c, "write")
    <3>1. [call[c] EXCEPT !.at = "write"] \in CallType /\ Genuine([call[c] EXCEPT !.at = "write"])
          /\ [call[c] EXCEPT !.at = "write"].id = call[c].id /\ ~Fresh([call[c] EXCEPT !.at = "write"])
      BY <1>1, <2>0 DEF CallType, NoCall, Genuine, Fresh
    <3>2. \A i \in TemplateId : i > created => template[i] = NoContent
      BY <1>0 DEF NoneAfter
    <3>3. QED
      BY <1>0, <1>6, <1>7, <2>0, <2>1, <3>1, <3>2 DEF Find, CallTo
  <2>2. CASE CallEnds(c)
    BY <1>0, <1>7, <2>0, <2>2, CallGoes DEF Find, desk, TableShape
  <2>3. QED
    BY <1>7, <2>1, <2>2 DEF Find
<1>8. ASSUME NEW c \in Call, Create(c) PROVE TableShape'
  <2> DEFINE a == [call[c] EXCEPT !.at = "written", !.id = created']
  <2>1. created' = created + 1 /\ created' \in TemplateId /\ created' \in 0..MaxTemplates
        /\ load.at = "done" /\ created <= created'
    BY <1>0, <1>8 DEF Create, TemplateId
  <2>2. a \in CallType /\ a.kind = "add" /\ a.id = created' /\ a.at = "written"
        /\ a.content = call[c].content /\ a.content # NoContent /\ call[c].content \in Content
    BY <1>1, <1>8, <2>1 DEF Create, CallType, Genuine
  <2>3. call' = [call EXCEPT ![c] = a] /\ template' = [template EXCEPT ![created'] = call[c].content]
        /\ UNCHANGED <<listed, load, callsLeft, unsynced>>
    BY <1>8 DEF Create, desk
  <2> HIDE DEF a
  <2>4. Genuine(a) /\ a.id <= created'
    BY <2>1, <2>2 DEF Genuine
  <2>5. Contents(listed, a.id) = {}
    <3>1. created' > created /\ created' \in TemplateId
      <4>1. \A n \in 0..MaxTemplates : n + 1 > n
        OBVIOUS
      <4>2. QED
        BY <1>0, <2>1, <4>1
    <3>2. QED
      BY <1>0, <2>2, <3>1 DEF NoneAfter
  <2>6. \A d \in Call : call[d].id # a.id
    BY <1>0, <1>1, <2>1, <2>2 DEF CallType
  <2>7. CallsGenuine(call', created') /\ AddsNew(call', listed)
    <3>1. /\ created \in 0..MaxTemplates /\ created' \in 0..MaxTemplates /\ created <= created'
          /\ CallsGenuine(call, created) /\ AddsNew(call, listed)
      BY <1>0, <2>1
    <3>2. Fresh(a) => /\ Contents(listed, a.id) = {}
                      /\ \A d \in Call : d # c /\ Fresh(call[d]) => call[d].id # a.id
      BY <2>5, <2>6
    <3>3. call' = [call EXCEPT ![c] = a] /\ a \in CallType
      BY <2>2, <2>3
    <3>4. QED
      BY <2>4, <3>1, <3>2, <3>3, CallMoves
  <2>8. template' \in Tables
    BY <1>0, <2>1, <2>2, <2>3 DEF Tables
  <2>9. NoneAfter(created', template', listed, load.data)
    <3> SUFFICES ASSUME NEW i \in TemplateId, i > created'
                 PROVE  template'[i] = NoContent /\ Contents(listed, i) = {} /\ Contents(load.data, i) = {}
      BY DEF NoneAfter
    <3>1. i > created /\ i # created'
      BY <1>0, <2>1 DEF TemplateId
    <3>2. template'[i] = template[i]
      BY <1>0, <2>3, <3>1 DEF Tables
    <3>3. QED
      BY <1>0, <3>1, <3>2 DEF NoneAfter
  <2>10. QED
    BY <1>0, <2>1, <2>3, <2>7, <2>8, <2>9 DEF TableShape
<1>9. ASSUME NEW c \in Call, Write(c) PROVE TableShape'
  <2> DEFINE a == [call[c] EXCEPT !.at = "written"]
  <2>1. a \in CallType /\ Genuine(a) /\ a.id = call[c].id /\ ~Fresh(a) /\ call[c].id \in TemplateId
        /\ call[c].id <= created /\ call[c].content \in Content \cup {NoContent} /\ load.at = "done"
    BY <1>0, <1>1, <1>9 DEF Write, CallType, NoCall, Genuine, Fresh
  <2>2. call' = [call EXCEPT ![c] = a] /\ template' = [template EXCEPT ![call[c].id] = call[c].content]
        /\ UNCHANGED <<created, desk, callsLeft, unsynced>>
    BY <1>9 DEF Write, CallTo
  <2> HIDE DEF a
  <2>3. template' \in Tables
    BY <1>0, <2>1, <2>2 DEF Tables
  <2>4. ASSUME NEW i \in TemplateId, i > created PROVE template'[i] = NoContent
    <3>1. i # call[c].id
      BY <1>0, <2>1, <2>4 DEF TemplateId
    <3>2. template'[i] = template[i]
      BY <1>0, <2>2, <3>1 DEF Tables
    <3>3. QED
      BY <1>0, <2>4, <3>2 DEF NoneAfter
  <2>5. QED
    BY <1>6, <2>1, <2>2, <2>3, <2>4
<1>10. ASSUME NEW c \in Call, Answer(c) PROVE TableShape'
  <2>1. CallEnds(c) /\ UNCHANGED <<template, created, load, callsLeft>> /\ unsynced' \subseteq Troubles
        /\ load.at = "done"
    BY <1>0, <1>10 DEF Answer, Troubles
  <2>2. Carries(listed', listed, call[c]) /\ call[c].id \in TemplateId /\ call[c].kind \in {"add", "edit", "remove"}
        /\ call[c].id <= created /\ call[c].at = "written"
    BY <1>1, <1>10, AnswerCarries DEF Answer
  <2>3. CallsGenuine(call', created) /\ AddsNew(call', listed) /\ call'[c] = NoCall
        /\ \A d \in Call : d # c => call'[d] = call[d]
    BY <2>1, CallGoes
  <2>4. listed' \in Seq(Lines) /\ IdsOnce(listed')
    BY <2>2 DEF Carries
  <2>5. \A i \in TemplateId : i # call[c].id => Contents(listed', i) = Contents(listed, i)
    BY <2>2 DEF Carries
  <2>6. NoneAfter(created', template', listed', load'.data)
    BY <1>0, <2>1, <2>2, <2>5 DEF NoneAfter, TemplateId
  <2>7. ASSUME NEW d \in Call, Fresh(call'[d]) PROVE Contents(listed', call'[d].id) = {}
    <3>1. d # c /\ call'[d] = call[d] /\ Fresh(call[d])
      BY <2>3, <2>7
    <3>2. Contents(listed, call[d].id) = {} /\ call[d].id \in TemplateId
      BY <1>0, <1>1, <3>1 DEF AddsNew, Fresh, Genuine
    <3>3. CASE call[d].id # call[c].id
      BY <2>5, <3>1, <3>2, <3>3
    <3>4. CASE call[d].id = call[c].id
      <4>1. call[c].kind # "add"
        BY <1>0, <2>2, <3>1, <3>4 DEF AddsNew, Fresh
      <4>2. CASE call[c].kind = "edit"
        BY <2>2, <3>1, <3>2, <3>4, <4>2 DEF Carries
      <4>3. CASE call[c].kind = "remove"
        <5>1. call[c].content = NoContent
          BY <1>10, <4>3, AnswerCarries
        <5>2. QED
          BY <2>2, <3>1, <3>2, <3>4, <4>3, <5>1 DEF Carries
      <4>4. QED
        BY <2>2, <4>1, <4>2, <4>3
    <3>5. QED
      BY <3>3, <3>4
  <2>8. AddsNew(call', listed')
    BY <2>3, <2>7 DEF AddsNew
  <2>9. QED
    BY <1>0, <2>1, <2>3, <2>4, <2>6, <2>8 DEF TableShape
<1>11. ASSUME NEW c \in Call, CallFails(c) PROVE TableShape'
  <2>1. CallEnds(c) /\ UNCHANGED <<template, created, listed, load, callsLeft>>
        /\ unsynced' \subseteq Troubles /\ load.at = "done"
    BY <1>0, <1>11 DEF CallFails, desk, Troubles
  <2>2. QED
    BY <1>0, <2>1, CallGoes DEF TableShape
<1>12. ASSUME NEW i \in TemplateId, NEW content \in Content \cup {NoContent}, OthersWrite(i, content)
       PROVE  TableShape'
  <2>1. created' \in 0..MaxTemplates /\ created <= created' /\ i <= created' /\ i \in 1..MaxTemplates
    BY <1>0, <1>12 DEF OthersWrite, TemplateId
  <2>2. /\ template' = [template EXCEPT ![i] = content] /\ callsLeft' \in Nat
        /\ unsynced' \subseteq Troubles /\ UNCHANGED <<listed, load, call>>
    BY <1>0, <1>12 DEF OthersWrite, desk, Troubles
  <2>3. template' \in Tables /\ \A j \in TemplateId : j # i => template'[j] = template[j]
    BY <1>0, <2>2 DEF Tables
  <2>4. NoneAfter(created', template', listed, load.data)
    BY <1>0, <2>1, <2>3 DEF NoneAfter, TemplateId
  <2>5. CallsGenuine(call, created')
    <3>1. \A c \in Call : call[c].id \in 0..MaxTemplates
      BY <1>1 DEF CallType
    <3>2. QED
      BY <1>0, <2>1, <3>1 DEF CallsGenuine
  <2>6. QED
    BY <1>0, <2>1, <2>2, <2>3, <2>4, <2>5 DEF TableShape
<1>13. CASE TemplatesCall
  <2>1. ASSUME NEW c \in Call, NEW content \in Content, AddTemplate(c, content) PROVE TableShape'
    <3>1. Start(c, "add", 0, content) /\ 0 \in 0..MaxTemplates
      BY <2>1 DEF AddTemplate
    <3>2. QED
      BY <1>5, <3>1
  <2>2. ASSUME NEW i \in TemplateId, IsListed(i) PROVE i \in 0..MaxTemplates /\ i <= created
    <3>1. Contents(listed, i) # {}
      BY <2>2, ContentsHave DEF IsListed
    <3>2. QED
      BY <1>0, <3>1 DEF NoneAfter, TemplateId
  <2>3. ASSUME NEW c \in Call, NEW content \in Content, NEW i \in TemplateId,
               EditTemplate(c, i, content)
        PROVE  TableShape'
    <3>1. Start(c, "edit", i, content) /\ IsListed(i)
      BY <2>3 DEF EditTemplate
    <3>2. QED
      BY <1>5, <2>2, <3>1
  <2>4. ASSUME NEW c \in Call, NEW i \in TemplateId, RemoveTemplate(c, i) PROVE TableShape'
    <3>1. Start(c, "remove", i, NoContent) /\ IsListed(i)
      BY <2>4 DEF RemoveTemplate
    <3>2. QED
      BY <1>5, <2>2, <3>1
  <2>5. QED
    BY <1>2, <1>13, <2>1, <2>3, <2>4 DEF TemplatesCall
<1>14. CASE TemplatesStep
  BY <1>3, <1>4, <1>7, <1>8, <1>9, <1>10, <1>11, <1>12, <1>14 DEF TemplatesStep
<1>15. QED
  BY <1>13, <1>14 DEF TemplatesNext

\* What Catching says once the list is there.
Caught ==
  /\ \A c, d \in Call : c # d /\ call[c].id # 0 => call[c].id # call[d].id
  /\ \A c \in Call :
       /\ call[c].at = "written" => template[call[c].id] = call[c].content
       /\ call[c].kind = "edit" => Contents(listed, call[c].id) # {}
  /\ \A i \in TemplateId :
       \/ Contents(listed, i) = Kept(template, i)
       \/ \E c \in Call : call[c].at = "written" /\ call[c].id = i

LEMMA CatchingStep ==
  ASSUME TableShape, Catching, TemplatesNext
  PROVE  Catching'
<1> USE TemplatesAreBounded, NoContentIsNone, NoCallIs
<1>0. Catching = (unsynced \subseteq {"overtaken"} =>
                    /\ load.at = "answered" =>
                         \A i \in TemplateId : Contents(load.data, i) = Kept(template, i)
                    /\ load.at = "done" => Caught)
  BY DEF Catching, Caught
<1>1. SUFFICES ASSUME unsynced' \subseteq {"overtaken"}
               PROVE  /\ load'.at = "answered" =>
                           \A i \in TemplateId : Contents(load'.data, i) = Kept(template', i)
                      /\ load'.at = "done" => Caught'
  BY DEF Catching, Caught
<1>2. unsynced \subseteq {"overtaken"}
  BY <1>1 DEF TemplatesNext, TemplatesCall, TemplatesStep, AddTemplate, EditTemplate,
     RemoveTemplate, Start, LoadRead, LoadShow, LoadFails, Find, Create, Write, Answer, CallFails,
     OthersWrite
<1>3. /\ load.at = "answered" => \A i \in TemplateId : Contents(load.data, i) = Kept(template, i)
      /\ load.at = "done" => Caught
  BY <1>0, <1>2
<1>4. \A c \in Call : call[c] \in CallType /\ Genuine(call[c]) /\ call[c].id <= created
  BY DEF TableShape, CallsGenuine
<1>45. /\ created \in 0..MaxTemplates /\ template \in Tables
       /\ load \in [at : {"closed", "asked", "answered", "done"}, data : Seq(Lines)]
       /\ load.at # "done" => \A c \in Call : call[c] = NoCall
       /\ call \in [Call -> CallType]
  BY DEF TableShape, CallsGenuine
<1>5. \A c \in Call : call[c].at = "written" => call[c].id \in TemplateId
  BY <1>4 DEF Genuine
<1>55. ASSUME NEW c \in Call, load.at = "done", UNCHANGED <<template, load>>, CallEnds(c),
             \A i \in TemplateId : \/ Contents(listed', i) = Contents(listed, i)
                                   \/ call[c].at = "written" /\ call[c].id = i,
             call[c].at = "written" => Contents(listed', call[c].id) = Kept(template, call[c].id)
      PROVE  Caught'
  <2>1. call'[c] = NoCall /\ \A d \in Call : d # c => call'[d] = call[d]
    BY <1>45, <1>55 DEF CallEnds
  <2>2. ASSUME NEW d \in Call, call'[d].kind = "edit" PROVE Contents(listed', call'[d].id) # {}
    <3>1. d # c /\ call'[d] = call[d]
      BY <2>1, <2>2
    <3>2. call[d].id \in TemplateId /\ call[d].id # 0
      BY <1>4, <2>2, <3>1 DEF Genuine, TemplateId
    <3>3. call[c].id # call[d].id
      BY <1>3, <1>55, <3>1, <3>2 DEF Caught
    <3>4. QED
      BY <1>3, <1>55, <2>2, <3>1, <3>2, <3>3 DEF Caught
  <2>3. ASSUME NEW i \in TemplateId
        PROVE  \/ Contents(listed', i) = Kept(template', i)
               \/ \E d \in Call : call'[d].at = "written" /\ call'[d].id = i
    <3>1. CASE call[c].at = "written" /\ call[c].id = i
      BY <1>55, <3>1
    <3>2. CASE ~(call[c].at = "written" /\ call[c].id = i)
      BY <1>3, <1>55, <2>1, <3>2 DEF Caught
    <3>3. QED
      BY <3>1, <3>2
  <2>4. QED
    BY <1>3, <1>55, <2>1, <2>2, <2>3 DEF Caught
<1>6. CASE LoadRead
  <2>1. load' = [at |-> "answered", data |-> FindAll] /\ template' = template
    BY <1>6 DEF LoadRead
  <2>2. QED
    BY <1>45, <2>1, FindAllTells
<1>7. CASE LoadShow
  <2>1. load' = [at |-> "done", data |-> <<>>] /\ listed' = load.data /\ UNCHANGED <<template, call>>
        /\ load.at = "answered"
    BY <1>7 DEF LoadShow
  <2>2. \A c \in Call : call'[c] = NoCall
    BY <1>45, <2>1
  <2>3. QED
    BY <1>3, <2>1, <2>2 DEF Caught
<1>8. CASE LoadFails
  BY <1>1, <1>8 DEF LoadFails
<1>9. ASSUME NEW c \in Call, Answer(c) PROVE Caught' /\ load'.at # "answered"
  <2>0. load.at = "done" /\ call[c].id \in TemplateId /\ call[c].at = "written"
    BY <1>5, <1>9, <1>45 DEF Answer
  <2>1. Contents(listed', call[c].id) = Kept(template, call[c].id)
    <3>1. Contents(listed', call[c].id)
            = IF call[c].kind = "edit" /\ Contents(listed, call[c].id) = {} THEN {}
              ELSE {call[c].content} \ {NoContent}
      BY <1>9, <2>0, AnswerCarries DEF Carries
    <3>2. template[call[c].id] = call[c].content
          /\ ~(call[c].kind = "edit" /\ Contents(listed, call[c].id) = {})
      BY <1>3, <2>0 DEF Caught
    <3>3. QED
      BY <3>1, <3>2 DEF Kept
  <2>2. \A i \in TemplateId :
          (Contents(listed', i) = Contents(listed, i)) \/ (call[c].at = "written" /\ call[c].id = i)
    BY <1>9, <2>0, AnswerCarries DEF Carries
  <2>3. QED
    BY <1>3, <1>9, <1>55, <2>0, <2>1, <2>2 DEF Answer, Caught

<1>10. ASSUME NEW c \in Call, CallFails(c) PROVE Caught' /\ load'.at # "answered"
  <2>1. load.at = "done" /\ call[c].at # "written"
    BY <1>1, <1>10, <1>45 DEF CallFails
  <2>2. QED
    BY <1>10, <1>55, <2>1 DEF CallFails, desk
<1>11. ASSUME NEW c \in Call, Find(c) PROVE Caught' /\ load'.at # "answered"
  <2>0. load.at = "done" /\ call[c].at = "find"
    BY <1>11, <1>45 DEF Find
  <2>1. CASE CallEnds(c)
    BY <1>11, <1>55, <2>0, <2>1 DEF Find, desk
  <2>2. CASE CallTo(c, "write")
    <3>1. call'[c] = [call[c] EXCEPT !.at = "write"] /\ \A d \in Call : d # c => call'[d] = call[d]
      BY <1>45, <2>2 DEF CallTo
    <3>2. call'[c].at = "write" /\ call'[c].kind = call[c].kind /\ call'[c].id = call[c].id
      BY <1>4, <3>1 DEF CallType
    <3>3. \A d \in Call : /\ call'[d].id = call[d].id /\ call'[d].kind = call[d].kind
                          /\ call'[d].at = "written" => call[d].at = "written"
                          /\ call'[d].at = "written" => call'[d].content = call[d].content
                          /\ call[d].at = "written" => call'[d].at = "written"
      BY <2>0, <3>1, <3>2
    <3>4. UNCHANGED <<template, listed, load>> /\ Caught
      BY <1>3, <1>11, <2>0 DEF Find, desk
    <3>5. ASSUME NEW i \in TemplateId
          PROVE  \/ Contents(listed, i) = Kept(template, i)
                 \/ \E d \in Call : call'[d].at = "written" /\ call'[d].id = i
      BY <3>3, <3>4 DEF Caught
    <3>6. QED
      BY <2>0, <3>3, <3>4, <3>5 DEF Caught
  <2>3. QED
    BY <1>11, <2>1, <2>2 DEF Find
<1>12. ASSUME NEW c \in Call, Create(c) PROVE Caught' /\ load'.at # "answered"
  <2>0. load.at = "done" /\ Caught
    BY <1>3, <1>12, <1>45 DEF Create
  <2>1. created' = created + 1 /\ created' \in TemplateId
    BY <1>12, <1>45 DEF Create, TemplateId
  <2>2. /\ call'[c].at = "written" /\ call'[c].kind = "add" /\ call'[c].id = created'
        /\ call'[c].content = call[c].content
        /\ \A d \in Call : d # c => call'[d] = call[d]
    BY <1>4, <1>12, <1>45 DEF Create, CallType
  <2>3. \A d \in Call : call[d].id # created'
    BY <1>4, <1>45, <2>1 DEF Genuine, CallType
  <2>4. template'[created'] = call[c].content
        /\ \A i \in TemplateId : i # created' => template'[i] = template[i]
    BY <1>12, <1>45, <2>1 DEF Create, Tables
  <2>5. ASSUME NEW d \in Call, NEW e \in Call, d # e, call'[d].id # 0 PROVE call'[d].id # call'[e].id
    BY <2>0, <2>2, <2>3, <2>5 DEF Caught
  <2>6. ASSUME NEW d \in Call
        PROVE  /\ call'[d].at = "written" => template'[call'[d].id] = call'[d].content
               /\ call'[d].kind = "edit" => Contents(listed, call'[d].id) # {}
    <3>1. CASE d = c
      BY <2>2, <2>4, <3>1
    <3>2. CASE d # c
      BY <1>5, <2>0, <2>2, <2>3, <2>4, <3>2 DEF Caught
    <3>3. QED
      BY <3>1, <3>2
  <2>7. ASSUME NEW i \in TemplateId
        PROVE  \/ Contents(listed, i) = Kept(template', i)
               \/ \E d \in Call : call'[d].at = "written" /\ call'[d].id = i
    <3>1. CASE i = created'
      BY <2>2, <3>1
    <3>2. CASE i # created'
      <4>1. ASSUME NEW d \in Call, call[d].at = "written" PROVE call'[d] = call[d]
        BY <1>12, <2>2, <4>1 DEF Create
      <4>2. QED
        BY <2>0, <2>4, <3>2, <4>1 DEF Caught, Kept
    <3>3. QED
      BY <3>1, <3>2
  <2>8. QED
    BY <1>12, <2>0, <2>5, <2>6, <2>7 DEF Create, desk, Caught
<1>13. ASSUME NEW c \in Call, Write(c) PROVE Caught' /\ load'.at # "answered"
  <2> DEFINE k == call[c].id
  <2>0. load.at = "done" /\ Caught /\ k \in TemplateId /\ k # 0 /\ call[c].at # "written"
    BY <1>3, <1>4, <1>13, <1>45 DEF Write, Genuine, TemplateId
  <2>1. /\ call'[c].at = "written" /\ call'[c].kind = call[c].kind /\ call'[c].id = k
        /\ call'[c].content = call[c].content
        /\ \A d \in Call : d # c => call'[d] = call[d]
    BY <1>4, <1>13, <1>45 DEF Write, CallTo, CallType
  <2>2. template'[k] = call[c].content /\ \A i \in TemplateId : i # k => template'[i] = template[i]
    BY <1>13, <1>45, <2>0 DEF Write, Tables
  <2>3. ASSUME NEW d \in Call
        PROVE  /\ call'[d].at = "written" => template'[call'[d].id] = call'[d].content
               /\ call'[d].kind = "edit" => Contents(listed, call'[d].id) # {}
               /\ \A e \in Call : d # e /\ call'[d].id # 0 => call'[d].id # call'[e].id
    <3>1. CASE d = c
      BY <2>0, <2>1, <2>2, <3>1 DEF Caught
    <3>2. CASE d # c
      <4>1. call[d].id # k
        BY <2>0, <3>2 DEF Caught
      <4>2. QED
        BY <1>5, <2>0, <2>1, <2>2, <3>2, <4>1 DEF Caught
    <3>3. QED
      BY <3>1, <3>2
  <2>4. ASSUME NEW i \in TemplateId
        PROVE  \/ Contents(listed, i) = Kept(template', i)
               \/ \E d \in Call : call'[d].at = "written" /\ call'[d].id = i
    <3>1. CASE i = k
      BY <2>1, <3>1
    <3>2. CASE i # k
      BY <2>0, <2>1, <2>2, <3>2 DEF Caught, Kept
    <3>3. QED
      BY <3>1, <3>2
  <2>5. QED
    BY <1>13, <2>0, <2>3, <2>4 DEF Write, desk, Caught
<1>14. ASSUME NEW i \in TemplateId, NEW content \in Content \cup {NoContent}, OthersWrite(i, content)
       PROVE  load'.at \notin {"answered", "done"}
  BY <1>1, <1>14 DEF OthersWrite, desk
<1>15. ASSUME NEW c \in Call, NEW kind \in {"add", "edit", "remove"}, NEW i \in 0..MaxTemplates,
              NEW content \in Content \cup {NoContent}, Start(c, kind, i, content),
              kind = "add" => i = 0, kind = "edit" => Contents(listed, i) # {}
       PROVE  Caught' /\ load'.at # "answered"
  <2>1. /\ call'[c].kind = kind /\ call'[c].id = i /\ call'[c].at # "written"
        /\ \A d \in Call : d # c => call'[d] = call[d]
        /\ call[c] = NoCall /\ load.at = "done"
        /\ UNCHANGED <<template, listed, load>>
    BY <1>15, <1>45 DEF Start, desk
  <2>2. \A d \in Call : i # 0 => call[d].id # i
    BY <1>1, <1>15 DEF Start
  <2>3. Caught
    BY <1>3, <2>1
  <2>4. QED
    BY <1>15, <2>1, <2>2, <2>3 DEF Caught
<1>16. CASE TemplatesCall
  <2>1. ASSUME NEW i \in TemplateId PROVE i \in 0..MaxTemplates
    BY <2>1 DEF TemplateId
  <2>2. ASSUME NEW c \in Call, NEW content \in Content, AddTemplate(c, content)
        PROVE  Caught' /\ load'.at # "answered"
    <3>1. Start(c, "add", 0, content) /\ 0 \in 0..MaxTemplates
      BY <2>2 DEF AddTemplate
    <3>2. QED
      BY <1>15, <3>1
  <2>3. ASSUME NEW c \in Call, NEW content \in Content, NEW i \in TemplateId,
               EditTemplate(c, i, content)
        PROVE  Caught' /\ load'.at # "answered"
    <3>1. Start(c, "edit", i, content) /\ Contents(listed, i) # {}
      BY <2>3, ContentsHave DEF EditTemplate, IsListed
    <3>2. QED
      BY <1>15, <2>1, <3>1
  <2>4. ASSUME NEW c \in Call, NEW i \in TemplateId, RemoveTemplate(c, i)
        PROVE  Caught' /\ load'.at # "answered"
    <3>1. Start(c, "remove", i, NoContent)
      BY <2>4 DEF RemoveTemplate
    <3>2. QED
      BY <1>15, <2>1, <3>1
  <2>5. QED
    BY <1>6, <1>16, <2>2, <2>3, <2>4 DEF TemplatesCall
<1>17. CASE TemplatesStep
  BY <1>7, <1>8, <1>9, <1>10, <1>11, <1>12, <1>13, <1>14, <1>17 DEF TemplatesStep
<1>18. QED
  BY <1>16, <1>17 DEF TemplatesNext

LEMMA InOrderStep ==
  ASSUME TableShape, InOrder, TemplatesNext
  PROVE  InOrder'
<1> USE TemplatesAreBounded, NoCallIs
<1>0. /\ created \in 0..MaxTemplates /\ listed \in Seq(Lines) /\ Sorted(load.data)
      /\ load.at # "done" => \A c \in Call : call[c] = NoCall
      /\ call \in [Call -> CallType] /\ \A c \in Call : Genuine(call[c]) /\ call[c].id <= created
      /\ AddsNew(call, listed) /\ NoneAfter(created, template, listed, load.data)
  BY DEF TableShape, CallsGenuine
<1>1. SUFFICES ASSUME "overtaken" \notin unsynced'
               PROVE  /\ Sorted(listed')
                      /\ \A c \in Call : Fresh(call'[c]) =>
                           \A i \in TemplateId : i >= call'[c].id => Contents(listed', i) = {}
  BY DEF InOrder
<1>2. "overtaken" \notin unsynced
  BY <1>1 DEF TemplatesNext, TemplatesCall, TemplatesStep, AddTemplate, EditTemplate,
     RemoveTemplate, Start, LoadRead, LoadShow, LoadFails, Find, Create, Write, Answer, CallFails,
     OthersWrite
<1>3. /\ Sorted(listed)
      /\ \A c \in Call : Fresh(call[c]) => \A i \in TemplateId : i >= call[c].id => Contents(listed, i) = {}
  BY <1>2 DEF InOrder
<1>4. ASSUME listed' = listed, NEW c \in Call, \A d \in Call : d # c => call'[d] = call[d], ~Fresh(call'[c])
      PROVE  InOrder'
  BY <1>3, <1>4 DEF InOrder
<1>5. CASE LoadRead
  BY <1>3, <1>5 DEF LoadRead
<1>6. CASE LoadShow
  <2>1. listed' = load.data /\ call' = call /\ \A c \in Call : call[c] = NoCall
    BY <1>0, <1>6 DEF LoadShow
  <2>2. QED
    BY <1>0, <2>1
<1>7. CASE LoadFails
  BY <1>3, <1>7 DEF LoadFails
<1>8. ASSUME NEW c \in Call, NEW kind, NEW i, NEW content, Start(c, kind, i, content) PROVE InOrder'
  <2>1. /\ call' = [call EXCEPT ![c] =
             [kind |-> kind, at |-> IF kind = "add" THEN "write" ELSE "find", id |-> i, content |-> content]]
        /\ listed' = listed
    BY <1>8 DEF Start, desk
  <2>2. (\A d \in Call : d # c => call'[d] = call[d]) /\ ~Fresh(call'[c])
    BY <1>0, <2>1 DEF Fresh
  <2>3. QED
    BY <1>4, <2>1, <2>2
<1>9. ASSUME NEW c \in Call, Find(c) PROVE InOrder'
  <2>1. listed' = listed /\ \A d \in Call : d # c => call'[d] = call[d]
    BY <1>0, <1>9 DEF Find, CallTo, CallEnds, desk
  <2>2. ~Fresh(call'[c])
    <3>1. CASE CallTo(c, "write")
      <4>1. call'[c] = [call[c] EXCEPT !.at = "write"] /\ call[c] \in CallType
        BY <1>0, <3>1 DEF CallTo
      <4>2. QED
        BY <4>1 DEF Fresh, CallType
    <3>2. CASE CallEnds(c)
      BY <1>0, <3>2 DEF CallEnds
    <3>3. QED
      BY <1>9, <3>1, <3>2 DEF Find
  <2>3. QED
    BY <1>4, <2>1, <2>2
<1>10. ASSUME NEW c \in Call, Create(c) PROVE InOrder'
  <2>1. created' = created + 1 /\ listed' = listed /\ call'[c].id = created'
        /\ \A d \in Call : d # c => call'[d] = call[d]
    <3>1. call' = [call EXCEPT ![c].at = "written", ![c].id = created'] /\ created' = created + 1
          /\ listed' = listed
      BY <1>10 DEF Create, desk
    <3>2. call'[c] = [call[c] EXCEPT !.at = "written", !.id = created'] /\ call[c] \in CallType
      BY <1>0, <3>1
    <3>3. QED
      BY <1>0, <3>1, <3>2 DEF CallType
  <2>2. \A i \in TemplateId : i >= created' => Contents(listed, i) = {}
    BY <1>0, <2>1 DEF NoneAfter, TemplateId
  <2>3. QED
    BY <1>3, <2>1, <2>2 DEF InOrder
<1>11. ASSUME NEW c \in Call, Write(c) PROVE InOrder'
  <2>1. call'[c] = [call[c] EXCEPT !.at = "written"] /\ call[c] \in CallType /\ call[c].kind # "add"
        /\ listed' = listed /\ \A d \in Call : d # c => call'[d] = call[d]
    BY <1>0, <1>11 DEF Write, CallTo, desk
  <2>2. ~Fresh(call'[c])
    BY <2>1 DEF Fresh, CallType
  <2>3. QED
    BY <1>4, <2>1, <2>2
<1>12. ASSUME NEW c \in Call, Answer(c) PROVE InOrder'
  <2>1. Carries(listed', listed, call[c]) /\ call[c].id \in TemplateId
        /\ call[c].kind \in {"add", "edit", "remove"}
        /\ (call[c].kind = "remove" => call[c].content = NoContent)
    BY <1>12, AnswerCarries
  <2>2. call[c].kind = "add" => Fresh(call[c])
    BY <1>12 DEF Answer, Fresh
  <2>3. Sorted(listed')
    BY <1>3, <2>1, <2>2 DEF Carries
  <2>4. call'[c] = NoCall /\ \A d \in Call : d # c => call'[d] = call[d]
    BY <1>0, <1>12 DEF Answer, CallEnds
  <2>5. ASSUME NEW d \in Call, Fresh(call'[d]), NEW i \in TemplateId, i >= call'[d].id
        PROVE  Contents(listed', i) = {}
    <3>1. d # c /\ call'[d] = call[d] /\ Fresh(call[d]) /\ Contents(listed, i) = {}
      BY <1>3, <2>4, <2>5
    <3>2. CASE call[c].kind = "add"
      <4>1. ~(call[d].id < call[c].id)
        BY <1>1, <1>12, <3>1, <3>2 DEF Answer, Overtakes, Fresh
      <4>2. call[d].id # call[c].id
        BY <1>0, <2>2, <3>1, <3>2 DEF AddsNew
      <4>3. call[d].id \in TemplateId
        BY <1>0, <3>1 DEF Genuine, Fresh
      <4>4. i # call[c].id
        BY <2>1, <2>5, <3>1, <4>1, <4>2, <4>3 DEF TemplateId
      <4>5. QED
        BY <2>1, <3>1, <4>4 DEF Carries
    <3>3. CASE call[c].kind = "edit"
      BY <2>1, <3>1, <3>3 DEF Carries
    <3>4. CASE call[c].kind = "remove"
      BY <2>1, <3>1, <3>4 DEF Carries
    <3>5. QED
      BY <2>1, <3>2, <3>3, <3>4
  <2>6. QED
    BY <2>3, <2>5 DEF InOrder
<1>13. ASSUME NEW c \in Call, CallFails(c) PROVE InOrder'
  <2>1. call'[c] = NoCall /\ listed' = listed /\ \A d \in Call : d # c => call'[d] = call[d]
    BY <1>0, <1>13 DEF CallFails, CallEnds, desk
  <2>2. QED
    BY <1>4, <2>1
<1>14. ASSUME NEW i, NEW content, OthersWrite(i, content) PROVE InOrder'
  BY <1>3, <1>14 DEF OthersWrite, desk, InOrder
<1>15. CASE TemplatesCall
  <2>1. \/ LoadRead
        \/ \E c \in Call : \E kind, i, content : Start(c, kind, i, content)
    BY <1>15 DEF TemplatesCall, AddTemplate, EditTemplate, RemoveTemplate
  <2>2. (\E c \in Call : \E kind, i, content : Start(c, kind, i, content)) => InOrder'
    BY <1>8
  <2>3. QED
    BY <1>1, <1>5, <2>1, <2>2 DEF InOrder
<1>16. CASE TemplatesStep
  <2>1. \/ LoadShow \/ LoadFails
        \/ \E c \in Call : Find(c) \/ Create(c) \/ Write(c) \/ Answer(c) \/ CallFails(c)
        \/ \E i, content : OthersWrite(i, content)
    BY <1>16 DEF TemplatesStep
  <2>2. InOrder' => /\ Sorted(listed')
                    /\ \A c \in Call : Fresh(call'[c]) =>
                         \A i \in TemplateId : i >= call'[c].id => Contents(listed', i) = {}
    BY <1>1 DEF InOrder
  <2>3. QED
    BY <1>6, <1>7, <1>9, <1>10, <1>11, <1>12, <1>13, <1>14, <2>1, <2>2
<1>17. QED
  BY <1>1, <1>15, <1>16 DEF TemplatesNext, InOrder

LEMMA TableInvStep == TableInv /\ [BackofficeNext]_allVars => TableInv'
<1>1. TableInv /\ TemplatesNext => TableInv'
  BY TableShapeStep, CatchingStep, InOrderStep DEF TableInv
<1>2. [BackofficeNext]_allVars => TemplatesNext \/ UNCHANGED templateVars
  BY DEF BackofficeNext, DeskNext, TemplatesNext, allVars, deskVars
<1>3. QED
  BY <1>1, <1>2, TablesStay

LEMMA TableInvariant == BackofficeSpec => []TableInv
<1>1. BackofficeInit => TableInv
  BY TablesStart, DesksAreBounds DEF BackofficeInit, DesksInit
<1>2. QED
  BY <1>1, TableInvStep, PTL DEF BackofficeSpec

\* In the whole back office, whatever the roster, the accounts and the form do
\* meanwhile, the page of the templates ends up listing the table.
THEOREM TemplatesListed == BackofficeSpec => []ListsTheTable
<1>1. TableInv => ListsTheTable
  <2> SUFFICES ASSUME TableInv, load.at = "done", \A c \in Call : call[c] = NoCall
               PROVE  /\ unsynced \subseteq {"overtaken"} =>
                           /\ \A i \in TemplateId :
                                {e.content : e \in {listed[k] : k \in {j \in DOMAIN listed : listed[j].id = i}}}
                                  = {template[i]} \ {NoContent}
                           /\ \A j, k \in DOMAIN listed : listed[j].id = listed[k].id => j = k
                      /\ "overtaken" \notin unsynced =>
                           \A j, k \in DOMAIN listed : j < k => listed[j].id < listed[k].id
    BY DEF ListsTheTable
  <2>1. IdsOnce(listed) /\ ("overtaken" \notin unsynced => Sorted(listed))
    BY DEF TableInv, TableShape, InOrder
  <2>2. ASSUME NEW i \in TemplateId, unsynced \subseteq {"overtaken"}
        PROVE  {e.content : e \in {listed[k] : k \in {j \in DOMAIN listed : listed[j].id = i}}}
                 = {template[i]} \ {NoContent}
    <3>1. Contents(listed, i) = Kept(template, i)
      BY <2>2, NoCallIs DEF TableInv, Catching
    <3>2. {listed[k] : k \in {j \in DOMAIN listed : listed[j].id = i}} = {x \in Listed(listed) : x.id = i}
      BY DEF Listed
    <3>3. QED
      BY <3>1, <3>2 DEF Contents, Kept
  <2>3. QED
    BY <2>1, <2>2 DEF IdsOnce, Sorted
<1>2. QED
  BY <1>1, TableInvariant, PTL
-----------------------------------------------------------------------------
(* The organizations. *)

\* Each step of the back office is a step of the organizations or leaves them.
LEMMA BackofficeStepsOrganizations == [BackofficeNext]_allVars => OrgNext \/ UNCHANGED orgVars
  BY DEF BackofficeNext, DeskNext, OrgNext, allVars, deskVars

LEMMA OrgInvariant == BackofficeSpec => []OrgInv
<1>1. BackofficeInit => OrgInv
  BY DesksAreBounds, OrgInit DEF BackofficeInit, DesksInit
<1>2. OrgInv /\ [BackofficeNext]_allVars => OrgInv'
  BY BackofficeStepsOrganizations, OrgInvStep, OrgStays
<1>3. QED
  BY <1>1, <1>2, PTL DEF BackofficeSpec

\* However calls overlap, fail or are lost, a token that was given last is the
\* one an organization keeps unless two updates of it overlapped, and the page
\* of the administrators shows the table unless others wrote or an answer was
\* lost (organizations.service.ts, ManageOrganization.tsx).
THEOREM OrganizationSavesStand == BackofficeSpec => []SavesStand
  BY OrgInvariant, SavesStandIs, PTL

\* Token, workspace, Slack client and the account of the member stay together,
\* but for the exceptions that OneWorkspace names.
THEOREM WorkspaceIsOne == BackofficeSpec => []OneWorkspace
  BY OrgInvariant, OneWorkspaceIs, PTL

\* The rows, the calls and the pages of the organizations have their types.
THEOREM OrganizationsTypeCorrect == BackofficeSpec => []OrganizationsTypeOK
<1>1. OrgInv => OrganizationsTypeOK
  BY DEF OrgInv, OrgShape
<1>2. QED
  BY <1>1, OrgInvariant, PTL
-----------------------------------------------------------------------------
(* The form of an event. *)

LEMMA RemoveAtIs ==
  ASSUME NEW S, NEW s \in Seq(S), NEW k \in DOMAIN s
  PROVE  RemoveAt(s, k) \in Seq(S) /\ Len(RemoveAt(s, k)) <= Len(s)
<1>1. Len(s) \in Nat /\ k \in 1..Len(s)
  OBVIOUS
<1>2. SubSeq(s, 1, k - 1) \in Seq(S) /\ Len(SubSeq(s, 1, k - 1)) = k - 1
  BY <1>1
<1>3. SubSeq(s, k + 1, Len(s)) \in Seq(S) /\ Len(SubSeq(s, k + 1, Len(s))) = Len(s) - k
  BY <1>1
<1>4. QED
  BY <1>1, <1>2, <1>3 DEF RemoveAt

\* What the form shows is a template, a sheet or an event, or nothing yet.
FormShape ==
  /\ FormTypeOK
  /\ form.fields \in Schemas \cup {{}}
  /\ mode = "create" => event = NoEvent /\ eventIn = "done"
  /\ mode = "edit" => event \in SavedEvent

\* Unless one of the causes that SchemaFitsSlots names strained the form, a row
\* that is new holds values of the fields alone, and a form that edits has the
\* fields of its event.
FormFits ==
  strained = {} =>
    /\ mode = "create" => form.rows \in Seq(SUBSET form.fields)
    /\ mode = "edit" /\ eventIn = "done" => form.fields = event.schema
    /\ event # NoEvent => event.infos \in Seq({event.schema})

FormInv == FormShape /\ FormFits

FormType == [fields : SUBSET Known, rows : Seq(SUBSET Known), title : BOOLEAN]
EventType == [schema : SUBSET Known, infos : Seq(SUBSET Known)]

LEMMA SchemasAreKnown == \A set \in Schemas \cup {{}} : set \in SUBSET Known
  BY DEF Known

LEMMA SavedEventIs ==
  ASSUME NEW e \in SavedEvent
  PROVE  /\ e \in EventType /\ e.schema \in Schemas /\ e # NoEvent
         /\ e.infos \in Seq({e.schema}) /\ Len(e.infos) <= MaxRows
<1>1. e.schema \in Schemas /\ e.infos \in Seq({e.schema}) /\ Len(e.infos) <= MaxRows
      /\ e \in [schema : Schemas, infos : Seq({e.schema})]
  BY EventsFit
<1>2. {e.schema} \subseteq SUBSET Known
  BY <1>1, SchemasAreKnown
<1>3. e.infos \in Seq(SUBSET Known)
  BY <1>1, <1>2
<1>4. e \in EventType
  BY <1>1, <1>2, <1>3 DEF EventType
<1>5. QED
  BY <1>1, <1>4, NoEventIsNone

LEMMA FirstFieldsIs ==
  ASSUME NEW table \in Tables
  PROVE  FirstFields(table) \in Schemas
<1> DEFINE stored == {i \in TemplateId : table[i] # NoContent}
<1>1. CASE stored # {}
  <2>1. PICK x \in stored : \A y \in stored : x <= y
    <3>1. stored \in SUBSET Nat
      BY TemplatesAreBounded DEF TemplateId
    <3> HIDE DEF stored
    <3>2. QED
      BY <1>1, <3>1, Least
  <2>2. Min(stored) \in stored
    BY <2>1 DEF Min
  <2>3. table[Min(stored)] \in Content
    BY <2>2 DEF Tables
  <2>4. QED
    BY <1>1, <2>3 DEF FirstFields, Schemas
<1>2. CASE stored = {}
  BY <1>2 DEF FirstFields, Schemas
<1>3. QED
  BY <1>1, <1>2

LEMMA NewFormIs ==
  ASSUME FormShape, NEW fields \in Schemas
  PROVE  /\ NewForm(fields) \in FormType /\ NewForm(fields).fields = fields
         /\ NewForm(fields).rows \in Seq(SUBSET fields) /\ Len(NewForm(fields).rows) <= MaxRows
<1>1. NewRow(fields) \in SUBSET fields /\ fields \in SUBSET Known
  BY SchemasAreKnown DEF NewRow
<1>2. <<NewRow(fields)>> \in Seq(SUBSET fields) /\ Len(<<NewRow(fields)>>) = 1
  BY <1>1
<1>3. <<NewRow(fields)>> \in Seq(SUBSET Known)
  BY <1>1
<1>4. form.title \in BOOLEAN
  BY DEF FormShape, FormTypeOK
<1>5. QED
  BY <1>1, <1>2, <1>3, <1>4, NoEventIsNone DEF NewForm, FormType

LEMMA FormStarts ==
  ASSUME NEW n \in Nat, FormInit(n)
  PROVE  FormInv
<1>1. event \in SavedEvent \/ event = NoEvent
  BY DEF FormInit
<1>2. event # NoEvent => event \in EventType /\ event.infos \in Seq({event.schema})
  BY <1>1, SavedEventIs
<1>3. form \in FormType /\ form.fields = {} /\ form.rows = <<>>
  BY DEF FormInit, FormType
<1>4. Empty \in Tables
  BY DEF Empty, Tables
<1>5. FormTypeOK
  BY <1>2, <1>3, <1>4, NoEventIsNone DEF FormInit, FormTypeOK, FormType, EventType
<1>6. FormShape
  BY <1>1, <1>3, <1>5, NoEventIsNone DEF FormInit, FormShape
<1>7. FormFits
  BY <1>2, <1>3 DEF FormInit, FormFits
<1>8. QED
  BY <1>6, <1>7 DEF FormInv

LEMMA FormStays == FormInv /\ UNCHANGED formVars => FormInv'
  BY DEF FormInv, FormShape, FormTypeOK, FormFits, formVars

\* A step that changes the form alone: what has to be shown of the new one.
LEMMA FormChanges ==
  ASSUME FormInv, UNCHANGED <<event, mode>>, form' \in FormType, Len(form'.rows) <= MaxRows,
         templatesIn' \in [at : {"asked", "answered", "done"}, data : Tables],
         eventIn' \in {"asked", "answered", "done", "failed"}, offered' \in Tables,
         inputsLeft' \in Nat, mode = "create" => eventIn' = "done",
         strained \subseteq strained',
         strained' \subseteq {"overwritten", "replaced", "unloaded", "headerOnly"},
         form'.fields \in Schemas \cup {{}},
         strained' = {} /\ mode = "create" => form'.rows \in Seq(SUBSET form'.fields),
         strained' = {} /\ mode = "edit" /\ eventIn' = "done" => form'.fields = event.schema
  PROVE  FormInv'
<1>1. FormTypeOK'
  BY DEF FormInv, FormShape, FormTypeOK, FormType
<1>2. FormShape'
  BY <1>1 DEF FormInv, FormShape
<1>3. FormFits'
  BY DEF FormInv, FormFits
<1>4. QED
  BY <1>2, <1>3 DEF FormInv

LEMMA AnswersKeepForm ==
  ASSUME FormInv, template \in Tables,
         TemplatesRead \/ TemplatesShown \/ TemplatesFail \/ EventRead \/ EventShown \/ EventFails
  PROVE  FormInv'
<1> USE DEF FormInv, FormShape, FormTypeOK
<1>1. form \in FormType /\ Len(form.rows) <= MaxRows
  BY DEF FormType
<1>2. CASE TemplatesRead
  BY <1>1, <1>2, FormChanges DEF TemplatesRead, FormFits
<1>3. ASSUME NEW fields \in Schemas, form' = NewForm(fields), offered' \in Tables, Open,
             templatesIn' = [at |-> "done", data |-> Empty],
             Strain("overwritten", mode = "edit" /\ eventIn = "done"),
             UNCHANGED <<event, mode, eventIn, inputsLeft>>
      PROVE  FormInv'
  <2>1. /\ form' \in FormType /\ form'.fields = fields
        /\ form'.rows \in Seq(SUBSET fields) /\ Len(form'.rows) <= MaxRows
    BY <1>3, NewFormIs
  <2>2. Empty \in Tables
    BY DEF Empty, Tables
  <2>3. /\ strained \subseteq strained'
        /\ strained' \subseteq {"overwritten", "replaced", "unloaded", "headerOnly"}
        /\ strained' = {} => ~(mode = "edit" /\ eventIn = "done")
    BY <1>3 DEF Strain
  <2>4. QED
    BY <1>3, <2>1, <2>2, <2>3, FormChanges
<1>4. CASE TemplatesShown
  <2>1. templatesIn.data \in Tables
    OBVIOUS
  <2>2. QED
    BY <1>3, <1>4, <2>1, FirstFieldsIs DEF TemplatesShown
<1>5. CASE TemplatesFail
  BY <1>3, <1>5 DEF TemplatesFail, Schemas
<1>6. CASE EventRead
  BY <1>1, <1>6, FormChanges DEF EventRead, FormFits
<1>7. CASE EventShown
  <2>1. mode = "edit" /\ event \in SavedEvent
    BY <1>7 DEF EventShown, Open
  <2>2. /\ event \in EventType /\ event.schema \in Schemas /\ Len(event.infos) <= MaxRows
    BY <2>1, SavedEventIs
  <2>3. form' \in FormType /\ form'.fields = event.schema /\ form'.rows = event.infos
    BY <1>7, <2>2 DEF EventShown, EventType, FormType
  <2>4. QED
    BY <1>7, <2>1, <2>2, <2>3, FormChanges DEF EventShown
<1>8. CASE EventFails
  <2>1. mode = "edit"
    BY <1>8 DEF EventFails, Open
  <2>2. strained' = strained \cup {"unloaded"}
    BY <1>8 DEF EventFails, Strain
  <2>3. QED
    BY <1>1, <1>8, <2>1, <2>2, FormChanges DEF EventFails
<1>9. QED
  BY <1>2, <1>4, <1>5, <1>6, <1>7, <1>8

\* What is typed: the requests and the event stay.
LEMMA InputsKeepForm ==
  ASSUME FormInv,
         \/ TypeTitle \/ AddRow \/ \E k \in DOMAIN form.rows : TypeRow(k) \/ RemoveRow(k)
         \/ \E i \in TemplateId : SelectTemplate(i)
         \/ \E s \in Upload : UploadSheet(s)
  PROVE  FormInv'
<1> USE DEF FormInv, FormShape, FormTypeOK
<1>1. form \in FormType /\ Len(form.rows) <= MaxRows /\ inputsLeft \in Nat
  BY DEF FormType
<1>2. ASSUME Input PROVE inputsLeft' \in Nat
  BY <1>1, <1>2 DEF Input
\* The fields stay, and the rows hold values of them as before.
<1>3. ASSUME Input, UNCHANGED <<event, mode, requests, offered, strained>>,
             form' \in FormType, form'.fields = form.fields, Len(form'.rows) <= MaxRows,
             form.rows \in Seq(SUBSET form.fields) => form'.rows \in Seq(SUBSET form.fields)
      PROVE  FormInv'
  BY <1>2, <1>3, FormChanges DEF requests, FormFits
<1>4. CASE TypeTitle
  <2>1. form' \in FormType /\ form'.fields = form.fields /\ form'.rows = form.rows
    BY <1>1, <1>4 DEF TypeTitle, FormType
  <2>2. QED
    BY <1>1, <1>3, <1>4, <2>1 DEF TypeTitle
<1>5. CASE AddRow
  <2> DEFINE new == Append(form.rows, NewRow(form.fields))
  <2>1. NewRow(form.fields) \in SUBSET form.fields /\ form.fields \in SUBSET Known
    BY <1>1 DEF NewRow, FormType
  <2>2. new \in Seq(SUBSET Known) /\ Len(new) = Len(form.rows) + 1
    BY <1>1, <2>1 DEF FormType
  <2>3. form.rows \in Seq(SUBSET form.fields) => new \in Seq(SUBSET form.fields)
    BY <2>1
  <2>4. form' = [form EXCEPT !.rows = new] /\ Len(form.rows) < MaxRows
    BY <1>5 DEF AddRow
  <2> HIDE DEF new
  <2>5. form' \in FormType /\ form'.fields = form.fields /\ form'.rows = new
    BY <1>1, <2>2, <2>4 DEF FormType
  <2>6. Len(new) <= MaxRows
    BY <1>1, <2>2, <2>4, NoEventIsNone DEF FormType
  <2>7. QED
    BY <1>3, <1>5, <2>3, <2>5, <2>6 DEF AddRow
<1>6. ASSUME NEW k \in DOMAIN form.rows, TypeRow(k) PROVE FormInv'
  <2> DEFINE typed == form.fields \cup {f \in form.rows[k] : f.id \notin Ids(form.fields)}
             new == [form.rows EXCEPT ![k] = typed]
  <2>1. form.rows[k] \in SUBSET Known /\ form.fields \in SUBSET Known
    BY <1>1 DEF FormType
  <2>2. new \in Seq(SUBSET Known) /\ Len(new) = Len(form.rows)
    BY <1>1, <2>1 DEF FormType
  <2>3. ASSUME form.rows \in Seq(SUBSET form.fields) PROVE new \in Seq(SUBSET form.fields)
    <3>1. form.rows[k] \in SUBSET form.fields
      BY <2>3
    <3>2. typed \in SUBSET form.fields
      BY <3>1
    <3> HIDE DEF typed
    <3>3. QED
      BY <2>3, <3>2
  <2>4. form' = [form EXCEPT !.rows = new]
    BY <1>6 DEF TypeRow
  <2> HIDE DEF new
  <2>5. form' \in FormType /\ form'.fields = form.fields /\ form'.rows = new
    BY <1>1, <2>2, <2>4 DEF FormType
  <2>6. QED
    BY <1>1, <1>3, <1>6, <2>2, <2>3, <2>5 DEF TypeRow
<1>7. ASSUME NEW k \in DOMAIN form.rows, RemoveRow(k) PROVE FormInv'
  <2> DEFINE new == RemoveAt(form.rows, k)
  <2>1. form.rows \in Seq(SUBSET Known)
    BY <1>1 DEF FormType
  <2>2. new \in Seq(SUBSET Known) /\ Len(new) <= Len(form.rows)
    BY <2>1, RemoveAtIs
  <2>3. form.rows \in Seq(SUBSET form.fields) => new \in Seq(SUBSET form.fields)
    BY RemoveAtIs
  <2>4. form' = [form EXCEPT !.rows = new]
    BY <1>7 DEF RemoveRow
  <2> HIDE DEF new
  <2>5. form' \in FormType /\ form'.fields = form.fields /\ form'.rows = new
    BY <1>1, <2>2, <2>4 DEF FormType
  <2>6. Len(new) <= MaxRows
    BY <1>1, <2>1, <2>2, NoEventIsNone
  <2>7. QED
    BY <1>3, <1>7, <2>3, <2>5, <2>6 DEF RemoveRow
<1>8. ASSUME NEW i \in TemplateId, SelectTemplate(i) PROVE FormInv'
  <2>1. offered[i] \in Content /\ offered[i] \in Schemas
    BY <1>8 DEF SelectTemplate, Tables, Schemas
  <2>2. /\ form' \in FormType /\ form'.fields = offered[i]
        /\ form'.rows \in Seq(SUBSET offered[i]) /\ Len(form'.rows) <= MaxRows
    BY <1>8, <2>1, NewFormIs DEF SelectTemplate
  <2>3. strained' = {} => mode # "edit"
    BY <1>8 DEF SelectTemplate, Strain
  <2>4. /\ strained \subseteq strained'
        /\ strained' \subseteq {"overwritten", "replaced", "unloaded", "headerOnly"}
    BY <1>8 DEF SelectTemplate, Strain
  <2>5. QED
    BY <1>2, <1>8, <2>1, <2>2, <2>3, <2>4, FormChanges DEF SelectTemplate, requests
<1>9. ASSUME NEW s \in Upload, UploadSheet(s) PROVE FormInv'
  <2> DEFINE new == IF s.rows = <<>> THEN form.rows ELSE s.rows
  <2>1. s.fields \in Schemas /\ s.fields \in SUBSET Known
    <3>1. s.fields \in {u.fields : u \in Upload}
      OBVIOUS
    <3>2. s.fields \in Schemas
      BY <3>1 DEF Schemas
    <3>3. QED
      BY <3>2, SchemasAreKnown
  <2>2. s.rows \in Seq(SUBSET s.fields) /\ Len(s.rows) <= MaxRows
    BY SheetsAreTables
  <2>3. s.rows \in Seq(SUBSET Known)
    BY <2>1, <2>2
  <2>4. new \in Seq(SUBSET Known) /\ Len(new) <= MaxRows
    BY <1>1, <2>2, <2>3 DEF FormType
  <2>5. form' = [form EXCEPT !.fields = s.fields, !.rows = new]
    BY <1>9 DEF UploadSheet
  <2>6. strained' = {} => mode # "edit" /\ new \in Seq(SUBSET s.fields)
    BY <1>9, <2>2 DEF UploadSheet
  <2> HIDE DEF new
  <2>7. form' \in FormType /\ form'.fields = s.fields /\ form'.rows = new
    BY <1>1, <2>1, <2>4, <2>5 DEF FormType
  <2>8. /\ strained \subseteq strained'
        /\ strained' \subseteq {"overwritten", "replaced", "unloaded", "headerOnly"}
    BY <1>9 DEF UploadSheet
  <2>9. QED
    BY <1>2, <1>9, <2>1, <2>4, <2>6, <2>7, <2>8, FormChanges DEF UploadSheet, requests
<1>10. QED
  BY <1>4, <1>5, <1>6, <1>7, <1>8, <1>9

\* A row that was valid and holds only values of the fields holds one of each.
LEMMA ValidRowFits ==
  ASSUME FormInv, NEW row \in SUBSET form.fields, Ids(form.fields) \subseteq Ids(row)
  PROVE  Normalised(row) = form.fields
<1>1. \A f, g \in form.fields : f.id = g.id => f = g
  BY IdsAreDistinct DEF FormInv, FormShape
<1>2. ASSUME NEW f \in form.fields PROVE f \in Normalised(row)
  <2>1. PICK g \in row : g.id = f.id
    BY DEF Ids
  <2>2. QED
    BY <1>1, <2>1 DEF Normalised, Ids
<1>3. QED
  BY <1>2 DEF Normalised

LEMMA SubmitsKeepForm ==
  ASSUME FormInv, SubmitNew \/ SubmitEdit
  PROVE  FormInv'
<1> USE DEF FormInv, FormShape, FormTypeOK
<1>1. form.rows \in Seq(SUBSET Known) /\ form.fields \in SUBSET Known
  OBVIOUS
<1>2. CASE SubmitNew
  <2> DEFINE infos == [k \in DOMAIN form.rows |-> Normalised(form.rows[k])]
  <2>1. event' = [schema |-> form.fields, infos |-> infos] /\ mode' = "closed" /\ mode = "create"
    BY <1>2 DEF SubmitNew
  <2>2. \A k \in DOMAIN form.rows : Normalised(form.rows[k]) \in SUBSET Known
    BY <1>1 DEF Normalised
  <2>3. infos \in Seq(SUBSET Known)
    BY <1>1, <2>2
  <2>4. ASSUME strained = {} PROVE infos \in Seq({form.fields})
    <3>1. form.rows \in Seq(SUBSET form.fields)
      BY <2>1, <2>4 DEF FormFits
    <3>2. \A k \in DOMAIN form.rows : Normalised(form.rows[k]) = form.fields
      BY <1>2, <3>1, ValidRowFits DEF SubmitNew, Valid
    <3>3. QED
      BY <1>1, <3>2
  <2> HIDE DEF infos
  <2>5. FormShape'
    BY <1>1, <1>2, <2>1, <2>3 DEF SubmitNew, requests
  <2>6. FormFits'
    BY <1>2, <2>1, <2>4 DEF SubmitNew, FormFits
  <2>7. QED
    BY <2>5, <2>6
<1>3. CASE SubmitEdit
  <2>1. event \in SavedEvent /\ mode = "edit" /\ mode' = "closed"
    BY <1>3 DEF SubmitEdit
  <2>2. event \in EventType /\ event # NoEvent
    BY <2>1, SavedEventIs
  <2>3. /\ event' \in EventType /\ event'.schema = form.fields /\ event'.infos = event.infos
    BY <1>1, <1>3, <2>2 DEF SubmitEdit, EventType
  <2>4. /\ strained \subseteq strained'
        /\ strained' \subseteq {"overwritten", "replaced", "unloaded", "headerOnly"}
        /\ strained' = {} => eventIn = "done"
    BY <1>3 DEF SubmitEdit, Strain
  <2>5. FormShape'
    BY <1>1, <1>3, <2>1, <2>3, <2>4 DEF SubmitEdit, requests, EventType
  <2>6. FormFits'
    BY <2>1, <2>2, <2>3, <2>4 DEF FormFits
  <2>7. QED
    BY <2>5, <2>6
<1>4. QED
  BY <1>2, <1>3

LEMMA BackofficeStepsForm == [BackofficeNext]_allVars => FormNext \/ UNCHANGED formVars
  BY DEF BackofficeNext, DeskNext, FormNext, allVars, deskVars

LEMMA FormInvStep == TableInv /\ FormInv /\ [BackofficeNext]_allVars => FormInv'
<1>1. TableInv /\ FormInv /\ FormNext => FormInv'
  BY AnswersKeepForm, InputsKeepForm, SubmitsKeepForm DEF TableInv, TableShape, FormNext, FormAlone,
     FormCall
<1>2. QED
  BY <1>1, BackofficeStepsForm, FormStays

LEMMA FormInvariant == BackofficeSpec => []FormInv
<1>1. BackofficeInit => FormInv
  BY FormStarts, DesksAreBounds DEF BackofficeInit, DesksInit
<1>2. QED
  BY <1>1, FormInvStep, TableInvariant, PTL DEF BackofficeSpec

\* The slots of an event hold one value for each of its fields, entered for that
\* field, in whatever order templates, sheets and the event itself come to the
\* form, unless one of the causes of `strained' happened (EventCreatePage.tsx,
\* SlotOptionsSection.tsx).
THEOREM SlotsFitSchema == BackofficeSpec => []SchemaFitsSlots
<1>1. FormInv => SchemaFitsSlots
  BY DEF FormInv, FormFits, SchemaFitsSlots
<1>2. QED
  BY <1>1, FormInvariant, PTL
-----------------------------------------------------------------------------
(* The page of the administrators tells what the tables hold: what page and *)
(* tables do not share is what its calls have done and not yet told.        *)

\* The invitations that were written.
Used == {i \in Invitation : invitation[i].status # "unused"}

\* What the answers on their way will do to the page.
Answered(op) == {r \in Request : adminCall[r].op = op /\ adminCall[r].at = "answered"}
Leaving == {adminCall[r].who : r \in Answered("remove")}
Coming == {adminCall[r].inv : r \in Answered("invite")}
Going == {adminCall[r].inv : r \in Answered("revoke")}

AdminCallType ==
  [op : {"none", "invite", "revoke", "remove"}, at : {"idle", "sent", "answered"},
   who : Person \cup {Nobody}, inv : Invitation \cup {NoInvitation}]
OpeningType ==
  [at : {"closed", "asked", "done"}, members : [got : BOOLEAN, all : SUBSET Person],
   invitations : [got : BOOLEAN, all : SUBSET Invitation]]

\* A call of the page is the request that it was sent as.
Traced(r) ==
  /\ \/ adminCall[r] = NoAdminCall
     \/ /\ adminCall[r].op \in {"invite", "revoke", "remove"}
        /\ adminCall[r].at \in {"sent", "answered"}
  /\ adminCall[r].at = "sent" =>
       /\ req[r].op = adminCall[r].op /\ req[r].who = adminCall[r].who
       /\ adminCall[r].op = "revoke" => req[r].inv = adminCall[r].inv
  /\ adminCall[r].op = "revoke" =>
       /\ adminCall[r].inv \in Used
       /\ adminCall[r].at = "answered" => invitation[adminCall[r].inv].status # "PENDING"

\* An invitation that the page does not know yet is no other call's.
Novel ==
  /\ \A q, r \in Request : adminCall[q].op = "invite" /\ adminCall[r].op = "invite" => q = r
  /\ \A r \in Answered("invite") :
       /\ adminCall[r].inv \in Used \ invitations
       /\ \A q \in Request : adminCall[q].op = "revoke" => adminCall[q].inv # adminCall[r].inv

AdminPageShape ==
  /\ members \subseteq Person /\ invitations \subseteq Used
  /\ opening \in OpeningType /\ opening.invitations.all \subseteq Used
  /\ adminCall \in [Request -> AdminCallType]
  /\ opening.at # "done" => \A r \in Request : adminCall[r] = NoAdminCall
  /\ \A r \in Request : Traced(r)
  /\ Novel

\* As long as only logins interfere, the page is behind in one direction; and if
\* nothing does, it is behind by the answers only.
Agreeing ==
  /\ drift \subseteq {"logins"} =>
       /\ opening.at = "asked" =>
            /\ opening.members.got => opening.members.all \subseteq Admins
            /\ opening.invitations.got => Pending \subseteq opening.invitations.all
       /\ opening.at = "done" =>
            /\ members \ Leaving \subseteq Admins
            /\ Pending \subseteq invitations \cup Coming
  /\ drift = {} =>
       /\ opening.at = "asked" =>
            /\ opening.members.got => opening.members.all = Admins
            /\ opening.invitations.got => opening.invitations.all = Pending
       /\ opening.at = "done" =>
            /\ members \ Leaving = Admins
            /\ (invitations \cup Coming) \ Going = Pending

AdminPageInv == AdminPageShape /\ Agreeing
-----------------------------------------------------------------------------
LEMMA NoAdminCallIs ==
  NoAdminCall \in AdminCallType /\ NoAdminCall.op = "none" /\ NoAdminCall.at = "idle"
  BY DEF NoAdminCall, AdminCallType

LEMMA AdminPageStarts == BackofficeInit => AdminPageInv
<1> SUFFICES ASSUME BackofficeInit PROVE AdminPageInv
  OBVIOUS
<1>1. AdminPageInit
  BY DEF BackofficeInit
<1>2. AdminPageShape
  <2>1. /\ \A r \in Request : adminCall[r] = NoAdminCall
        /\ adminCall \in [Request -> AdminCallType]
        /\ opening.at # "done" /\ opening \in OpeningType /\ opening.invitations.all = {}
        /\ members = {} /\ invitations = {}
    BY <1>1, NoAdminCallIs DEF AdminPageInit, OpeningType, Unread
  <2>2. (\A r \in Request : Traced(r)) /\ Novel
    BY <2>1, NoAdminCallIs DEF Traced, Novel, Answered
  <2>3. QED
    BY <2>1, <2>2 DEF AdminPageShape
<1>3. Agreeing
  BY <1>1 DEF AdminPageInit, Agreeing, Unread
<1>4. QED
  BY <1>2, <1>3 DEF AdminPageInv
-----------------------------------------------------------------------------
(* What a step of the accounts does to the two lists. *)

\* The tables change by five actions, each of which moves its request.
LEMMA TablesChange ==
  ASSUME Sound, [AccountsNext]_accountVars
  PROVE  \/ UNCHANGED <<role, invitation>>
         \/ \E r \in Request :
              /\ req'[r] # req[r]
              /\ \/ InviteCreate(r) \/ RevokeWrite(r) \/ RemoveWrite(r)
                 \/ LoginAccept(r) \/ LoginCommit(r)
<1>1. \/ UNCHANGED <<role, invitation>>
      \/ \E r \in Request : \/ InviteCreate(r) \/ RevokeWrite(r) \/ RemoveWrite(r)
                            \/ LoginAccept(r) \/ LoginCommit(r)
  BY DEF AccountsNext, accountVars, rows, Arrival, InviteBegin, RemoveBegin, RevokeBegin, LoginBegin,
     Begin, AdminStep, InviteCheckAdmin, InviteCheckPending, RevokeRead, RemoveRead, RemoveCount,
     LoginStep, LoginFindAccount, LoginFindUser, LoginLink, LoginFindInvitation,
     LoginAcceptRefused, LoginIssue, LoginReadRoster, LoginRegister, CutShort, LoginInternal, Logout
<1>2. ASSUME NEW r \in Request, InviteCreate(r) \/ RevokeWrite(r) \/ RemoveWrite(r) \/ LoginCommit(r)
      PROVE  req'[r] # req[r]
  <2>1. End(r) /\ req[r].at \in {"create", "revoke", "demote", "commit"}
    BY <1>2 DEF InviteCreate, RevokeWrite, RemoveWrite, LoginCommit
  <2>2. req'[r] = Idle
    BY <2>1, Ended DEF Sound
  <2>3. QED
    BY <2>1, <2>2, IdleIs
<1>3. ASSUME NEW r \in Request, LoginAccept(r) PROVE req'[r] # req[r]
  <2>1. MoveTo(r, "issue") /\ req[r].at = "accept"
    BY <1>3 DEF LoginAccept
  <2>2. req'[r].at = "issue"
    BY <2>1, Moved DEF Sound
  <2>3. QED
    BY <2>1, <2>2
<1>4. QED
  BY <1>1, <1>2, <1>3

\* An invitation is created: it was unused, and it is pending.
LEMMA CreateShows ==
  ASSUME Sound, NEW r \in Request, InviteCreate(r)
  PROVE  /\ Admins' = Admins
         /\ \E i \in Invitation \ Used :
              /\ Used' = Used \cup {i} /\ Pending' = Pending \cup {i}
              /\ Told(r) = i
              /\ \A j \in Used : invitation'[j] = invitation[j]
<1>1. Admins' = Admins
  BY DEF InviteCreate, Admins
<1>2. PICK i \in Invitation :
        /\ invitation[i] = Unsent
        /\ invitation'[i] = [to |-> req[r].who, by |-> req[r].by, status |-> "PENDING",
                             acceptedBy |-> Nobody]
        /\ \A j \in Invitation : j # i => invitation'[j] = invitation[j]
  BY Creating DEF Sound
<1>3. invitation[i].status = "unused" /\ invitation'[i].status = "PENDING"
  BY <1>2 DEF Unsent
<1>4. Told(r) = i
  BY <1>2, <1>3 DEF Told, InviteCreate
<1>5. Used' = Used \cup {i} /\ Pending' = Pending \cup {i}
  BY <1>2, <1>3 DEF Used, Pending
<1>6. QED
  BY <1>1, <1>2, <1>3, <1>4, <1>5 DEF Used

\* An invitation is revoked.
LEMMA RevokeShows ==
  ASSUME Sound, NEW r \in Request, RevokeWrite(r)
  PROVE  /\ Admins' = Admins /\ Used' = Used
         /\ Pending' = Pending \ {req[r].inv}
         /\ invitation'[req[r].inv].status = "REVOKED"
<1>1. Admins' = Admins
  BY DEF RevokeWrite, Admins
<1>2. req[r].inv \in Invitation /\ invitation[req[r].inv] \in Sent
  BY Holds DEF Sound, Addressed, RevokeWrite
<1>3. /\ invitation'[req[r].inv].status = "REVOKED"
      /\ \A j \in Invitation : j # req[r].inv => invitation'[j] = invitation[j]
  BY <1>2, Revoking DEF Sound
<1>4. invitation[req[r].inv].status # "unused"
  BY <1>2 DEF Sent
<1>5. QED
  BY <1>1, <1>3, <1>4 DEF Used, Pending

\* An administrator is removed.
LEMMA RemoveShows ==
  ASSUME Sound, NEW r \in Request, RemoveWrite(r)
  PROVE  /\ Admins' = Admins \ {req[r].who} /\ UNCHANGED invitation
         /\ role'[req[r].who] = "USER"
<1>1. req[r].who \in Person
  BY Holds, OpAt DEF Sound, RemoveWrite
<1>2. QED
  BY <1>1 DEF RemoveWrite, Admins, Sound, Shape

\* A login takes no administrator away, and makes nothing pending.
LEMMA LoginShows ==
  ASSUME Sound, NEW r \in Request, LoginAccept(r) \/ LoginCommit(r)
  PROVE  /\ Admins \subseteq Admins' /\ Used' = Used /\ Pending' \subseteq Pending
         /\ req[r].op = "login"
<1>1. req[r].op = "login"
  BY OpAt DEF Sound, LoginAccept, LoginCommit
<1>2. CASE LoginAccept(r) \/ req[r].inv # NoInvitation
  <2>1. /\ req[r].inv \in Invitation /\ req[r].who \in Person /\ invitation[req[r].inv] \in Sent
        /\ Accept(req[r].inv, req[r].who) /\ Promote(req[r].who)
    BY <1>2, AcceptsOwn DEF Sound
  <2>2. /\ invitation'[req[r].inv].status = "ACCEPTED" /\ invitation[req[r].inv].status # "unused"
        /\ \A j \in Invitation : j # req[r].inv => invitation'[j] = invitation[j]
    BY <2>1, Accepting DEF Sound, Sent
  <2>3. Admins \subseteq Admins'
    BY <2>1 DEF Promote, Admins, Sound, Shape
  <2>4. QED
    BY <1>1, <2>2, <2>3 DEF Used, Pending
<1>3. CASE LoginCommit(r) /\ req[r].inv = NoInvitation
  <2>1. UNCHANGED invitation /\ Admins \subseteq Admins'
    BY <1>3 DEF LoginCommit, Admins, Sound, Shape
  <2>2. QED
    BY <1>1, <2>1 DEF Used, Pending
<1>4. QED
  BY <1>2, <1>3

\* A revocation goes on about the same invitation.
LEMMA RevocationGoesOn ==
  ASSUME Sound, [AccountsNext]_accountVars, NEW r \in Request, req[r].op = "revoke",
         req'[r] # Idle
  PROVE  req'[r].inv = req[r].inv
<1> USE DEF Sound
<1>1. ASSUME NEW q \in Request, Arrival(q) PROVE req'[r].inv = req[r].inv
  BY <1>1, ArrivalIs, IdleIs DEF Arrived
<1>2. ASSUME NEW q \in Request, NEW s, MoveTo(q, s) PROVE req'[r].inv = req[r].inv
  <2>1. CASE q = r
    BY <1>2, <2>1, Moved
  <2>2. CASE q # r
    BY <1>2, <2>2, Moved
  <2>3. QED
    BY <2>1, <2>2
<1>3. ASSUME NEW q \in Request, End(q) PROVE req'[r].inv = req[r].inv
  BY <1>3, Ended
<1>4. ASSUME NEW q \in Request, NEW s, NEW i, MoveWith(q, s, i), req[q].op = "login"
      PROVE  req'[r].inv = req[r].inv
  <2>1. q # r
    BY <1>4
  <2>2. QED
    BY <1>4, <2>1, MovedWith
<1>5. ASSUME NEW q \in Request, AdminStep(q) PROVE req'[r].inv = req[r].inv
  BY <1>2, <1>3, <1>5 DEF AdminStep, InviteCheckAdmin, InviteCheckPending, InviteCreate,
     RevokeRead, RevokeWrite, RemoveRead, RemoveCount, RemoveWrite
<1>6. ASSUME NEW q \in Request, LoginFindInvitation(q) \/ LoginRegister(q)
      PROVE  req'[r].inv = req[r].inv
  <2>1. req[q].op = "login"
    BY <1>6, OpAt DEF LoginFindInvitation, LoginRegister
  <2>2. QED
    BY <1>2, <1>4, <1>6, <2>1 DEF LoginFindInvitation, LoginRegister
<1>7. ASSUME NEW q \in Request, LoginStep(q) PROVE req'[r].inv = req[r].inv
  BY <1>2, <1>3, <1>6, <1>7 DEF LoginStep, LoginFindAccount, LoginFindUser, LoginLink, LoginAccept,
     LoginAcceptRefused, LoginIssue, LoginReadRoster, LoginCommit
<1>8. QED
  BY <1>1, <1>3, <1>5, <1>7 DEF AccountsNext, accountVars, CutShort, LoginInternal, Logout

\* Where one request ends, the others stay.
LEMMA OthersStay ==
  ASSUME Sound, [AccountsNext]_accountVars, NEW r \in Request, EndsNow(r)
  PROVE  \A q \in Request : q # r => req'[q] = req[q]
<1>1. PICK k \in Request : Arrived(k) \/ Goes(k)
  BY RequestsChange DEF EndsNow, Sound
<1>2. \A q \in Request : q # k => req'[q] = req[q]
  BY <1>1 DEF Arrived, Goes
<1>3. k = r
  BY <1>2 DEF EndsNow
<1>4. QED
  BY <1>2, <1>3
-----------------------------------------------------------------------------
(* What becomes of the answers on their way. *)

\* A call ends, or one that was no answer yet becomes one or is begun.
LEMMA CallGone ==
  ASSUME AdminPageShape, NEW r \in Request, adminCall' = [adminCall EXCEPT ![r] = NoAdminCall]
  PROVE  /\ \A op \in {"invite", "revoke", "remove"} : Answered(op)' = Answered(op) \ {r}
         /\ Leaving' \subseteq Leaving /\ Coming' \subseteq Coming /\ Going' \subseteq Going
         /\ Leaving \subseteq Leaving' \cup {adminCall[r].who : q \in {r} \cap Answered("remove")}
         /\ Coming \subseteq Coming' \cup {adminCall[r].inv : q \in {r} \cap Answered("invite")}
         /\ Going \subseteq Going' \cup {adminCall[r].inv : q \in {r} \cap Answered("revoke")}
<1>1. adminCall'[r] = NoAdminCall /\ \A q \in Request : q # r => adminCall'[q] = adminCall[q]
  BY DEF AdminPageShape
<1>2. \A op \in {"invite", "revoke", "remove"} : Answered(op)' = Answered(op) \ {r}
  BY <1>1, NoAdminCallIs DEF Answered
<1>3. Leaving' = {adminCall[q].who : q \in Answered("remove") \ {r}}
      /\ Coming' = {adminCall[q].inv : q \in Answered("invite") \ {r}}
      /\ Going' = {adminCall[q].inv : q \in Answered("revoke") \ {r}}
  <2>1. \A op \in {"invite", "revoke", "remove"} : \A q \in Answered(op)' : adminCall'[q] = adminCall[q]
    BY <1>1, <1>2 DEF Answered
  <2>2. QED
    BY <1>2, <2>1 DEF Leaving, Coming, Going
<1>4. QED
  BY <1>2, <1>3 DEF Leaving, Coming, Going

LEMMA CallSent ==
  ASSUME AdminPageShape, NEW r \in Request, adminCall[r].at # "answered",
         NEW x, x.at # "answered", adminCall' = [adminCall EXCEPT ![r] = x]
  PROVE  /\ \A op : Answered(op)' = Answered(op)
         /\ Leaving' = Leaving /\ Coming' = Coming /\ Going' = Going
<1>1. adminCall'[r] = x /\ \A q \in Request : q # r => adminCall'[q] = adminCall[q]
  BY DEF AdminPageShape
<1>2. \A op : Answered(op)' = Answered(op)
  BY <1>1 DEF Answered
<1>3. \A op : \A q \in Answered(op) : adminCall'[q] = adminCall[q]
  BY <1>1 DEF Answered
<1>4. QED
  BY <1>2, <1>3 DEF Leaving, Coming, Going

LEMMA CallAnswered ==
  ASSUME AdminPageShape, NEW r \in Request, adminCall[r].at = "sent",
         NEW i \in Invitation \cup {NoInvitation},
         adminCall' = [adminCall EXCEPT ![r].at = "answered", ![r].inv = i]
  PROVE  /\ adminCall'[r].op = adminCall[r].op /\ adminCall'[r].who = adminCall[r].who
         /\ adminCall'[r].inv = i /\ adminCall'[r].at = "answered"
         /\ adminCall' \in [Request -> AdminCallType]
         /\ \A q \in Request : q # r => adminCall'[q] = adminCall[q]
         /\ \A op : Answered(op)' = Answered(op) \cup (IF adminCall[r].op = op THEN {r} ELSE {})
         /\ Leaving' = Leaving \cup (IF adminCall[r].op = "remove" THEN {adminCall[r].who} ELSE {})
         /\ Coming' = Coming \cup (IF adminCall[r].op = "invite" THEN {i} ELSE {})
         /\ Going' = Going \cup (IF adminCall[r].op = "revoke" THEN {i} ELSE {})
<1> DEFINE a == adminCall[r]
           b == [a EXCEPT !.at = "answered", !.inv = i]
<1>1. a \in AdminCallType
  BY DEF AdminPageShape
<1>2. b \in AdminCallType /\ b.op = a.op /\ b.who = a.who /\ b.inv = i /\ b.at = "answered"
  <2> HIDE DEF a
  <2>1. QED
    BY <1>1 DEF AdminCallType
<1>3. adminCall'[r] = b /\ \A q \in Request : q # r => adminCall'[q] = adminCall[q]
  BY DEF AdminPageShape
<1>4. adminCall' \in [Request -> AdminCallType]
  BY <1>2, <1>3 DEF AdminPageShape
<1>5. /\ adminCall'[r].op = adminCall[r].op /\ adminCall'[r].who = adminCall[r].who
      /\ adminCall'[r].inv = i /\ adminCall'[r].at = "answered"
  BY <1>2, <1>3
<1> HIDE DEF a, b
<1>6. ASSUME NEW op
      PROVE  Answered(op)' = Answered(op) \cup (IF adminCall[r].op = op THEN {r} ELSE {})
  BY <1>3, <1>5 DEF Answered
<1>7. \A op : \A q \in Answered(op) : q # r /\ adminCall'[q] = adminCall[q]
  BY <1>3 DEF Answered
<1>8. Leaving' = Leaving \cup (IF adminCall[r].op = "remove" THEN {adminCall[r].who} ELSE {})
  <2>1. Answered("remove")' = Answered("remove") \cup (IF adminCall[r].op = "remove" THEN {r} ELSE {})
    BY <1>6
  <2>2. Leaving' = {adminCall'[q].who : q \in Answered("remove")'}
    BY DEF Leaving
  <2>3. \A q \in Answered("remove") : adminCall'[q] = adminCall[q]
    BY <1>7
  <2>4. CASE adminCall[r].op = "remove"
    <3>1. adminCall[r].who \in Leaving'
      BY <1>5, <2>1, <2>2, <2>4
    <3>2. \A x \in Leaving : x \in Leaving'
      BY <2>1, <2>2, <2>3, <2>4 DEF Leaving
    <3>3. ASSUME NEW x \in Leaving' PROVE x \in Leaving \/ x = adminCall[r].who
      <4>1. PICK q \in Answered("remove") \cup {r} : x = adminCall'[q].who
        BY <2>1, <2>2, <2>4, <3>3
      <4>2. QED
        BY <1>5, <2>3, <4>1 DEF Leaving
    <3>4. QED
      BY <2>4, <3>1, <3>2, <3>3
  <2>5. CASE adminCall[r].op # "remove"
    BY <2>1, <2>2, <2>3, <2>5 DEF Leaving
  <2>6. QED
    BY <2>4, <2>5
<1>9. Coming' = Coming \cup (IF adminCall[r].op = "invite" THEN {i} ELSE {})
  <2>1. Answered("invite")' = Answered("invite") \cup (IF adminCall[r].op = "invite" THEN {r} ELSE {})
    BY <1>6
  <2>2. Coming' = {adminCall'[q].inv : q \in Answered("invite")'}
    BY DEF Coming
  <2>3. \A q \in Answered("invite") : adminCall'[q] = adminCall[q]
    BY <1>7
  <2>4. CASE adminCall[r].op = "invite"
    <3>1. i \in Coming'
      BY <1>5, <2>1, <2>2, <2>4
    <3>2. \A x \in Coming : x \in Coming'
      BY <2>1, <2>2, <2>3, <2>4 DEF Coming
    <3>3. ASSUME NEW x \in Coming' PROVE x \in Coming \/ x = i
      <4>1. PICK q \in Answered("invite") \cup {r} : x = adminCall'[q].inv
        BY <2>1, <2>2, <2>4, <3>3
      <4>2. QED
        BY <1>5, <2>3, <4>1 DEF Coming
    <3>4. QED
      BY <2>4, <3>1, <3>2, <3>3
  <2>5. CASE adminCall[r].op # "invite"
    BY <2>1, <2>2, <2>3, <2>5 DEF Coming
  <2>6. QED
    BY <2>4, <2>5
<1>10. Going' = Going \cup (IF adminCall[r].op = "revoke" THEN {i} ELSE {})
  <2>1. Answered("revoke")' = Answered("revoke") \cup (IF adminCall[r].op = "revoke" THEN {r} ELSE {})
    BY <1>6
  <2>2. Going' = {adminCall'[q].inv : q \in Answered("revoke")'}
    BY DEF Going
  <2>3. \A q \in Answered("revoke") : adminCall'[q] = adminCall[q]
    BY <1>7
  <2>4. CASE adminCall[r].op = "revoke"
    <3>1. i \in Going'
      BY <1>5, <2>1, <2>2, <2>4
    <3>2. \A x \in Going : x \in Going'
      BY <2>1, <2>2, <2>3, <2>4 DEF Going
    <3>3. ASSUME NEW x \in Going' PROVE x \in Going \/ x = i
      <4>1. PICK q \in Answered("revoke") \cup {r} : x = adminCall'[q].inv
        BY <2>1, <2>2, <2>4, <3>3
      <4>2. QED
        BY <1>5, <2>3, <4>1 DEF Going
    <3>4. QED
      BY <2>4, <3>1, <3>2, <3>3
  <2>5. CASE adminCall[r].op # "revoke"
    BY <2>1, <2>2, <2>3, <2>5 DEF Going
  <2>6. QED
    BY <2>4, <2>5
<1>11. QED
  BY <1>3, <1>4, <1>5, <1>6, <1>8, <1>9, <1>10
-----------------------------------------------------------------------------
(* The steps of the page. *)

LEMMA AnswerKeeps ==
  ASSUME AdminPageInv, NEW r \in Request, AnswerShown(r), UNCHANGED accountVars
  PROVE  AdminPageInv'
<1> USE DEF AdminPageInv
<1> DEFINE a == adminCall[r]
<1>1. /\ a.at = "answered" /\ r \in Request /\ opening.at = "done"
      /\ a.op \in {"invite", "revoke", "remove"}
      /\ adminCall' = [adminCall EXCEPT ![r] = NoAdminCall]
      /\ UNCHANGED <<opening, drift>>
  BY NoAdminCallIs DEF AnswerShown, AdminPageShape, Traced
<1>2. adminCall'[r] = NoAdminCall /\ \A q \in Request : q # r => adminCall'[q] = adminCall[q]
  BY <1>1 DEF AdminPageShape
<1>3. Admins' = Admins /\ Pending' = Pending /\ Used' = Used /\ UNCHANGED <<req, invitation>>
  BY DEF accountVars, rows, Admins, Pending, Used
<1>4. /\ \A op \in {"invite", "revoke", "remove"} : Answered(op)' = Answered(op) \ {r}
      /\ Leaving' \subseteq Leaving /\ Coming' \subseteq Coming /\ Going' \subseteq Going
      /\ Leaving \subseteq Leaving' \cup {a.who : q \in {r} \cap Answered("remove")}
      /\ Coming \subseteq Coming' \cup {a.inv : q \in {r} \cap Answered("invite")}
      /\ Going \subseteq Going' \cup {a.inv : q \in {r} \cap Answered("revoke")}
  BY <1>1, CallGone
<1>5. \A q \in Request : Traced(q)'
  <2>1. Traced(r)'
    BY <1>2, NoAdminCallIs DEF Traced
  <2>2. ASSUME NEW q \in Request, q # r PROVE Traced(q)'
    BY <1>2, <1>3, <2>2 DEF Traced, AdminPageShape
  <2>3. QED
    BY <2>1, <2>2
<1>6. adminCall' \in [Request -> AdminCallType]
  BY <1>1, NoAdminCallIs DEF AdminPageShape
<1>7. CASE a.op = "invite"
  <2>1. members' = members /\ invitations' = invitations \cup {a.inv}
    BY <1>7 DEF AnswerShown
  <2>2. r \in Answered("invite") /\ a.inv \in Used \ invitations
    BY <1>1, <1>7 DEF Answered, AdminPageShape, Novel
  <2>3. Answered("invite")' = {}
    BY <1>4, <1>7 DEF AdminPageShape, Novel, Answered
  <2>4. Novel'
    BY <1>2, <2>3, NoAdminCallIs DEF AdminPageShape, Novel
  <2>5. AdminPageShape'
    BY <1>1, <1>3, <1>5, <1>6, <2>1, <2>2, <2>4 DEF AdminPageShape
  <2>6. Leaving' = Leaving /\ Going' = Going
    BY <1>1, <1>4, <1>7 DEF Answered
  <2>7. invitations' \cup Coming' = invitations \cup Coming
    BY <1>4, <2>1, <2>2 DEF Coming
  <2>8. Agreeing'
    BY <1>1, <1>3, <2>1, <2>6, <2>7 DEF Agreeing
  <2>9. QED
    BY <2>5, <2>8
<1>8. CASE a.op = "revoke"
  <2>1. members' = members /\ invitations' = invitations \ {a.inv}
    BY <1>8 DEF AnswerShown
  <2>2. Answered("invite")' = Answered("invite") /\ r \notin Answered("invite") /\ r \notin Answered("remove")
    BY <1>4, <1>8 DEF Answered
  <2>3. Novel'
    BY <1>2, <1>3, <2>1, <2>2, NoAdminCallIs DEF AdminPageShape, Novel, Answered
  <2>4. AdminPageShape'
    BY <1>1, <1>3, <1>5, <1>6, <2>1, <2>3 DEF AdminPageShape
  <2>5. Leaving' = Leaving /\ Coming' = Coming
    BY <1>4, <2>2
  <2>6. a.inv \notin Coming /\ a.inv \in Going /\ a.inv \notin Pending
    BY <1>1, <1>8 DEF AdminPageShape, Novel, Coming, Going, Answered, Traced, Pending
  <2>7. (invitations' \cup Coming') \ Going' = (invitations \cup Coming) \ Going
    BY <1>4, <2>1, <2>5, <2>6
  <2>8. Agreeing'
    BY <1>1, <1>3, <2>1, <2>5, <2>6, <2>7 DEF Agreeing
  <2>9. QED
    BY <2>4, <2>8
<1>9. CASE a.op = "remove"
  <2>1. members' = members \ {a.who} /\ invitations' = invitations
    BY <1>9 DEF AnswerShown
  <2>2. Answered("invite")' = Answered("invite") /\ r \notin Answered("invite") /\ r \notin Answered("revoke")
    BY <1>4, <1>9 DEF Answered
  <2>3. Novel'
    BY <1>2, <1>3, <2>1, <2>2, NoAdminCallIs DEF AdminPageShape, Novel, Answered
  <2>4. AdminPageShape'
    BY <1>1, <1>3, <1>5, <1>6, <2>1, <2>3 DEF AdminPageShape
  <2>5. Going' = Going /\ Coming' = Coming
    BY <1>4, <2>2
  <2>6. members' \ Leaving' = members \ Leaving
    <3>1. a.who \in Leaving
      BY <1>1, <1>9 DEF Leaving, Answered
    <3>2. QED
      BY <1>4, <2>1, <3>1
  <2>7. Agreeing'
    BY <1>1, <1>3, <2>1, <2>5, <2>6 DEF Agreeing
  <2>8. QED
    BY <2>4, <2>7
<1>10. QED
  BY <1>1, <1>7, <1>8, <1>9

LEMMA PageStepKeeps ==
  ASSUME AdminPageInv, AdminPageStep, UNCHANGED accountVars
  PROVE  AdminPageInv'
<1> USE DEF AdminPageInv
<1>1. Admins' = Admins /\ Pending' = Pending /\ Used' = Used /\ UNCHANGED <<req, invitation>>
      /\ Pending \subseteq Used /\ Used \subseteq Invitation /\ Admins \subseteq Person
  BY DEF accountVars, rows, Admins, Pending, Used
<1>2. ASSUME UNCHANGED adminCall
      PROVE  /\ \A op : Answered(op)' = Answered(op)
             /\ Leaving' = Leaving /\ Coming' = Coming /\ Going' = Going
             /\ \A r \in Request : Traced(r)'
             /\ invitations' = invitations => Novel'
  <2>1. \A op : Answered(op)' = Answered(op)
    BY <1>2 DEF Answered
  <2>2. Leaving' = Leaving /\ Coming' = Coming /\ Going' = Going
    BY <1>2, <2>1 DEF Leaving, Coming, Going
  <2>3. \A r \in Request : Traced(r)'
    BY <1>1, <1>2 DEF Traced, AdminPageShape
  <2>4. invitations' = invitations => Novel'
    BY <1>1, <1>2, <2>1 DEF AdminPageShape, Novel
  <2>5. QED
    BY <2>1, <2>2, <2>3, <2>4
<1>3. ASSUME UNCHANGED <<members, invitations, opening, adminCall, drift>> PROVE AdminPageInv'
  <2>1. AdminPageShape'
    BY <1>1, <1>2, <1>3 DEF AdminPageShape
  <2>2. Agreeing'
    BY <1>1, <1>2, <1>3 DEF Agreeing
  <2>3. QED
    BY <2>1, <2>2
<1>4. CASE GetAdminMembers
  <2>1. /\ opening.at = "asked" /\ opening'.at = "asked" /\ opening' \in OpeningType
        /\ opening'.members.all = Admins /\ opening'.invitations = opening.invitations
        /\ UNCHANGED <<shown, adminCall, drift>>
    BY <1>1, <1>4 DEF GetAdminMembers, AdminPageShape, OpeningType
  <2>2. QED
    BY <1>1, <1>2, <2>1 DEF AdminPageShape, Agreeing, shown
<1>5. CASE GetInvitations
  <2>1. /\ opening.at = "asked" /\ opening'.at = "asked" /\ opening' \in OpeningType
        /\ opening'.invitations.all = Pending /\ opening'.members = opening.members
        /\ UNCHANGED <<shown, adminCall, drift>>
    BY <1>1, <1>5 DEF GetInvitations, AdminPageShape, OpeningType
  <2>2. QED
    BY <1>1, <1>2, <2>1 DEF AdminPageShape, Agreeing, shown
<1>6. ASSUME opening' = [at |-> "done", members |-> Unread, invitations |-> Unread]
      PROVE  opening' \in OpeningType /\ opening'.at = "done" /\ opening'.invitations.all = {}
  BY <1>6 DEF OpeningType, Unread
<1>7. CASE FetchShown
  <2>1. /\ \A r \in Request : adminCall[r] = NoAdminCall
        /\ \A op \in {"invite", "revoke", "remove"} : Answered(op) = {}
    BY <1>7, NoAdminCallIs DEF FetchShown, AdminPageShape, Answered
  <2>2. Leaving' = {} /\ Coming' = {} /\ Going' = {}
    BY <1>2, <1>7, <2>1 DEF FetchShown, Leaving, Coming, Going
  <2>3. Novel'
    BY <1>2, <1>7, <2>1, NoAdminCallIs DEF FetchShown, Novel
  <2>4. /\ members' = opening.members.all /\ invitations' = opening.invitations.all
        /\ opening.members.all \subseteq Person
        /\ UNCHANGED <<adminCall, drift>> /\ opening.at = "asked"
        /\ opening.members.got /\ opening.invitations.got
    BY <1>7 DEF FetchShown, AdminPageShape, OpeningType
  <2>5. AdminPageShape'
    BY <1>1, <1>2, <1>6, <1>7, <2>3, <2>4 DEF FetchShown, AdminPageShape
  <2>6. Agreeing'
    BY <1>1, <1>6, <1>7, <2>2, <2>4 DEF FetchShown, Agreeing
  <2>7. QED
    BY <2>5, <2>6
<1>8. CASE FetchRejected
  <2>1. /\ UNCHANGED <<members, invitations, adminCall>> /\ "lost" \in drift'
    BY <1>8 DEF FetchRejected, shown
  <2>2. QED
    BY <1>1, <1>2, <1>6, <1>8, <2>1 DEF FetchRejected, AdminPageShape, Agreeing
<1>9. CASE OpenInvite \/ CloseInvite
  BY <1>3, <1>9 DEF OpenInvite, CloseInvite
<1>10. QED
  BY <1>4, <1>5, <1>7, <1>8, <1>9, AnswerKeeps DEF AdminPageStep
-----------------------------------------------------------------------------
(* The calls of the page begin as requests. *)

LEMMA CallBegins ==
  ASSUME AdminPageInv, NEW r \in Request, NEW op \in {"invite", "revoke", "remove"},
         NEW who \in Person \cup {Nobody}, NEW i \in Invitation \cup {NoInvitation},
         AdminPageCalls(r, op, who, i), UNCHANGED <<role, invitation>>,
         req'[r].op = op, req'[r].who = who, op = "revoke" => req'[r].inv = i /\ i \in invitations,
         \A q \in Request : q # r => req'[q] = req[q],
         op = "invite" => ~Calling("invite"),
         UNCHANGED <<members, invitations>>
  PROVE  AdminPageInv'
<1> USE DEF AdminPageInv
<1> DEFINE x == [op |-> op, at |-> "sent", who |-> who, inv |-> i]
<1>1. /\ opening.at = "done" /\ adminCall[r] = NoAdminCall /\ adminCall' = [adminCall EXCEPT ![r] = x]
      /\ UNCHANGED <<opening, drift>>
  BY DEF AdminPageCalls
<1>2. Admins' = Admins /\ Pending' = Pending /\ Used' = Used
  BY DEF Admins, Pending, Used
<1>3. /\ \A o : Answered(o)' = Answered(o)
      /\ Leaving' = Leaving /\ Coming' = Coming /\ Going' = Going
  <2>1. x.at # "answered" /\ adminCall[r].at # "answered"
    BY <1>1, NoAdminCallIs
  <2>2. QED
    BY <1>1, <2>1, CallSent
<1>4. adminCall'[r] = x /\ \A q \in Request : q # r => adminCall'[q] = adminCall[q]
  BY <1>1 DEF AdminPageShape
<1>5. adminCall' \in [Request -> AdminCallType]
  BY <1>1 DEF AdminPageShape, AdminCallType
<1>6. \A q \in Request : Traced(q)'
  <2>1. Traced(r)'
    BY <1>2, <1>4 DEF Traced, AdminPageShape
  <2>2. ASSUME NEW q \in Request, q # r PROVE Traced(q)'
    BY <1>2, <1>4, <2>2 DEF Traced, AdminPageShape
  <2>3. QED
    BY <2>1, <2>2
<1>7. Novel'
  <2>1. \A q, k \in Request : adminCall'[q].op = "invite" /\ adminCall'[k].op = "invite" => q = k
    BY <1>4 DEF AdminPageShape, Novel, Calling
  <2>2. ASSUME NEW k \in Answered("invite") PROVE adminCall'[k] = adminCall[k] /\ k \in Request
    BY <1>1, <1>4, <2>2, NoAdminCallIs DEF Answered
  <2>3. ASSUME NEW k \in Answered("invite"), NEW q \in Request, adminCall'[q].op = "revoke"
        PROVE  adminCall'[q].inv # adminCall'[k].inv
    BY <1>4, <2>2, <2>3 DEF AdminPageShape, Novel
  <2>4. \A k \in Answered("invite") : adminCall'[k].inv \in Used \ invitations
    BY <2>2 DEF AdminPageShape, Novel
  <2>5. Answered("invite")' = Answered("invite")
    BY <1>3
  <2>6. QED
    BY <1>2, <2>1, <2>3, <2>4, <2>5 DEF Novel
<1>8. AdminPageShape'
  BY <1>1, <1>2, <1>5, <1>6, <1>7 DEF AdminPageShape
<1>9. Agreeing'
  BY <1>1, <1>2, <1>3 DEF Agreeing
<1>10. QED
  BY <1>8, <1>9

LEMMA PageCallKeeps ==
  ASSUME AdminPageInv, Sound, AdminPageCall
  PROVE  AdminPageInv'
<1>1. ASSUME NEW r \in Request, NEW kind, NEW x, Begin(r, kind, x)
      PROVE  /\ req'[r] = x /\ \A q \in Request : q # r => req'[q] = req[q]
             /\ UNCHANGED <<role, invitation>>
  BY <1>1 DEF Begin, rows, Sound, Shape
<1>2. ASSUME NEW r \in Request, NEW who \in Person, HandleInvite(r, who) PROVE AdminPageInv'
  <2> DEFINE x == [Idle EXCEPT !.op = "invite", !.at = "admin", !.by = Clerk, !.who = who]
  <2>1. x.op = "invite" /\ x.who = who
    BY DEF Idle
  <2>2. Begin(r, "admin", x) /\ AdminPageCalls(r, "invite", who, NoInvitation)
        /\ ~Calling("invite")
    BY <1>2 DEF HandleInvite, InviteBegin
  <2>3. UNCHANGED <<members, invitations>>
    BY <2>2 DEF AdminPageCalls, shown
  <2>4. /\ req'[r] = x /\ \A q \in Request : q # r => req'[q] = req[q]
        /\ UNCHANGED <<role, invitation>>
    BY <1>1, <2>2
  <2> HIDE DEF x
  <2>5. QED
    BY <2>1, <2>2, <2>3, <2>4, CallBegins
<1>3. ASSUME NEW r \in Request, NEW who \in Person, HandleRemove(r, who) PROVE AdminPageInv'
  <2> DEFINE x == [Idle EXCEPT !.op = "remove", !.at = "target", !.by = Clerk, !.who = who]
  <2>1. x.op = "remove" /\ x.who = who
    BY DEF Idle
  <2>2. Begin(r, "admin", x) /\ AdminPageCalls(r, "remove", who, NoInvitation)
    BY <1>3 DEF HandleRemove, RemoveBegin
  <2>3. UNCHANGED <<members, invitations>>
    BY <2>2 DEF AdminPageCalls, shown
  <2>4. /\ req'[r] = x /\ \A q \in Request : q # r => req'[q] = req[q]
        /\ UNCHANGED <<role, invitation>>
    BY <1>1, <2>2
  <2> HIDE DEF x
  <2>5. QED
    BY <2>1, <2>2, <2>3, <2>4, CallBegins
<1>4. ASSUME NEW r \in Request, NEW i \in Invitation, HandleRevoke(r, i) PROVE AdminPageInv'
  <2> DEFINE x == [Idle EXCEPT !.op = "revoke", !.at = "status", !.by = Clerk, !.inv = i]
  <2>1. x.op = "revoke" /\ x.who = Nobody /\ x.inv = i
    BY DEF Idle
  <2>2. Begin(r, "admin", x) /\ AdminPageCalls(r, "revoke", Nobody, i) /\ i \in invitations
    BY <1>4 DEF HandleRevoke, RevokeBegin
  <2>3. UNCHANGED <<members, invitations>>
    BY <2>2 DEF AdminPageCalls, shown
  <2>4. /\ req'[r] = x /\ \A q \in Request : q # r => req'[q] = req[q]
        /\ UNCHANGED <<role, invitation>>
    BY <1>1, <2>2
  <2> HIDE DEF x
  <2>5. QED
    BY <2>1, <2>2, <2>3, <2>4, CallBegins
<1>5. QED
  BY <1>2, <1>3, <1>4 DEF AdminPageCall
-----------------------------------------------------------------------------
(* The requests go on, and the page hears of its own. *)

LEMMA UsedStay ==
  ASSUME Sound, [AccountsNext]_accountVars
  PROVE  Used \subseteq Used' /\ Pending' \cap Used \subseteq Pending
<1>1. CASE UNCHANGED <<role, invitation>>
  BY <1>1 DEF Used, Pending
<1>2. ASSUME NEW r \in Request, InviteCreate(r)
      PROVE  Used \subseteq Used' /\ Pending' \cap Used \subseteq Pending
  BY <1>2, CreateShows
<1>3. ASSUME NEW r \in Request, RevokeWrite(r)
      PROVE  Used \subseteq Used' /\ Pending' \cap Used \subseteq Pending
  BY <1>3, RevokeShows
<1>4. ASSUME NEW r \in Request, RemoveWrite(r)
      PROVE  Used \subseteq Used' /\ Pending' \cap Used \subseteq Pending
  BY <1>4, RemoveShows DEF Used, Pending
<1>5. ASSUME NEW r \in Request, LoginAccept(r) \/ LoginCommit(r)
      PROVE  Used \subseteq Used' /\ Pending' \cap Used \subseteq Pending
  BY <1>5, LoginShows
<1>6. QED
  BY <1>1, <1>2, <1>3, <1>4, <1>5, TablesChange

\* A call that did not end is still the request that it was sent as.
LEMMA TraceStays ==
  ASSUME AdminPageShape, Sound, [AccountsNext]_accountVars, NEW q \in Request,
         adminCall'[q] = adminCall[q], ~Heard(q)
  PROVE  Traced(q)'
<1>1. Traced(q)
  BY DEF AdminPageShape
<1>2. ASSUME adminCall[q].at = "sent"
      PROVE  /\ req'[q].op = req[q].op /\ req'[q].who = req[q].who
             /\ adminCall[q].op = "revoke" => req'[q].inv = req[q].inv
  <2>1. req[q].op = adminCall[q].op /\ req[q].op # "none"
    BY <1>1, <1>2, NoAdminCallIs DEF Traced
  <2>2. req[q] # Idle /\ req'[q] # Idle
    BY <1>2, <2>1, IdleIs DEF Heard, EndsNow
  <2>3. req'[q].op = req[q].op /\ req'[q].who = req[q].who
    BY <2>2, RequestsChange DEF Sound, Arrived, Goes
  <2>4. QED
    BY <2>1, <2>2, <2>3, RevocationGoesOn
<1>3. ASSUME adminCall[q].op = "revoke"
      PROVE  /\ adminCall[q].inv \in Used'
             /\ adminCall[q].at = "answered" => invitation'[adminCall[q].inv].status # "PENDING"
  <2>1. adminCall[q].inv \in Used /\ adminCall[q].inv \in Invitation
    BY <1>1, <1>3 DEF Traced, Used
  <2>2. adminCall[q].at = "answered" => adminCall[q].inv \notin Pending
    BY <1>1, <1>3 DEF Traced, Pending
  <2>3. QED
    BY <2>1, <2>2, UsedStay DEF Pending
<1>4. QED
  BY <1>1, <1>2, <1>3 DEF Traced

\* Nobody's answer: the tables change under the page, and drift says by whom.
LEMMA DriftKeeps ==
  ASSUME AdminPageInv, Sound, [AccountsNext]_accountVars,
         \A r \in Request : ~Heard(r), UNCHANGED <<shown, opening, adminCall>>,
         opening.at = "closed" \/ drift' = drift \cup Drifts, drift \subseteq drift'
  PROVE  AdminPageInv'
<1> USE DEF AdminPageInv
<1>1. UNCHANGED <<members, invitations, opening, adminCall>>
  BY DEF shown
<1>2. \A op : Answered(op)' = Answered(op)
  BY <1>1 DEF Answered
<1>3. Leaving' = Leaving /\ Coming' = Coming /\ Going' = Going
  BY <1>1, <1>2 DEF Leaving, Coming, Going
<1>4. \A r \in Request : Traced(r)'
  BY <1>1, TraceStays
<1>5. Novel'
  BY <1>1, <1>2, UsedStay DEF AdminPageShape, Novel
<1>6. AdminPageShape'
  BY <1>1, <1>4, <1>5, UsedStay DEF AdminPageShape
<1>7. ASSUME Admins' = Admins, Pending' = Pending PROVE Agreeing'
  BY <1>1, <1>3, <1>7 DEF Agreeing
<1>8. ASSUME opening.at # "done",
             opening.at = "asked" => ~opening.members.got /\ ~opening.invitations.got
      PROVE  Agreeing'
  BY <1>1, <1>8 DEF Agreeing
<1>9. ASSUME Admins' # Admins \/ Pending' # Pending,
             opening.at = "done" \/ (opening.at = "asked" /\ (opening.members.got \/ opening.invitations.got))
      PROVE  Agreeing'
  <2>1. drift' = drift \cup
          {IF \E q \in Request : req[q].op = "login" /\ req'[q] # req[q] THEN "logins" ELSE "others"}
    BY <1>9 DEF Drifts
  <2>2. PICK r \in Request :
          /\ req'[r] # req[r]
          /\ \/ InviteCreate(r) \/ RevokeWrite(r) \/ RemoveWrite(r)
             \/ LoginAccept(r) \/ LoginCommit(r)
    BY <1>9, TablesChange DEF Admins, Pending
  <2>3. CASE InviteCreate(r) \/ RevokeWrite(r) \/ RemoveWrite(r)
    <3>1. End(r)
      BY <2>3 DEF InviteCreate, RevokeWrite, RemoveWrite
    <3>2. \A q \in Request : q # r => req'[q] = req[q]
      BY <3>1, Ended DEF Sound
    <3>3. req[r].op # "login"
      BY <2>3, OpAt DEF Sound, InviteCreate, RevokeWrite, RemoveWrite
    <3>4. "others" \in drift'
      BY <2>1, <3>2, <3>3
    <3>5. QED
      BY <3>4 DEF Agreeing
  <2>4. CASE LoginAccept(r) \/ LoginCommit(r)
    <3>1. Admins \subseteq Admins' /\ Pending' \subseteq Pending /\ req[r].op = "login"
      BY <2>4, LoginShows
    <3>2. drift' # {}
      BY <2>1
    <3>3. QED
      BY <1>1, <1>3, <3>1, <3>2 DEF Agreeing
  <2>5. QED
    BY <2>2, <2>3, <2>4
<1>10. opening.at \in {"closed", "asked", "done"}
  BY DEF AdminPageShape, OpeningType
<1>11. QED
  BY <1>6, <1>7, <1>8, <1>9, <1>10

\* What the request of a call that ends did to the tables.
LEMMA EndOfCall ==
  ASSUME AdminPageInv, Sound, [AccountsNext]_accountVars, NEW r \in Request, Heard(r)
  PROVE  /\ req[r].op = adminCall[r].op /\ req[r].who = adminCall[r].who
         /\ adminCall[r].op = "revoke" => req[r].inv = adminCall[r].inv
         /\ \/ UNCHANGED <<role, invitation>>
            \/ InviteCreate(r) \/ RevokeWrite(r) \/ RemoveWrite(r)
<1>1. adminCall[r].at = "sent" /\ EndsNow(r)
  BY DEF Heard
<1>2. Traced(r) /\ adminCall[r].op \in {"invite", "revoke", "remove"}
  BY <1>1, NoAdminCallIs DEF AdminPageInv, AdminPageShape, Traced
<1>3. req[r].op = adminCall[r].op /\ req[r].who = adminCall[r].who
      /\ (adminCall[r].op = "revoke" => req[r].inv = adminCall[r].inv)
  BY <1>1, <1>2 DEF Traced
<1>4. ASSUME NEW q \in Request, req'[q] # req[q] PROVE q = r
  BY <1>1, <1>4, OthersStay
<1>5. ~(LoginAccept(r) \/ LoginCommit(r))
  BY <1>2, <1>3, LoginShows
<1>6. QED
  BY <1>3, <1>4, <1>5, TablesChange

LEMMA AnswerComes ==
  ASSUME AdminPageInv, Sound, [AccountsNext]_accountVars, NEW r \in Request, Heard(r), Done(r),
         adminCall' = [adminCall EXCEPT ![r].at = "answered", ![r].inv = Told(r)],
         UNCHANGED <<drift, shown, opening>>
  PROVE  AdminPageInv'
<1> USE DEF AdminPageInv
<1>0. UNCHANGED <<members, invitations, opening, drift>>
  BY DEF shown
<1>1. /\ adminCall[r].at = "sent" /\ EndsNow(r) /\ opening.at = "done"
      /\ req[r].op = adminCall[r].op /\ req[r].who = adminCall[r].who
      /\ adminCall[r].op = "revoke" => req[r].inv = adminCall[r].inv
      /\ \/ UNCHANGED <<role, invitation>>
         \/ InviteCreate(r) \/ RevokeWrite(r) \/ RemoveWrite(r)
  BY EndOfCall, NoAdminCallIs DEF Heard, AdminPageShape
<1>2. ASSUME NEW q \in Request, q # r PROVE ~Heard(q)
  BY <1>1, <1>2, OthersStay DEF Heard, EndsNow
<1>3. adminCall[r] \in AdminCallType
  BY DEF AdminPageShape
<1>4. ASSUME NEW i \in Invitation \cup {NoInvitation}, Told(r) = i
      PROVE  /\ adminCall'[r].op = adminCall[r].op /\ adminCall'[r].who = adminCall[r].who
             /\ adminCall'[r].inv = i /\ adminCall'[r].at = "answered"
             /\ adminCall' \in [Request -> AdminCallType]
             /\ \A q \in Request : q # r => adminCall'[q] = adminCall[q]
             /\ \A op : Answered(op)' = Answered(op) \cup (IF adminCall[r].op = op THEN {r} ELSE {})
             /\ Leaving' = Leaving \cup (IF adminCall[r].op = "remove" THEN {adminCall[r].who} ELSE {})
             /\ Coming' = Coming \cup (IF adminCall[r].op = "invite" THEN {i} ELSE {})
             /\ Going' = Going \cup (IF adminCall[r].op = "revoke" THEN {i} ELSE {})
  BY <1>1, <1>4, CallAnswered
<1>5. CASE req[r].at = "create"
  <2>1. adminCall[r].op = "invite" /\ InviteCreate(r)
    BY <1>1, <1>5, OpAt DEF Sound, Done, RevokeWrite, RemoveWrite
  <2>2. PICK i \in Invitation \ Used :
          /\ Used' = Used \cup {i} /\ Pending' = Pending \cup {i}
          /\ Told(r) = i
    BY <2>1, CreateShows
  <2>3. Admins' = Admins
    BY <2>1, CreateShows
  <2>4. /\ adminCall'[r].op = "invite" /\ adminCall'[r].inv = i /\ adminCall'[r].at = "answered"
        /\ adminCall' \in [Request -> AdminCallType]
        /\ \A q \in Request : q # r => adminCall'[q] = adminCall[q]
        /\ Answered("invite")' = Answered("invite") \cup {r}
        /\ Leaving' = Leaving /\ Coming' = Coming \cup {i} /\ Going' = Going
    BY <1>4, <2>1, <2>2
  <2>5. Traced(r)'
    BY <2>4 DEF Traced
  <2>6. \A q \in Request : Traced(q)'
    BY <1>2, <2>4, <2>5, TraceStays
  <2>7. Answered("invite") = {}
    BY <1>1, <2>1 DEF AdminPageShape, Novel, Answered
  <2>8. Novel'
    <3>1. \A q, k \in Request : adminCall'[q].op = "invite" /\ adminCall'[k].op = "invite" => q = k
      BY <2>1, <2>4 DEF AdminPageShape, Novel
    <3>2. adminCall'[r].inv \in Used' \ invitations'
      BY <1>0, <2>2, <2>4 DEF AdminPageShape
    <3>3. ASSUME NEW q \in Request, adminCall'[q].op = "revoke" PROVE adminCall'[q].inv # i
      BY <2>2, <2>4, <3>3 DEF AdminPageShape, Traced
    <3>4. QED
      BY <2>4, <2>7, <3>1, <3>2, <3>3 DEF Novel
  <2>9. AdminPageShape'
    BY <1>0, <1>1, <2>2, <2>4, <2>6, <2>8 DEF AdminPageShape
  <2>10. i \notin Going
    <3>1. Going \subseteq Used
      BY DEF Going, Answered, AdminPageShape, Traced
    <3>2. QED
      BY <2>2, <3>1
  <2>11. Agreeing'
    BY <1>0, <1>1, <2>2, <2>3, <2>4, <2>10 DEF Agreeing
  <2>12. QED
    BY <2>9, <2>11
<1>6. CASE req[r].at # "create"
  <2> DEFINE i == adminCall[r].inv
  <2>1. Told(r) = i /\ i \in Invitation \cup {NoInvitation}
    BY <1>3, <1>6 DEF Told, AdminCallType
  <2>2. /\ req[r].at \in {"revoke", "demote"} /\ adminCall[r].op \in {"revoke", "remove"}
        /\ adminCall[r].op = "revoke" <=> req[r].at = "revoke"
    BY <1>1, <1>6, OpAt DEF Sound, Done
  <2>3. /\ adminCall'[r].op = adminCall[r].op /\ adminCall'[r].who = adminCall[r].who
        /\ adminCall'[r].inv = i /\ adminCall'[r].at = "answered"
        /\ adminCall' \in [Request -> AdminCallType]
        /\ \A q \in Request : q # r => adminCall'[q] = adminCall[q]
    BY <1>4, <2>1
  <2>4. Answered("invite")' = Answered("invite") /\ r \notin Answered("invite")
    BY <1>1, <1>4, <2>1, <2>2 DEF Answered
  <2>5. Coming' = Coming
    BY <1>4, <2>1, <2>2
  <2>6. adminCall[r].op = "revoke" => i \in Used /\ invitation'[i].status = "REVOKED"
    BY <1>1, <2>2 DEF Done, AdminPageShape, Traced
  <2>7. Traced(r)'
    BY <2>2, <2>3, <2>6, UsedStay DEF Traced
  <2>8. \A q \in Request : Traced(q)'
    BY <1>2, <2>3, <2>7, TraceStays
  <2>9. Novel'
    <3>1. \A k \in Answered("invite") : k \in Request /\ adminCall'[k] = adminCall[k]
      BY <2>3, <2>4 DEF Answered
    <3>2. \A q \in Request : adminCall'[q].op = adminCall[q].op /\ adminCall'[q].inv = adminCall[q].inv
      BY <2>3
    <3>3. QED
      BY <1>0, <2>4, <3>1, <3>2, UsedStay DEF Novel, AdminPageShape
  <2>10. AdminPageShape'
    BY <1>0, <1>1, <2>3, <2>8, <2>9, UsedStay DEF AdminPageShape
  <2>11. CASE req[r].at = "revoke"
    <3>1. Leaving' = Leaving /\ Going' = Going \cup {i}
      BY <1>4, <2>1, <2>2, <2>11
    <3>2. Admins' = Admins /\ Pending' = Pending \ {i}
      <4>1. CASE RevokeWrite(r)
        BY <1>1, <2>2, <2>11, <4>1, RevokeShows
      <4>2. CASE UNCHANGED <<role, invitation>>
        <5>1. i \notin Pending
          BY <2>2, <2>6, <2>11, <4>2 DEF Pending
        <5>2. QED
          BY <4>2, <5>1 DEF Admins, Pending
      <4>3. QED
        BY <1>1, <2>11, <4>1, <4>2 DEF InviteCreate, RemoveWrite
    <3>3. Agreeing'
      BY <1>0, <1>1, <2>5, <3>1, <3>2 DEF Agreeing
    <3>4. QED
      BY <2>10, <3>3
  <2>12. CASE req[r].at = "demote"
    <3>1. Leaving' = Leaving \cup {adminCall[r].who} /\ Going' = Going
      BY <1>4, <2>1, <2>2, <2>12
    <3>2. Admins' = Admins \ {adminCall[r].who} /\ Pending' = Pending
      <4>1. CASE RemoveWrite(r)
        BY <1>1, <4>1, RemoveShows DEF Pending
      <4>2. CASE UNCHANGED <<role, invitation>>
        <5>1. role[req[r].who] = "USER"
          BY <2>12, <4>2 DEF Done
        <5>2. QED
          BY <1>1, <4>2, <5>1 DEF Admins, Pending
      <4>3. QED
        BY <1>1, <2>12, <4>1, <4>2 DEF InviteCreate, RevokeWrite
    <3>3. Agreeing'
      BY <1>0, <1>1, <2>5, <3>1, <3>2 DEF Agreeing
    <3>4. QED
      BY <2>10, <3>3
  <2>13. QED
    BY <2>2, <2>11, <2>12
<1>7. QED
  BY <1>5, <1>6

LEMMA AnswerFails ==
  ASSUME AdminPageInv, Sound, [AccountsNext]_accountVars, NEW r \in Request, Heard(r),
         adminCall' = [adminCall EXCEPT ![r] = NoAdminCall],
         drift' = IF Done(r) THEN drift \cup {"lost"} ELSE drift,
         UNCHANGED <<shown, opening>>
  PROVE  AdminPageInv'
<1> USE DEF AdminPageInv
<1>0. UNCHANGED <<members, invitations, opening>>
  BY DEF shown
<1>1. /\ adminCall[r].at = "sent" /\ EndsNow(r) /\ opening.at = "done"
      /\ \/ UNCHANGED <<role, invitation>>
         \/ InviteCreate(r) \/ RevokeWrite(r) \/ RemoveWrite(r)
  BY EndOfCall, NoAdminCallIs DEF Heard, AdminPageShape
<1>2. ASSUME NEW q \in Request, q # r PROVE ~Heard(q)
  BY <1>1, <1>2, OthersStay DEF Heard, EndsNow
<1>3. adminCall'[r] = NoAdminCall /\ \A q \in Request : q # r => adminCall'[q] = adminCall[q]
  BY DEF AdminPageShape
<1>4. /\ \A op : Answered(op)' = Answered(op)
      /\ Leaving' = Leaving /\ Coming' = Coming /\ Going' = Going
  BY <1>1, NoAdminCallIs, CallSent
<1>5. \A q \in Request : Traced(q)'
  <2>1. Traced(r)'
    BY <1>3, NoAdminCallIs DEF Traced
  <2>2. QED
    BY <1>2, <1>3, <2>1, TraceStays
<1>6. Novel'
  <2>1. \A k \in Answered("invite") : k \in Request /\ adminCall'[k] = adminCall[k]
    BY <1>1, <1>3 DEF Answered
  <2>2. \A q \in Request : adminCall'[q].op # "none" => adminCall'[q] = adminCall[q]
    BY <1>3, NoAdminCallIs
  <2>3. Answered("invite")' = Answered("invite")
    BY <1>4
  <2>4. QED
    BY <1>0, <2>1, <2>2, <2>3, UsedStay DEF Novel, AdminPageShape
<1>7. adminCall' \in [Request -> AdminCallType]
  BY NoAdminCallIs DEF AdminPageShape
<1>8. AdminPageShape'
  BY <1>0, <1>1, <1>5, <1>6, <1>7, UsedStay DEF AdminPageShape
<1>9. CASE Done(r)
  <2>1. "lost" \in drift'
    BY <1>9
  <2>2. Agreeing'
    BY <2>1 DEF Agreeing
  <2>3. QED
    BY <1>8, <2>2
<1>10. CASE ~Done(r)
  <2>1. ~InviteCreate(r)
    <3>1. ASSUME InviteCreate(r) PROVE Used' # Used
      BY <3>1, CreateShows
    <3>2. QED
      BY <1>10, <3>1 DEF Done, Used, InviteCreate
  <2>2. ~RevokeWrite(r) /\ ~RemoveWrite(r)
    BY <1>10, RevokeShows, RemoveShows DEF Done, RevokeWrite, RemoveWrite
  <2>3. Admins' = Admins /\ Pending' = Pending
    BY <1>1, <2>1, <2>2 DEF Admins, Pending
  <2>4. Agreeing'
    BY <1>0, <1>1, <1>4, <1>10, <2>3 DEF Agreeing
  <2>5. QED
    BY <1>8, <2>4
<1>11. QED
  BY <1>9, <1>10

LEMMA HearsKeeps ==
  ASSUME AdminPageInv, Sound, [AccountsNext]_accountVars, Hears
  PROVE  AdminPageInv'
<1>1. CASE opening.at = "closed" /\ UNCHANGED adminPageVars
  <2>1. \A r \in Request : ~Heard(r)
    BY <1>1, NoAdminCallIs DEF AdminPageInv, AdminPageShape, Heard
  <2>2. QED
    BY <1>1, <2>1, DriftKeeps DEF adminPageVars
<1>2. CASE /\ ~\E r \in Request : Heard(r)
           /\ drift' = drift \cup Drifts
           /\ UNCHANGED <<shown, opening, adminCall>>
  BY <1>2, DriftKeeps
<1>3. ASSUME NEW r \in Request, Heard(r), HearsAnswer(r), UNCHANGED <<shown, opening>>
      PROVE  AdminPageInv'
  BY <1>3, AnswerComes, AnswerFails DEF HearsAnswer
<1>4. QED
  BY <1>1, <1>2, <1>3 DEF Hears

LEMMA AdminPageInvStep == AdminPageInv /\ Sound /\ [BackofficeNext]_allVars => AdminPageInv'
<1> SUFFICES ASSUME AdminPageInv, Sound, [BackofficeNext]_allVars PROVE AdminPageInv'
  OBVIOUS
<1>1. [AccountsNext]_accountVars
  BY BackofficeStepsAccounts
<1>2. CASE Next /\ Hears
  BY <1>1, <1>2, HearsKeeps
<1>3. CASE AdminPageCall
  BY <1>3, PageCallKeeps
<1>4. CASE AdminPageStep /\ UNCHANGED vars
  BY <1>4, PageStepKeeps DEF vars
<1>5. CASE UNCHANGED <<vars, adminPageVars>>
  BY <1>5 DEF vars, accountVars, rows, adminPageVars, shown, AdminPageInv, AdminPageShape, Agreeing,
     Traced, Novel, Answered, Leaving, Coming, Going, Admins, Pending, Used
<1>6. QED
  BY <1>2, <1>3, <1>4, <1>5 DEF BackofficeNext, allVars

\* Whatever logins and other pages do meanwhile, the page of the administrators
\* that rests tells the tables, as far as AdminPageFollows says.
THEOREM AdminPageTells == BackofficeSpec => []AdminPageFollows
<1>1. BackofficeSpec => []Sound
  BY BackofficeImplementsAccounts, AlwaysSound, PTL
<1>2. AdminPageInv => AdminPageFollows
  <2> SUFFICES ASSUME AdminPageInv, opening.at = "done", \A r \in Request : adminCall[r] = NoAdminCall
               PROVE  /\ drift \subseteq {"logins"} => members \subseteq Admins /\ Pending \subseteq invitations
                      /\ drift = {} => members = Admins /\ invitations = Pending
    BY DEF AdminPageFollows
  <2>1. Leaving = {} /\ Coming = {} /\ Going = {}
    BY NoAdminCallIs DEF Leaving, Coming, Going, Answered
  <2>2. QED
    BY <2>1 DEF AdminPageInv, Agreeing
<1>3. QED
  BY <1>1, <1>2, AdminPageStarts, AdminPageInvStep, PTL DEF BackofficeSpec
-----------------------------------------------------------------------------
(* The page of the campers. *)

\* A call as it stands in its stage.
PageCallType ==
  [kind : {"none", "add", "edit", "remove", "upload"}, at : {"idle", "sent", "refresh", "answered"},
   from : Layout, line : Line \cup {0}, data : Data \cup {NoData}, page : Nat, here : BOOLEAN,
   list : Seq(Entries), sheet : CamperSheet \cup {<<>>}]
ByRowKinds == {"add", "edit", "remove"}
CallFits(x) ==
  /\ x.kind = "none" => x = Idler
  /\ x.kind # "none" => x.at # "idle"
  /\ x.kind \in ByRowKinds => x.line \in Line /\ x.at # "refresh"
  /\ x.kind \in {"add", "edit"} => x.data \in Data
  /\ x.kind = "upload" => x.line = 0 /\ x.sheet \in CamperSheet

RosterPageShape ==
  /\ enlisted \in Enlistments
  /\ campers \in Seq(Entries)
  /\ currentPage \in Nat \ {0}
  /\ drafts \in [Layout -> Enlistments]
  /\ editing \in [Layout -> SUBSET Line]
  /\ fetched \in [at : {"closed", "asked", "answered", "done", "stuck"}, list : Seq(Entries)]
  /\ rosterCall \in [RosterCall -> PageCallType]
  /\ \A c \in RosterCall : CallFits(rosterCall[c])
  /\ rosterActs \in Nat
  /\ strain \subseteq {"others", "lost", "overlap", "turned"}
  /\ astray \in [Layout -> SUBSET Line]
  /\ fetched.at # "done" => /\ campers = <<>> /\ currentPage = 1
                            /\ \A c \in RosterCall : rosterCall[c] = Idler

OnceEach(list) == \A j, k \in DOMAIN list : list[j].line = list[k].line => j = k

\* A list tells of a line what the table says, and of every line, each once.
Tells(list, table, l) ==
  \A d \in Data : [line |-> l, data |-> d] \in Listed(list) <=> table[l] = d
TellsAll(list, table) == OnceEach(list) /\ \A l \in Line : Tells(list, table, l)

\* What a list lacks of a line is what a call has done and not yet told.
SettledOn(l, calls) ==
  \A c \in RosterCall : calls[c].line = l \/ calls[c].kind = "upload"
                          => calls[c].at \in {"idle", "sent"}
CallTells(x, list, table) ==
  /\ x.kind = "add" /\ x.at = "answered" =>
       table[x.line] = x.data /\ \A e \in Listed(list) : e.line # x.line
  /\ x.kind = "edit" => \E e \in Listed(list) : e.line = x.line
  /\ x.kind = "edit" /\ x.at = "answered" => table[x.line] = x.data
  /\ x.kind = "remove" /\ x.at = "answered" => table[x.line] = NoData
  /\ x.kind = "upload" /\ x.at = "answered" => TellsAll(x.list, table)
NoneSpoils(calls) ==
  \A b, c \in RosterCall : b # c /\ calls[b].kind # "none" /\ calls[c].kind # "none"
                            => calls[b].line # calls[c].line /\ calls[b].kind # "upload"
Agreed(list, calls, table) ==
  /\ OnceEach(list)
  /\ \A l \in Line : SettledOn(l, calls) => Tells(list, table, l)
  /\ \A c \in RosterCall : CallTells(calls[c], list, table)
  /\ NoneSpoils(calls)

Unspoilt == strain \cap {"others", "lost", "overlap"} = {}
PageTells ==
  Unspoilt => /\ fetched.at = "answered" => TellsAll(fetched.list, enlisted)
              /\ fetched.at = "done" => Agreed(campers, rosterCall, enlisted)

\* Unless another page came into view meanwhile, a page with campers is in view,
\* and what is saved or deleted is on it.
PageInView ==
  "turned" \notin strain =>
    /\ \A c \in RosterCall : rosterCall[c].kind \in {"edit", "remove"} => rosterCall[c].page = currentPage
    /\ campers # <<>> => (currentPage - 1) * PageSize < Len(campers)

\* A row that one of its components saves or deletes is in view.  In a layout, what
\* is in view is as the list says, but for the rows that are edited or gone astray;
\* a row that is saved there is open with what was sent, unless it went astray.
InSight(list, page, calls) ==
  \A c \in RosterCall : calls[c].kind \in {"edit", "remove"} /\ calls[c].here
                          => calls[c].line \in Mounted(list, page)
Edited(v, list, page, inputs, open, off, calls) ==
  /\ \A l \in Mounted(list, page) \ (open \cup off) : inputs[l] = Says(list, l)
  /\ \A c \in RosterCall :
       /\ calls[c].kind = "edit" /\ calls[c].here
       /\ calls[c].from = v /\ calls[c].line \notin off
       => calls[c].line \in open /\ inputs[calls[c].line] = calls[c].data

Sighted == fetched.at = "done" => InSight(campers, currentPage, rosterCall)
EditorsTell ==
  Unspoilt /\ fetched.at = "done" =>
    \A v \in Layout : Edited(v, campers, currentPage, drafts[v], editing[v], astray[v], rosterCall)

RosterPageInv == RosterPageShape /\ PageTells /\ PageInView /\ Sighted /\ EditorsTell
-----------------------------------------------------------------------------
(* The page of the campers: its lists. *)

\* A part of a list has each line once if the list does.
LEMMA SublistOnce ==
  ASSUME NEW S, NEW list \in Seq(S), NEW kept, OnceEach(list)
  PROVE  OnceEach(Sublist(list, kept))
<1> DEFINE s == Sublist(list, kept)
<1>1. DOMAIN list \subseteq Nat /\ DOMAIN s \subseteq Nat
  <2>1. s \in Seq(kept)
    BY SublistHas
  <2> HIDE DEF s
  <2>2. QED
    BY <2>1
<1>2. InTurn(s, list, Len(list))
  BY SublistHas
<1> HIDE DEF s
<1>3. ASSUME NEW a \in DOMAIN s, NEW b \in DOMAIN s, a < b PROVE s[a].line # s[b].line
  <2>1. PICK x \in DOMAIN list, y \in DOMAIN list : x < y /\ s[a] = list[x] /\ s[b] = list[y]
    BY <1>2, <1>3 DEF InTurn
  <2>2. x # y
    BY <1>1, <2>1
  <2>3. QED
    BY <2>1, <2>2 DEF OnceEach
<1>4. \A a, b \in DOMAIN s : a = b \/ a < b \/ b < a
  BY <1>1
<1>5. QED
  BY <1>3, <1>4 DEF OnceEach, s

\* Taking off the one entry of a line closes the gap and moves nothing else.
LEMMA SublistWithout ==
  ASSUME NEW list \in Seq(Entries), NEW kept, NEW k \in DOMAIN list,
         \A j \in DOMAIN list : list[j] \in kept <=> j # k
  PROVE  /\ Len(Sublist(list, kept)) = Len(list) - 1
         /\ \A j \in 1..(Len(list) - 1) :
              Sublist(list, kept)[j] = IF j < k THEN list[j] ELSE list[j + 1]
<1> DEFINE n == Len(list)
<1>1. n \in Nat /\ DOMAIN list = 1..n /\ k \in 1..n
  OBVIOUS
<1>2. PICK f : Upto(f, n, list, kept) /\ Sublist(list, kept) = f[n]
  BY <1>1, SublistIs
<1>3. \A j \in 0..n : f[j] = IF j = 0 THEN <<>>
                             ELSE IF list[j] \in kept THEN Append(f[j - 1], list[j]) ELSE f[j - 1]
  BY <1>2 DEF Upto
<1> DEFINE Length(j) == IF j < k THEN j ELSE j - 1
           Fine(j) == /\ f[j] \in Seq(Entries) /\ Len(f[j]) = Length(j)
                      /\ \A i \in 1..Length(j) : f[j][i] = IF i < k THEN list[i] ELSE list[i + 1]
           Bad == {j \in 0..n : ~Fine(j)}
<1>4. Bad = {}
  <2>1. SUFFICES ASSUME Bad # {} PROVE FALSE
    OBVIOUS
  <2>2. PICK j \in Bad : \A i \in Bad : j <= i
    <3> HIDE DEF Fine
    <3>1. Bad \in SUBSET Nat
      OBVIOUS
    <3>2. QED
      BY <2>1, <3>1, Least
  <2>3. j \in 0..n /\ ~Fine(j)
    OBVIOUS
  <2>4. f[0] = <<>>
    BY <1>1, <1>3
  <2>5. Fine(0)
    BY <1>1, <2>4
  <2>6. j \in 1..n /\ j - 1 \in 0..n /\ j - 1 \notin Bad
    <3> HIDE DEF Fine
    <3>1. QED
      BY <1>1, <2>2, <2>3, <2>5
  <2>7. Fine(j - 1)
    BY <2>6
  <2>8. f[j] = IF j # k THEN Append(f[j - 1], list[j]) ELSE f[j - 1]
    BY <1>1, <1>3, <2>6
  <2>9. list[j] \in Entries
    BY <2>6
  <2>10. CASE j = k
    BY <2>6, <2>7, <2>8, <2>10
  <2>11. CASE j # k
    <3> DEFINE s == f[j - 1]
    <3>1. s \in Seq(Entries) /\ Len(s) = Length(j - 1) /\ Len(s) \in Nat
      BY <2>7
    <3>2. f[j] = Append(s, list[j])
      BY <2>8, <2>11
    <3>3. /\ f[j] \in Seq(Entries) /\ Len(f[j]) = Len(s) + 1
          /\ f[j][Len(s) + 1] = list[j] /\ \A i \in 1..Len(s) : f[j][i] = s[i]
      <4> HIDE DEF s
      <4>1. QED
        BY <2>9, <3>1, <3>2
    <3>4. Length(j) = Len(s) + 1
      BY <2>6, <2>11, <3>1
    <3>5. list[j] = IF Length(j) < k THEN list[Length(j)] ELSE list[Length(j) + 1]
      BY <1>1, <2>6, <2>11
    <3>6. ASSUME NEW i \in 1..Length(j)
          PROVE  f[j][i] = IF i < k THEN list[i] ELSE list[i + 1]
      <4>1. CASE i = Length(j)
        BY <3>3, <3>4, <3>5, <4>1
      <4>2. CASE i # Length(j)
        <5>1. i \in 1..Len(s)
          BY <3>1, <3>4, <4>2
        <5>2. f[j][i] = s[i]
          BY <3>3, <5>1
        <5>3. s[i] = IF i < k THEN list[i] ELSE list[i + 1]
          BY <2>7, <3>1, <5>1
        <5>4. QED
          BY <5>2, <5>3
      <4>3. QED
        BY <4>1, <4>2
    <3>7. QED
      BY <2>3, <3>3, <3>4, <3>6
  <2>12. QED
    BY <2>3, <2>10, <2>11
<1>5. Fine(n)
  <2> HIDE DEF Fine
  <2>1. QED
    BY <1>1, <1>4
<1>6. Length(n) = n - 1
  <2> HIDE DEF n
  <2>1. ~(n < k)
    BY <1>1
  <2>2. QED
    BY <2>1
<1>7. QED
  BY <1>2, <1>5, <1>6

\* The list that the server answers is the table.
LEMMA RowsTell ==
  ASSUME enlisted \in Enlistments
  PROVE  Rows \in Seq(Entries) /\ TellsAll(Rows, enlisted)
<1> DEFINE list == [l \in Line |-> [line |-> l, data |-> enlisted[l]]]
           S == [line : Line, data : Data \cup {NoData}]
<1>1. list \in Seq(S) /\ DOMAIN list = Line
  BY PagesHoldRows DEF Line, Enlistments
<1>2. OnceEach(list)
  BY DEF OnceEach
<1>3. /\ Rows \in Seq(Entries) /\ Listed(Rows) = Listed(list) \cap Entries /\ OnceEach(Rows)
  <2>1. Rows = Sublist(list, Entries)
    BY DEF Rows
  <2> HIDE DEF list, S
  <2>2. QED
    BY <1>1, <1>2, <2>1, SublistHas, SublistOnce
<1>4. ASSUME NEW l \in Line, NEW d \in Data
      PROVE  [line |-> l, data |-> d] \in Listed(Rows) <=> enlisted[l] = d
  <2>1. [line |-> l, data |-> d] \in Entries
    BY DEF Entries
  <2>2. [line |-> l, data |-> d] \in Listed(list) <=> enlisted[l] = d
    BY DEF Listed
  <2>3. QED
    BY <1>3, <2>1, <2>2
<1>5. QED
  BY <1>3, <1>4 DEF TellsAll, Tells

\* A line taken off the list of the page.
LEMMA WithoutIs ==
  ASSUME campers \in Seq(Entries), NEW l
  PROVE  /\ Without(l) \in Seq(Entries)
         /\ Listed(Without(l)) = {e \in Listed(campers) : e.line # l}
         /\ OnceEach(campers) => OnceEach(Without(l))
<1> DEFINE kept == {e \in Entries : e.line # l}
<1>1. Without(l) = Sublist(campers, kept)
  BY DEF Without
<1>2. /\ Sublist(campers, kept) \in Seq(kept)
      /\ Listed(Sublist(campers, kept)) = Listed(campers) \cap kept
      /\ OnceEach(campers) => OnceEach(Sublist(campers, kept))
  <2> HIDE DEF kept
  <2>1. QED
    BY SublistHas, SublistOnce
<1>3. Seq(kept) \subseteq Seq(Entries)
  OBVIOUS
<1>4. Listed(campers) \subseteq Entries
  BY DEF Listed
<1>5. QED
  <2>1. Listed(campers) \cap kept = {e \in Listed(campers) : e.line # l}
    BY <1>4
  <2> HIDE DEF kept
  <2>2. QED
    BY <1>1, <1>2, <1>3, <2>1

LEMMA WithoutMoves ==
  ASSUME campers \in Seq(Entries), OnceEach(campers), NEW k \in DOMAIN campers
  PROVE  /\ Len(Without(campers[k].line)) = Len(campers) - 1
         /\ \A j \in 1..(Len(campers) - 1) :
              Without(campers[k].line)[j] = IF j < k THEN campers[j] ELSE campers[j + 1]
<1> DEFINE kept == {e \in Entries : e.line # campers[k].line}
<1>1. Without(campers[k].line) = Sublist(campers, kept)
  BY DEF Without
<1>2. \A j \in DOMAIN campers : campers[j] \in kept <=> j # k
  BY DEF OnceEach
<1>3. QED
  <2> HIDE DEF kept
  <2>1. QED
    BY <1>1, <1>2, SublistWithout

\* Division, as the number of pages needs it.
LEMMA DivisionIs ==
  ASSUME NEW n \in Nat, NEW d \in Nat \ {0}
  PROVE  n \div d \in Nat /\ (n \div d) * d <= n /\ n < (n \div d) * d + d
  OBVIOUS

LEMMA PagesAre ==
  ASSUME NEW list, Len(list) \in Nat
  PROVE  /\ TotalPages(list) \in Nat
         /\ Len(list) = 0 => TotalPages(list) = 0
         /\ Len(list) > 0 => /\ TotalPages(list) > 0
                             /\ (TotalPages(list) - 1) * PageSize < Len(list)
<1> DEFINE n == Len(list)
           t == TotalPages(list)
<1>1. PageSize \in Nat \ {0} /\ n \in Nat /\ n + PageSize - 1 \in Nat
  BY PagesHoldRows
<1>2. t = (n + PageSize - 1) \div PageSize
  BY DEF TotalPages
<1> HIDE DEF n, t
<1>3. t \in Nat /\ t * PageSize <= n + PageSize - 1 /\ n + PageSize - 1 < t * PageSize + PageSize
  BY <1>1, <1>2, DivisionIs
<1>4. (t - 1) * PageSize = t * PageSize - PageSize
  BY <1>1, <1>3
<1>5. n = 0 => t = 0
  BY <1>1, <1>3
<1>6. n > 0 => t > 0
  BY <1>1, <1>3
<1>7. QED
  BY <1>1, <1>3, <1>4, <1>5, <1>6 DEF n, t

\* A page up to the last one begins on the list.
LEMMA PageBegins ==
  ASSUME NEW list, Len(list) \in Nat, Len(list) > 0, NEW page \in Nat, page <= TotalPages(list)
  PROVE  (page - 1) * PageSize < Len(list)
<1>1. TotalPages(list) \in Nat /\ (TotalPages(list) - 1) * PageSize < Len(list) /\ PageSize \in Nat
  BY PagesAre, PagesHoldRows
<1> DEFINE t == TotalPages(list)
<1> HIDE DEF t
<1>2. (page - 1) * PageSize <= (t - 1) * PageSize
  BY <1>1 DEF t
<1>3. (page - 1) * PageSize \in Int /\ (t - 1) * PageSize \in Int
  BY <1>1 DEF t
<1>4. QED
  BY <1>1, <1>2, <1>3 DEF t

\* What the list says of a line that is on it once.
LEMMA SaysIs ==
  ASSUME NEW list, OnceEach(list), NEW e \in Listed(list)
  PROVE  Says(list, e.line) = e.data
<1> DEFINE x == CHOOSE f \in Listed(list) : f.line = e.line
<1>1. x \in Listed(list) /\ x.line = e.line
  OBVIOUS
<1>2. x = e
  <2> HIDE DEF x
  <2>1. QED
    BY <1>1 DEF Listed, OnceEach
<1>3. Says(list, e.line) = x.data
  BY DEF Says, Listed
<1>4. QED
  BY <1>2, <1>3

\* A line in view is on the list, on that page.
LEMMA MountedIs ==
  ASSUME NEW list, NEW page, NEW l
  PROVE  l \in Mounted(list, page) <=>
           \E k \in DOMAIN list : /\ list[k].line = l
                                  /\ k \in ((page - 1) * PageSize + 1)..(page * PageSize)
  BY DEF Mounted, Slice
-----------------------------------------------------------------------------
(* The page of the campers: the shape of what it keeps. *)

LEMMA IdlerIs ==
  Idler \in PageCallType /\ CallFits(Idler) /\ Idler.kind = "none" /\ Idler.at = "idle"
  /\ ~Idler.here /\ Idler.line = 0
  BY DEF Idler, PageCallType, CallFits, ByRowKinds, Layout

LEMMA PostedIs ==
  ASSUME NEW kind \in {"add", "edit", "remove", "upload"}, NEW v \in Layout,
         NEW l \in Line \cup {0}, NEW d \in Data \cup {NoData}, currentPage \in Nat,
         NEW x, x = Posted(kind, v, l, d)
  PROVE  /\ x \in PageCallType /\ x.kind = kind /\ x.at = "sent" /\ x.from = v /\ x.line = l
         /\ x.data = d /\ x.page = currentPage /\ x.here /\ x.sheet = <<>>
<1> DEFINE i == Idler
<1>1. i \in PageCallType /\ i.sheet = <<>>
  BY IdlerIs DEF Idler
<1>2. x = [i EXCEPT !.kind = kind, !.at = "sent", !.from = v, !.line = l, !.data = d,
                    !.page = currentPage, !.here = TRUE]
  BY DEF Posted
<1> HIDE DEF i
<1>3. QED
  BY <1>1, <1>2 DEF PageCallType

\* What a call forgets when another page comes into view is the row it was made from.
LEMMA CallsIs ==
  ASSUME NEW calls \in [RosterCall -> PageCallType], NEW list, NEW page, NEW c \in RosterCall,
         NEW x, x = calls[c], NEW y, y = Calls(calls, list, page)[c]
  PROVE  /\ y \in PageCallType
         /\ y.kind = x.kind /\ y.at = x.at /\ y.line = x.line /\ y.data = x.data
         /\ y.from = x.from /\ y.page = x.page /\ y.list = x.list /\ y.sheet = x.sheet
         /\ y.here <=> x.here /\ (x.line \in Mounted(list, page) \/ x.kind = "add")
         /\ x = Idler => y = Idler
<1>1. x \in PageCallType
  OBVIOUS
<1>2. PICK h \in BOOLEAN : h <=> x.here /\ (x.line \in Mounted(list, page) \/ x.kind = "add")
  OBVIOUS
<1>3. y = [x EXCEPT !.here = x.here /\ (x.line \in Mounted(list, page) \/ x.kind = "add")]
  BY DEF Calls
<1>4. (x.here /\ (x.line \in Mounted(list, page) \/ x.kind = "add")) = h
  BY <1>1, <1>2, Zenon
<1>5. y = [x EXCEPT !.here = h]
  BY <1>3, <1>4
<1>6. x = Idler => h = FALSE
  BY <1>2, IdlerIs
<1>7. QED
  <2>1. /\ y \in PageCallType
        /\ y.kind = x.kind /\ y.at = x.at /\ y.line = x.line /\ y.data = x.data
        /\ y.from = x.from /\ y.page = x.page /\ y.list = x.list /\ y.sheet = x.sheet
        /\ y.here = h
    BY <1>1, <1>5 DEF PageCallType
  <2>2. ASSUME x = Idler PROVE y = Idler
    <3>1. y = [Idler EXCEPT !.here = FALSE]
      BY <1>5, <1>6, <2>2
    <3>2. [Idler EXCEPT !.here = FALSE] = Idler
      <4>1. Idler \in PageCallType /\ Idler.here = FALSE
        BY IdlerIs DEF Idler
      <4>2. QED
        BY <4>1 DEF PageCallType
    <3>3. QED
      BY <3>1, <3>2
  <2>3. QED
    BY <1>2, <2>1, <2>2

LEMMA CallsFit ==
  ASSUME NEW calls \in [RosterCall -> PageCallType], NEW list, NEW page,
         \A c \in RosterCall : CallFits(calls[c])
  PROVE  /\ Calls(calls, list, page) \in [RosterCall -> PageCallType]
         /\ \A c \in RosterCall : CallFits(Calls(calls, list, page)[c])
<1>1. ASSUME NEW c \in RosterCall
      PROVE  /\ Calls(calls, list, page)[c] \in PageCallType
             /\ CallFits(Calls(calls, list, page)[c])
  <2> DEFINE x == calls[c]
             y == Calls(calls, list, page)[c]
  <2>1. /\ y \in PageCallType
        /\ y.kind = x.kind /\ y.at = x.at /\ y.line = x.line /\ y.data = x.data
        /\ y.sheet = x.sheet /\ (x = Idler => y = Idler)
    BY CallsIs
  <2>2. CallFits(x)
    OBVIOUS
  <2> HIDE DEF x, y
  <2>3. CallFits(y)
    BY <2>1, <2>2 DEF CallFits
  <2>4. QED
    BY <2>1, <2>3 DEF x, y
<1>2. Calls(calls, list, page) = [c \in RosterCall |-> Calls(calls, list, page)[c]]
  BY DEF Calls
<1>3. QED
  <2> DEFINE g == Calls(calls, list, page)
  <2>1. g = [c \in RosterCall |-> g[c]]
    BY <1>2
  <2>2. \A c \in RosterCall : g[c] \in PageCallType /\ CallFits(g[c])
    BY <1>1
  <2> HIDE DEF g
  <2>3. g \in [RosterCall -> PageCallType]
    BY <2>1, <2>2
  <2>4. QED
    BY <2>2, <2>3 DEF g

\* One call changes, and its record is fit.
LEMMA OneCallFits ==
  ASSUME RosterPageShape, NEW c \in RosterCall, NEW x \in PageCallType, CallFits(x),
         NEW calls, calls = [rosterCall EXCEPT ![c] = x]
  PROVE  /\ calls \in [RosterCall -> PageCallType]
         /\ \A b \in RosterCall : CallFits(calls[b])
         /\ calls[c] = x /\ \A b \in RosterCall : b # c => calls[b] = rosterCall[b]
  BY DEF RosterPageShape

LEMMA ShowsFit ==
  ASSUME RosterPageShape, NEW list \in Seq(Entries), NEW page, NEW closed, NEW behind,
         Render(list, page, closed, behind)
  PROVE  /\ drafts' \in [Layout -> Enlistments]
         /\ editing' \in [Layout -> SUBSET Line] /\ astray' \in [Layout -> SUBSET Line]
<1>1. drafts' = [v \in Layout |-> [l \in Line |->
                   IF l \notin Mounted(list, page) THEN NoData
                   ELSE IF l \in InView THEN drafts[v][l] ELSE Says(list, l)]]
  BY DEF Render
<1>2. ASSUME NEW l \in Line, l \in Mounted(list, page) PROVE Says(list, l) \in Data
  <2>1. \E e \in {list[k] : k \in DOMAIN list} : e.line = l
    BY <1>2, MountedIs
  <2> DEFINE x == CHOOSE e \in {list[k] : k \in DOMAIN list} : e.line = l
  <2>2. x \in {list[k] : k \in DOMAIN list}
    BY <2>1
  <2>3. x \in Entries
    <3> HIDE DEF x
    <3>1. PICK k \in DOMAIN list : x = list[k]
      BY <2>2
    <3>2. QED
      BY <3>1
  <2>4. Says(list, l) = x.data
    BY DEF Says
  <2>5. QED
    BY <2>3, <2>4 DEF Entries
<1>3. \A v \in Layout : \A l \in Line : drafts[v][l] \in Data \cup {NoData}
  BY DEF RosterPageShape, Enlistments
<1>4. drafts' \in [Layout -> Enlistments]
  <2>1. ASSUME NEW v \in Layout
        PROVE  [l \in Line |-> IF l \notin Mounted(list, page) THEN NoData
                               ELSE IF l \in InView THEN drafts[v][l] ELSE Says(list, l)]
                 \in Enlistments
    BY <1>2, <1>3 DEF Enlistments
  <2>2. QED
    BY <1>1, <2>1
<1>5. editing' \in [Layout -> SUBSET Line]
  BY DEF Render, RosterPageShape
<1>6. \A l \in Mounted(list, page) : l \in Line
  <2>1. SUFFICES ASSUME NEW l \in Mounted(list, page) PROVE l \in Line
    OBVIOUS
  <2>2. PICK k \in DOMAIN list : list[k].line = l
    BY MountedIs
  <2>3. list[k] \in Entries
    BY <2>2
  <2>4. QED
    BY <2>2, <2>3 DEF Entries
<1>7. astray' \in [Layout -> SUBSET Line]
  BY <1>6 DEF Render
<1>8. QED
  BY <1>4, <1>5, <1>7

LEMMA RosterPageShapeStep ==
  ASSUME RosterPageShape, RosterPageCall \/ RosterPageStep
  PROVE  RosterPageShape'
<1> USE DEF view
<1>0. /\ enlisted \in Enlistments /\ campers \in Seq(Entries) /\ currentPage \in Nat \ {0}
      /\ drafts \in [Layout -> Enlistments] /\ editing \in [Layout -> SUBSET Line]
      /\ astray \in [Layout -> SUBSET Line]
      /\ fetched \in [at : {"closed", "asked", "answered", "done", "stuck"}, list : Seq(Entries)]
      /\ rosterCall \in [RosterCall -> PageCallType]
      /\ \A c \in RosterCall : CallFits(rosterCall[c])
      /\ rosterActs \in Nat
      /\ strain \subseteq {"others", "lost", "overlap", "turned"}
      /\ fetched.at # "done" => /\ campers = <<>> /\ currentPage = 1
                                /\ \A c \in RosterCall : rosterCall[c] = Idler
  BY DEF RosterPageShape
<1>1. CASE FetchRead
  BY <1>0, <1>1, RowsTell DEF FetchRead, RosterPageShape
<1>2. CASE FetchShow
  <2>1. fetched.list \in Seq(Entries) /\ Render(fetched.list, currentPage, None, None)
    BY <1>0, <1>2 DEF FetchShow
  <2>2. /\ drafts' \in [Layout -> Enlistments]
        /\ editing' \in [Layout -> SUBSET Line] /\ astray' \in [Layout -> SUBSET Line]
    BY <2>1, ShowsFit
  <2>3. QED
    BY <1>0, <1>2, <2>1, <2>2 DEF FetchShow, Render, RosterPageShape
<1>3. CASE FetchFails
  BY <1>0, <1>3 DEF FetchFails, RosterPageShape
<1>4. ASSUME NEW v \in Layout, NEW l \in Line, CancelEdit(v, l) PROVE RosterPageShape'
  <2>1. Says(campers, l) \in Data
    <3>1. l \in InView /\ Mounted(campers, currentPage) = InView
      BY <1>4 DEF CancelEdit, MaySave, InView
    <3>2. PICK k \in DOMAIN campers : campers[k].line = l
      BY <3>1, MountedIs
    <3> DEFINE x == CHOOSE e \in {campers[j] : j \in DOMAIN campers} : e.line = l
    <3>3. x \in {campers[j] : j \in DOMAIN campers}
      BY <3>2
    <3>4. x \in Entries
      <4> HIDE DEF x
      <4>1. PICK j \in DOMAIN campers : x = campers[j]
        BY <3>3
      <4>2. QED
        BY <1>0, <4>1
    <3>5. Says(campers, l) = x.data
      BY DEF Says
    <3>6. QED
      BY <3>4, <3>5 DEF Entries
  <2>2. drafts' \in [Layout -> Enlistments]
    BY <1>0, <1>4, <2>1 DEF CancelEdit, Enlistments
  <2>3. editing' \in [Layout -> SUBSET Line] /\ astray' \in [Layout -> SUBSET Line]
    BY <1>0, <1>4 DEF CancelEdit
  <2>4. UNCHANGED <<enlisted, campers, currentPage, fetched, rosterCall, rosterActs, strain>>
    BY <1>4 DEF CancelEdit
  <2>5. QED
    BY <1>0, <2>2, <2>3, <2>4 DEF RosterPageShape
<1>14. ASSUME NEW v \in Layout, NEW l \in Line, NEW d \in Data, TypeOn(v, l, d)
       PROVE  RosterPageShape'
  <2>1. drafts' \in [Layout -> Enlistments]
    BY <1>0, <1>14 DEF TypeOn, Enlistments
  <2>2. astray' \in [Layout -> SUBSET Line]
    BY <1>0, <1>14 DEF TypeOn
  <2>3. UNCHANGED <<enlisted, campers, currentPage, editing, fetched, rosterCall, rosterActs, strain>>
    BY <1>14 DEF TypeOn
  <2>4. QED
    BY <1>0, <2>1, <2>2, <2>3 DEF RosterPageShape
<1>5. ASSUME NEW page \in 1..(MaxLine + 1), TurnTo(page) PROVE RosterPageShape'
  <2>1. /\ fetched.at = "done" /\ Render(campers, page, None, None) /\ page \in Nat \ {0}
        /\ rosterCall' = Calls(rosterCall, campers, page)
        /\ strain' = strain \cup Turned(rosterCall, page)
        /\ UNCHANGED <<enlisted, fetched, rosterActs>>
    BY <1>5, PagesHoldRows DEF TurnTo
  <2>2. /\ drafts' \in [Layout -> Enlistments]
        /\ editing' \in [Layout -> SUBSET Line] /\ astray' \in [Layout -> SUBSET Line]
    BY <1>0, <2>1, ShowsFit
  <2>3. /\ rosterCall' \in [RosterCall -> PageCallType]
        /\ \A c \in RosterCall : CallFits(rosterCall'[c])
    BY <1>0, <2>1, CallsFit
  <2>4. strain' \subseteq {"others", "lost", "overlap", "turned"}
    BY <1>0, <2>1 DEF Turned
  <2>5. campers' = campers /\ currentPage' = page
    BY <2>1 DEF Render
  <2>6. QED
    BY <1>0, <2>1, <2>2, <2>3, <2>4, <2>5 DEF RosterPageShape
<1>6. ASSUME NEW l \in Line, NEW d \in Data \cup {NoData}, OthersEnlist(l, d)
      PROVE  RosterPageShape'
  <2>1. enlisted' \in Enlistments /\ rosterActs' \in Nat
    BY <1>0, <1>6 DEF OthersEnlist, Enlistments
  <2>2. strain' \subseteq {"others", "lost", "overlap", "turned"}
    BY <1>0, <1>6 DEF OthersEnlist
  <2>3. QED
    BY <1>6, <2>1, <2>2 DEF OthersEnlist, RosterPageShape
\* A call is asked for.
<1>7. ASSUME NEW c \in RosterCall, NEW x \in PageCallType, CallFits(x), Ask(c, x),
             drafts' \in [Layout -> Enlistments], editing' \in [Layout -> SUBSET Line],
             astray' \in [Layout -> SUBSET Line], UNCHANGED <<campers, currentPage>>
      PROVE  RosterPageShape'
  <2>1. /\ rosterCall' \in [RosterCall -> PageCallType]
        /\ \A b \in RosterCall : CallFits(rosterCall'[b])
    BY <1>7, OneCallFits DEF Ask
  <2>2. rosterActs' \in Nat
    BY <1>0, <1>7 DEF Ask
  <2>3. /\ strain' \subseteq {"others", "lost", "overlap", "turned"}
        /\ fetched.at = "done" /\ UNCHANGED <<enlisted, fetched>>
    BY <1>0, <1>7 DEF Ask
  <2>4. QED
    BY <1>0, <1>7, <2>1, <2>2, <2>3 DEF RosterPageShape
<1>8. CASE RosterPageCall
  <2>1. ASSUME NEW c \in RosterCall, NEW v \in Layout, NEW l \in Line, NEW d \in Data,
               AddCamper(c, v, l, d) \/ SaveCamper(c, v, l, d)
        PROVE  RosterPageShape'
    <3>1. Posted("add", v, l, d) \in PageCallType /\ CallFits(Posted("add", v, l, d))
      BY <1>0, PostedIs DEF CallFits, ByRowKinds
    <3>2. Posted("edit", v, l, d) \in PageCallType /\ CallFits(Posted("edit", v, l, d))
      BY <1>0, PostedIs DEF CallFits, ByRowKinds
    <3>3. CASE AddCamper(c, v, l, d)
      BY <1>0, <1>7, <3>1, <3>3 DEF AddCamper
    <3>4. CASE SaveCamper(c, v, l, d)
      <4>1. /\ drafts' \in [Layout -> Enlistments]
            /\ editing' \in [Layout -> SUBSET Line] /\ astray' \in [Layout -> SUBSET Line]
        BY <1>0, <3>4 DEF SaveCamper, Enlistments
      <4>2. QED
        BY <1>7, <3>2, <3>4, <4>1 DEF SaveCamper
    <3>5. QED
      BY <2>1, <3>3, <3>4
  <2>2. ASSUME NEW c \in RosterCall, NEW v \in Layout, NEW l \in Line, DeleteCamper(c, v, l)
        PROVE  RosterPageShape'
    <3>1. Posted("remove", v, l, NoData) \in PageCallType /\ CallFits(Posted("remove", v, l, NoData))
      BY <1>0, PostedIs DEF CallFits, ByRowKinds
    <3>2. QED
      BY <1>0, <1>7, <2>2, <3>1 DEF DeleteCamper
  <2>3. ASSUME NEW c \in RosterCall, NEW s \in CamperSheet, UploadCampers(c, s)
        PROVE  RosterPageShape'
    <3> DEFINE x == [Posted("upload", "row", 0, NoData) EXCEPT !.sheet = s]
    <3>1. x \in PageCallType /\ CallFits(x)
      <4> DEFINE y == Posted("upload", "row", 0, NoData)
      <4>1. y \in PageCallType /\ y.kind = "upload" /\ y.at = "sent" /\ y.line = 0
        <5>1. /\ y = Posted("upload", "row", 0, NoData) /\ currentPage \in Nat
              /\ "row" \in Layout /\ 0 \in Line \cup {0} /\ NoData \in Data \cup {NoData}
          BY <1>0 DEF Layout
        <5> HIDE DEF y
        <5>2. QED
          BY <5>1, PostedIs
      <4> HIDE DEF y
      <4>2. QED
        BY <4>1 DEF PageCallType, CallFits, ByRowKinds, y
    <3> HIDE DEF x
    <3>2. QED
      BY <1>0, <1>7, <2>3, <3>1 DEF UploadCampers, x
  <2>4. QED
    BY <1>8, <2>1, <2>2, <2>3 DEF RosterPageCall
\* The server.
<1>9. ASSUME NEW c \in RosterCall, NEW x \in PageCallType, CallFits(x), rosterCall[c] # Idler,
             rosterCall' = [rosterCall EXCEPT ![c] = x], enlisted' \in Enlistments,
             UNCHANGED <<view, fetched, rosterActs>>,
             strain' \subseteq {"others", "lost", "overlap", "turned"}
      PROVE  RosterPageShape'
  <2>1. /\ rosterCall' \in [RosterCall -> PageCallType]
        /\ \A b \in RosterCall : CallFits(rosterCall'[b])
    BY <1>9, OneCallFits
  <2>2. fetched.at = "done"
    BY <1>0, <1>9
  <2>3. QED
    BY <1>0, <1>9, <2>1, <2>2 DEF RosterPageShape
<1>10. ASSUME NEW c \in RosterCall,
              \/ AddWrite(c) \/ SaveWrite(c) \/ DeleteWrite(c) \/ UploadWrite(c)
              \/ UploadRefresh(c) \/ RosterCallFails(c)
       PROVE  RosterPageShape'
  <2> DEFINE x == rosterCall[c]
             y == [x EXCEPT !.at = "answered"]
  <2>1. x \in PageCallType /\ CallFits(x) /\ (x.kind # "none" => x # Idler)
    BY <1>0, IdlerIs
  <2>2. x.at = "refresh" => x.kind = "upload"
    BY <2>1, IdlerIs DEF CallFits, ByRowKinds, PageCallType
  <2>3. x.kind # "none" => y \in PageCallType /\ CallFits(y)
    BY <2>1 DEF PageCallType, CallFits, ByRowKinds
  <2>4. CASE AddWrite(c)
    <3>1. x.kind = "add" /\ x.line \in Line /\ x.data \in Data
      BY <2>1, <2>4 DEF AddWrite, CallFits, ByRowKinds
    <3>2. /\ UNCHANGED <<view, fetched, rosterActs, strain>>
          /\ \/ /\ enlisted' = [enlisted EXCEPT ![x.line] = x.data]
                /\ rosterCall' = [rosterCall EXCEPT ![c] = y]
             \/ UNCHANGED enlisted /\ rosterCall' = [rosterCall EXCEPT ![c] = Idler]
      BY <2>4 DEF AddWrite, Answers, CallOver
    <3> HIDE DEF x, y
    <3>3. enlisted' \in Enlistments
      BY <1>0, <3>1, <3>2 DEF Enlistments
    <3>4. rosterCall[c] # Idler
      BY <2>1, <3>1 DEF x
    <3>5. QED
      BY <1>0, <1>9, <2>3, <3>1, <3>2, <3>3, <3>4, IdlerIs
  <2>5. CASE SaveWrite(c)
    <3>1. x.kind = "edit" /\ x.line \in Line /\ x.data \in Data
      BY <2>1, <2>5 DEF SaveWrite, CallFits, ByRowKinds
    <3>2. /\ UNCHANGED <<view, fetched, rosterActs, strain>>
          /\ enlisted' = [enlisted EXCEPT ![x.line] = IF @ = NoData THEN @ ELSE x.data]
          /\ rosterCall' = [rosterCall EXCEPT ![c] = y]
      BY <2>5 DEF SaveWrite, Answers
    <3> HIDE DEF x, y
    <3>3. enlisted' \in Enlistments
      BY <1>0, <3>1, <3>2 DEF Enlistments
    <3>4. rosterCall[c] # Idler
      BY <2>1, <3>1 DEF x
    <3>5. QED
      BY <1>0, <1>9, <2>3, <3>1, <3>2, <3>3, <3>4
  <2>6. CASE DeleteWrite(c)
    <3>1. x.kind = "remove" /\ x.line \in Line
      BY <2>1, <2>6 DEF DeleteWrite, CallFits, ByRowKinds
    <3>2. /\ UNCHANGED <<view, fetched, rosterActs, strain>>
          /\ enlisted' = [enlisted EXCEPT ![x.line] = NoData]
          /\ rosterCall' = [rosterCall EXCEPT ![c] = y]
      BY <2>6 DEF DeleteWrite, Answers
    <3> HIDE DEF x, y
    <3>3. enlisted' \in Enlistments
      BY <1>0, <3>1, <3>2 DEF Enlistments
    <3>4. rosterCall[c] # Idler
      BY <2>1, <3>1 DEF x
    <3>5. QED
      BY <1>0, <1>9, <2>3, <3>1, <3>2, <3>3, <3>4
  <2>7. CASE UploadWrite(c)
    <3> DEFINE z == [x EXCEPT !.at = "refresh"]
    <3>1. x.kind = "upload" /\ x.line = 0 /\ x.sheet \in CamperSheet
      BY <2>1, <2>7 DEF UploadWrite, CallFits
    <3>2. z \in PageCallType /\ CallFits(z)
      BY <2>1, <3>1 DEF PageCallType, CallFits, ByRowKinds
    <3>3. /\ UNCHANGED <<view, fetched, rosterActs, strain>>
          /\ enlisted' = [l \in Line |-> IF l \in DOMAIN x.sheet THEN x.sheet[l] ELSE enlisted[l]]
          /\ rosterCall' = [rosterCall EXCEPT ![c] = z]
      BY <2>7 DEF UploadWrite
    <3> HIDE DEF x, y, z
    <3>4. enlisted' \in Enlistments
      BY <1>0, <3>1, <3>3, SheetsEnlist DEF Enlistments
    <3>5. rosterCall[c] # Idler
      BY <2>1, <3>1 DEF x
    <3>6. QED
      BY <1>0, <1>9, <3>1, <3>2, <3>3, <3>4, <3>5
  <2>8. CASE UploadRefresh(c)
    <3> DEFINE z == [x EXCEPT !.at = "answered", !.list = Rows]
    <3>1. x.at = "refresh" /\ x.kind = "upload"
      BY <2>2, <2>8 DEF UploadRefresh
    <3>2. Rows \in Seq(Entries)
      BY <1>0, RowsTell
    <3>3. z \in PageCallType /\ CallFits(z)
      BY <2>1, <3>1, <3>2 DEF PageCallType, CallFits, ByRowKinds
    <3>4. /\ UNCHANGED <<enlisted, view, fetched, rosterActs, strain>>
          /\ rosterCall' = [rosterCall EXCEPT ![c] = z]
      BY <2>8 DEF UploadRefresh
    <3> HIDE DEF x, y, z
    <3>5. rosterCall[c] # Idler
      BY <2>1, <3>1 DEF x
    <3>6. QED
      BY <1>0, <1>9, <3>3, <3>4, <3>5
  <2>9. CASE RosterCallFails(c)
    <3>1. strain' \subseteq {"others", "lost", "overlap", "turned"}
      BY <1>0, <2>9 DEF RosterCallFails
    <3>2. QED
      BY <1>0, <1>9, <2>9, <3>1, IdlerIs DEF RosterCallFails, CallOver
  <2>10. QED
    BY <1>10, <2>4, <2>5, <2>6, <2>7, <2>8, <2>9
\* The answers.
<1>11. ASSUME NEW c \in RosterCall, NEW list \in Seq(Entries), NEW page \in Nat \ {0}, NEW closed,
              NEW behind, Shows(c, list, page, closed, behind)
       PROVE  RosterPageShape'
  <2>1. /\ Render(list, page, closed, behind) /\ rosterCall[c].at = "answered"
        /\ strain' = strain \cup Turned(CallOver(c), page)
        /\ rosterCall' = Calls(CallOver(c), list, page)
        /\ UNCHANGED <<enlisted, fetched, rosterActs>>
    BY <1>11 DEF Shows
  <2>2. /\ drafts' \in [Layout -> Enlistments]
        /\ editing' \in [Layout -> SUBSET Line] /\ astray' \in [Layout -> SUBSET Line]
    BY <2>1, ShowsFit
  <2>3. /\ CallOver(c) \in [RosterCall -> PageCallType]
        /\ \A b \in RosterCall : CallFits(CallOver(c)[b])
    BY OneCallFits, IdlerIs DEF CallOver
  <2>4. /\ rosterCall' \in [RosterCall -> PageCallType]
        /\ \A b \in RosterCall : CallFits(rosterCall'[b])
    <3> DEFINE calls == CallOver(c)
    <3>1. /\ calls \in [RosterCall -> PageCallType] /\ \A b \in RosterCall : CallFits(calls[b])
          /\ rosterCall' = Calls(calls, list, page)
      BY <2>1, <2>3
    <3> HIDE DEF calls
    <3>2. QED
      BY <3>1, CallsFit
  <2>5. strain' \subseteq {"others", "lost", "overlap", "turned"}
    BY <1>0, <1>11, <2>1 DEF Turned
  <2>6. campers' = list /\ currentPage' = page
    BY <2>1 DEF Render
  <2>7. fetched.at = "done"
    BY <1>0, <2>1, IdlerIs
  <2>8. QED
    BY <1>0, <2>1, <2>2, <2>4, <2>5, <2>6, <2>7 DEF RosterPageShape
<1>12. ASSUME NEW c \in RosterCall, AddShow(c) \/ SaveShow(c) \/ DeleteShow(c) \/ UploadShow(c)
       PROVE  RosterPageShape'
  <2>1. rosterCall[c] \in PageCallType /\ CallFits(rosterCall[c])
    BY <1>0
  <2>2. CASE AddShow(c)
    <3>1. [line |-> rosterCall[c].line, data |-> rosterCall[c].data] \in Entries
      BY <2>1, <2>2 DEF AddShow, CallFits, ByRowKinds, Entries
    <3>2. Added(c) \in Seq(Entries) /\ Len(Added(c)) = Len(campers) + 1 /\ Len(campers) \in Nat
      BY <1>0, <3>1 DEF Added
    <3>3. TotalPages(Added(c)) \in Nat \ {0}
      <4> DEFINE list == Added(c)
      <4>1. Len(list) \in Nat /\ Len(list) > 0
        BY <3>2
      <4> HIDE DEF list
      <4>2. TotalPages(list) \in Nat /\ TotalPages(list) > 0
        BY <4>1, PagesAre
      <4>3. QED
        BY <4>2 DEF list
    <3>4. QED
      BY <1>11, <2>2, <3>2, <3>3 DEF AddShow
  <2>3. CASE SaveShow(c)
    <3> DEFINE l == rosterCall[c].line
               list == [k \in DOMAIN campers |->
                          IF campers[k].line = l
                          THEN [campers[k] EXCEPT !.data = rosterCall[c].data] ELSE campers[k]]
    <3>1. rosterCall[c].data \in Data
      BY <2>1, <2>3 DEF SaveShow, CallFits
    <3>2. list \in Seq(Entries)
      <4>1. ASSUME NEW k \in DOMAIN campers PROVE list[k] \in Entries
        <5> DEFINE e == campers[k]
        <5>1. e \in Entries
          BY <1>0
        <5>2. list[k] = IF e.line = l THEN [e EXCEPT !.data = rosterCall[c].data] ELSE e
          OBVIOUS
        <5> HIDE DEF e, list
        <5>3. QED
          BY <3>1, <5>1, <5>2 DEF Entries
      <4>2. DOMAIN campers = 1..Len(campers) /\ Len(campers) \in Nat
        BY <1>0
      <4>3. list = [k \in 1..Len(campers) |-> list[k]]
        BY <4>2
      <4> HIDE DEF list
      <4>4. QED
        BY <4>1, <4>2, <4>3
    <3> DEFINE own == [v \in Layout |-> IF rosterCall[c].here /\ rosterCall[c].from = v
                                         THEN {l} ELSE {}]
               behind == [v \in Layout |-> {l} \ own[v]]
    <3>3. Shows(c, list, currentPage, own, behind)
      BY <2>3 DEF SaveShow
    <3> HIDE DEF list, own, behind
    <3>4. QED
      BY <1>0, <1>11, <3>2, <3>3
  <2>4. CASE DeleteShow(c)
    <3> DEFINE list == Without(rosterCall[c].line)
               page == IF rosterCall[c].page > TotalPages(list) /\ TotalPages(list) > 0
                       THEN TotalPages(list) ELSE currentPage
    <3>1. list \in Seq(Entries)
      BY <1>0, WithoutIs
    <3>2. Shows(c, list, page, None, None)
      BY <2>4 DEF DeleteShow
    <3>3. page \in Nat \ {0}
      <4> HIDE DEF list
      <4>1. TotalPages(list) \in Nat
        BY <3>1, PagesAre
      <4>2. QED
        BY <1>0, <4>1
    <3> HIDE DEF list, page
    <3>4. QED
      BY <1>11, <3>1, <3>2, <3>3
  <2>5. CASE UploadShow(c)
    <3>1. rosterCall[c].list \in Seq(Entries)
      BY <2>1 DEF PageCallType
    <3>2. QED
      BY <1>11, <2>5, <3>1 DEF UploadShow
  <2>6. QED
    BY <1>12, <2>2, <2>3, <2>4, <2>5
<1>13. QED
  BY <1>1, <1>2, <1>3, <1>4, <1>5, <1>6, <1>8, <1>10, <1>12, <1>14 DEF RosterPageStep

LEMMA StrainGrows == RosterPageCall \/ RosterPageStep => strain \subseteq strain'
<1> USE DEF view
<1>1. ASSUME NEW c \in RosterCall, NEW x, Ask(c, x) PROVE strain \subseteq strain'
  BY <1>1 DEF Ask
<1>2. ASSUME NEW c \in RosterCall, NEW list, NEW page, NEW closed, NEW behind,
             Shows(c, list, page, closed, behind)
      PROVE  strain \subseteq strain'
  BY <1>2 DEF Shows
<1>3. RosterPageCall => strain \subseteq strain'
  BY <1>1 DEF RosterPageCall, AddCamper, SaveCamper, DeleteCamper, UploadCampers
<1>4. ASSUME RosterPageStep PROVE strain \subseteq strain'
  <2>1. ASSUME NEW c \in RosterCall, AddShow(c) \/ SaveShow(c) \/ DeleteShow(c) \/ UploadShow(c)
        PROVE  strain \subseteq strain'
    BY <1>2, <2>1 DEF AddShow, SaveShow, DeleteShow, UploadShow
  <2>2. ASSUME NEW c \in RosterCall,
               \/ AddWrite(c) \/ SaveWrite(c) \/ DeleteWrite(c) \/ UploadWrite(c)
               \/ UploadRefresh(c) \/ RosterCallFails(c)
        PROVE  strain \subseteq strain'
    BY <2>2 DEF AddWrite, SaveWrite, DeleteWrite, UploadWrite, UploadRefresh, RosterCallFails
  <2>3. QED
    BY <1>4, <2>1, <2>2 DEF RosterPageStep, FetchRead, FetchShow, FetchFails, CancelEdit, TypeOn,
       TurnTo, OthersEnlist
<1>5. QED
  BY <1>3, <1>4

\* The page that comes into view is the one that the calls left know.
LEMMA SamePage ==
  ASSUME RosterPageShape, PageInView, NEW calls \in [RosterCall -> PageCallType],
         \A b \in RosterCall : calls[b] \in {rosterCall[b], Idler},
         NEW list, NEW page, rosterCall' = Calls(calls, list, page), currentPage' = page,
         strain \subseteq strain', Turned(calls, page) \subseteq strain', "turned" \notin strain',
         NEW b \in RosterCall, rosterCall'[b].kind \in {"edit", "remove"}
  PROVE  page = currentPage /\ rosterCall'[b].page = currentPage' /\ calls[b] = rosterCall[b]
<1> DEFINE x == calls[b]
           y == rosterCall'[b]
<1>1. y.kind = x.kind /\ y.page = x.page
  BY CallsIs
<1>2. x.kind \in {"edit", "remove"} /\ x = rosterCall[b]
  BY <1>1, IdlerIs
<1>3. x.page = currentPage
  BY <1>2 DEF PageInView
<1>4. page = currentPage
  <2>1. b \in {a \in RosterCall : calls[a].kind \in {"edit", "remove"} /\ page # currentPage}
        \/ page = currentPage
    BY <1>2
  <2>2. QED
    BY <2>1 DEF Turned
<1>5. QED
  BY <1>1, <1>2, <1>3, <1>4

LEMMA PageInViewStep ==
  ASSUME RosterPageShape, PageInView, RosterPageCall \/ RosterPageStep
  PROVE  PageInView'
<1> USE DEF view
<1>0. /\ strain \subseteq strain' /\ rosterCall \in [RosterCall -> PageCallType]
      /\ currentPage \in Nat \ {0} /\ campers \in Seq(Entries) /\ PageSize \in Nat
  BY StrainGrows, PagesHoldRows DEF RosterPageShape
\* The list and the page rest, and no call comes but from this page.
<1>1. ASSUME UNCHANGED <<campers, currentPage>>,
             \A b \in RosterCall : rosterCall'[b].kind \in {"edit", "remove"} =>
               \/ rosterCall'[b].page = currentPage
               \/ rosterCall[b].kind \in {"edit", "remove"} /\ rosterCall'[b].page = rosterCall[b].page
      PROVE  PageInView'
  BY <1>0, <1>1 DEF PageInView
<1>2. ASSUME NEW c \in RosterCall, NEW x, Ask(c, x), x.page = currentPage,
             UNCHANGED <<campers, currentPage>>
      PROVE  PageInView'
  BY <1>0, <1>1, <1>2 DEF Ask
<1>3. CASE RosterPageCall
  <2>1. ASSUME NEW kind \in {"add", "edit", "remove", "upload"}, NEW v \in Layout,
               NEW l \in Line \cup {0}, NEW d \in Data \cup {NoData}
        PROVE  Posted(kind, v, l, d).page = currentPage /\ Posted(kind, v, l, d) \in PageCallType
    <3> DEFINE x == Posted(kind, v, l, d)
    <3>1. currentPage \in Nat /\ x = Posted(kind, v, l, d)
      BY <1>0
    <3> HIDE DEF x
    <3>2. QED
      BY <3>1, PostedIs
  <2>2. ASSUME NEW s PROVE [Posted("upload", "row", 0, NoData) EXCEPT !.sheet = s].page = currentPage
    <3> DEFINE y == Posted("upload", "row", 0, NoData)
    <3>1. y \in PageCallType /\ y.page = currentPage
      <4>1. "row" \in Layout /\ 0 \in Line \cup {0} /\ NoData \in Data \cup {NoData}
        BY DEF Layout
      <4>2. QED
        BY <2>1, <4>1
    <3> HIDE DEF y
    <3>2. QED
      BY <3>1 DEF PageCallType, y
  <2>3. ASSUME NEW c \in RosterCall, NEW v \in Layout, NEW l \in Line, NEW d \in Data,
               AddCamper(c, v, l, d) \/ SaveCamper(c, v, l, d)
        PROVE  PageInView'
    BY <1>2, <2>1, <2>3 DEF AddCamper, SaveCamper
  <2>4. ASSUME NEW c \in RosterCall, NEW v \in Layout, NEW l \in Line, DeleteCamper(c, v, l)
        PROVE  PageInView'
    BY <1>2, <2>1, <2>4 DEF DeleteCamper
  <2>5. ASSUME NEW c \in RosterCall, NEW s \in CamperSheet, UploadCampers(c, s) PROVE PageInView'
    BY <1>2, <2>2, <2>5 DEF UploadCampers
  <2>6. QED
    BY <1>3, <2>3, <2>4, <2>5 DEF RosterPageCall
<1>4. CASE \/ FetchRead \/ FetchFails \/ (\E v \in Layout, l \in Line : CancelEdit(v, l) \/ \E d \in Data : TypeOn(v, l, d))
           \/ \E l \in Line, d \in Data \cup {NoData} : OthersEnlist(l, d)
  BY <1>1, <1>4 DEF FetchRead, FetchFails, CancelEdit, TypeOn, OthersEnlist
<1>5. ASSUME NEW c \in RosterCall,
             \/ AddWrite(c) \/ SaveWrite(c) \/ DeleteWrite(c) \/ UploadWrite(c)
             \/ UploadRefresh(c) \/ RosterCallFails(c)
      PROVE  PageInView'
  <2>1. UNCHANGED <<campers, currentPage>>
    BY <1>5 DEF AddWrite, SaveWrite, DeleteWrite, UploadWrite, UploadRefresh, RosterCallFails
  <2>2. \A b \in RosterCall :
          \/ rosterCall'[b].kind = "none"
          \/ rosterCall'[b].kind = rosterCall[b].kind /\ rosterCall'[b].page = rosterCall[b].page
    <3> DEFINE x == rosterCall[c]
    <3>1. x \in PageCallType
      BY <1>0
    <3>2. PICK y \in {[x EXCEPT !.at = "answered"], [x EXCEPT !.at = "refresh"],
                      [x EXCEPT !.at = "answered", !.list = Rows], Idler} :
            rosterCall' = [rosterCall EXCEPT ![c] = y]
      BY <1>5 DEF AddWrite, SaveWrite, DeleteWrite, UploadWrite, UploadRefresh,
         RosterCallFails, Answers, CallOver
    <3>3. y = Idler \/ (y.kind = x.kind /\ y.page = x.page)
      <4> HIDE DEF x
      <4>1. QED
        BY <3>1, <3>2 DEF PageCallType
    <3>4. QED
      BY <1>0, <3>2, <3>3, IdlerIs
  <2>3. QED
    BY <1>1, <2>1, <2>2
<1>6. CASE FetchShow
  <2>1. /\ currentPage' = 1 /\ UNCHANGED rosterCall /\ \A b \in RosterCall : rosterCall[b] = Idler
        /\ campers' = fetched.list /\ fetched.list \in Seq(Entries)
    BY <1>6 DEF FetchShow, Render, RosterPageShape
  <2>2. campers' # <<>> => Len(campers') > 0
    BY <2>1
  <2>3. (1 - 1) * PageSize = 0
    BY <1>0
  <2>4. QED
    BY <2>1, <2>2, <2>3, IdlerIs DEF PageInView
\* Another list or page, which is not behind the last one.
<1>7. ASSUME NEW calls \in [RosterCall -> PageCallType],
             \A b \in RosterCall : calls[b] \in {rosterCall[b], Idler},
             NEW list, NEW page, rosterCall' = Calls(calls, list, page),
             campers' = list, currentPage' = page, Turned(calls, page) \subseteq strain',
             "turned" \notin strain' /\ list # <<>> => (page - 1) * PageSize < Len(list)
      PROVE  PageInView'
  <2>1. \A b \in RosterCall : "turned" \notin strain' /\ rosterCall'[b].kind \in {"edit", "remove"}
                                => rosterCall'[b].page = currentPage'
    BY <1>0, <1>7, SamePage
  <2>2. QED
    BY <1>7, <2>1 DEF PageInView
<1>8. ASSUME NEW page \in 1..(MaxLine + 1), TurnTo(page) PROVE PageInView'
  <2>1. /\ rosterCall' = Calls(rosterCall, campers, page) /\ UNCHANGED campers
        /\ currentPage' = page /\ Turned(rosterCall, page) \subseteq strain'
        /\ page \in 1..TotalPages(campers)
    BY <1>8 DEF TurnTo, Render
  <2>2. campers # <<>> => (page - 1) * PageSize < Len(campers)
    <3>1. Len(campers) \in Nat /\ (campers # <<>> => Len(campers) > 0)
      BY <1>0
    <3>2. page \in Nat /\ page <= TotalPages(campers)
      BY <2>1, <3>1, PagesAre
    <3>3. QED
      BY <3>1, <3>2, PageBegins
  <2>3. QED
    BY <1>0, <1>7, <2>1, <2>2
<1>9. ASSUME NEW c \in RosterCall, NEW list, NEW page, NEW closed, NEW behind,
             Shows(c, list, page, closed, behind),
             "turned" \notin strain' /\ list # <<>> => (page - 1) * PageSize < Len(list)
      PROVE  PageInView'
  <2> DEFINE calls == CallOver(c)
  <2>1. /\ rosterCall' = Calls(calls, list, page) /\ campers' = list /\ currentPage' = page
        /\ Turned(calls, page) \subseteq strain'
    BY <1>9 DEF Shows, Render
  <2>2. calls \in [RosterCall -> PageCallType] /\ \A b \in RosterCall : calls[b] \in {rosterCall[b], Idler}
    BY <1>0, IdlerIs DEF CallOver
  <2> HIDE DEF calls
  <2>3. QED
    BY <1>7, <1>9, <2>1, <2>2
<1>10. ASSUME NEW c \in RosterCall, AddShow(c) PROVE PageInView'
  <2> DEFINE list == Added(c)
  <2>1. Len(list) = Len(campers) + 1 /\ Len(campers) \in Nat
    <3>1. rosterCall[c] \in PageCallType /\ CallFits(rosterCall[c]) /\ rosterCall[c].kind = "add"
      BY <1>10 DEF AddShow, RosterPageShape
    <3>2. [line |-> rosterCall[c].line, data |-> rosterCall[c].data] \in Entries
      BY <3>1 DEF CallFits, ByRowKinds, Entries
    <3>3. QED
      BY <1>0, <3>2 DEF Added
  <2>2. Shows(c, list, TotalPages(list), None, None)
    BY <1>10 DEF AddShow
  <2> HIDE DEF list
  <2>3. (TotalPages(list) - 1) * PageSize < Len(list)
    BY <2>1, PagesAre
  <2>4. QED
    BY <1>9, <2>2, <2>3
<1>11. ASSUME NEW c \in RosterCall, SaveShow(c) PROVE PageInView'
  <2> DEFINE l == rosterCall[c].line
             list == [k \in DOMAIN campers |->
                        IF campers[k].line = l
                        THEN [campers[k] EXCEPT !.data = rosterCall[c].data] ELSE campers[k]]
             own == [v \in Layout |-> IF rosterCall[c].here /\ rosterCall[c].from = v
                                       THEN {l} ELSE {}]
             behind == [v \in Layout |-> {l} \ own[v]]
  <2>1. Shows(c, list, currentPage, own, behind)
    BY <1>11 DEF SaveShow
  <2>2. Len(list) = Len(campers) /\ (list # <<>> => campers # <<>>)
    BY <1>0
  <2> HIDE DEF list, own, behind
  <2>3. "turned" \notin strain' /\ list # <<>> => (currentPage - 1) * PageSize < Len(list)
    BY <1>0, <2>2 DEF PageInView
  <2>4. QED
    BY <1>9, <2>1, <2>3
<1>12. ASSUME NEW c \in RosterCall, DeleteShow(c) PROVE PageInView'
  <2> DEFINE list == Without(rosterCall[c].line)
             total == TotalPages(list)
             page == IF rosterCall[c].page > total /\ total > 0 THEN total ELSE currentPage
  <2>1. Shows(c, list, page, None, None) /\ rosterCall[c].kind = "remove"
    BY <1>12 DEF DeleteShow
  <2>2. list \in Seq(Entries)
    BY <1>0, WithoutIs
  <2> HIDE DEF list
  <2>3. /\ Len(list) \in Nat /\ (list # <<>> => Len(list) > 0)
        /\ total \in Nat /\ (Len(list) > 0 => total > 0)
    BY <2>2, PagesAre
  <2>4. ASSUME "turned" \notin strain', list # <<>> PROVE (page - 1) * PageSize < Len(list)
    <3>1. rosterCall[c].page = currentPage
      BY <1>0, <2>1, <2>4 DEF PageInView
    <3>2. page \in Nat /\ page <= total
      BY <1>0, <2>3, <2>4, <3>1
    <3> HIDE DEF page, total
    <3>3. QED
      BY <2>3, <2>4, <3>2, PageBegins DEF total
  <2> HIDE DEF page
  <2>5. QED
    BY <1>9, <2>1, <2>4
<1>13. ASSUME NEW c \in RosterCall, UploadShow(c) PROVE PageInView'
  <2>1. rosterCall[c].list \in Seq(Entries)
    BY <1>0 DEF PageCallType
  <2>2. /\ Len(rosterCall[c].list) \in Nat
        /\ rosterCall[c].list # <<>> => Len(rosterCall[c].list) > 0
    BY <2>1
  <2>3. (1 - 1) * PageSize = 0
    BY <1>0
  <2>4. rosterCall[c].list # <<>> => (1 - 1) * PageSize < Len(rosterCall[c].list)
    BY <2>2, <2>3
  <2>5. QED
    BY <1>9, <1>13, <2>4 DEF UploadShow
<1>14. QED
  BY <1>3, <1>4, <1>5, <1>6, <1>8, <1>10, <1>11, <1>12, <1>13 DEF RosterPageStep
-----------------------------------------------------------------------------
(* The page of the campers: what its list lacks. *)

PageFits(list, calls, table) ==
  /\ list \in Seq(Entries) /\ table \in Enlistments
  /\ calls \in [RosterCall -> PageCallType] /\ \A c \in RosterCall : CallFits(calls[c])

\* The stage, the row and the data of a call decide what it is to tell.
LEMMA AlikeAgree ==
  ASSUME NEW list, NEW table, NEW calls, NEW new, Agreed(list, calls, table),
         \A c \in RosterCall : /\ new[c].kind = calls[c].kind /\ new[c].at = calls[c].at
                               /\ new[c].line = calls[c].line /\ new[c].data = calls[c].data
                               /\ new[c].list = calls[c].list
  PROVE  Agreed(list, new, table)
<1>1. \A l \in Line : SettledOn(l, new) => SettledOn(l, calls)
  BY DEF SettledOn
<1>2. NoneSpoils(new)
  BY DEF Agreed, NoneSpoils
<1>3. ASSUME NEW c \in RosterCall PROVE CallTells(new[c], list, table)
  BY DEF Agreed, CallTells
<1>4. QED
  BY <1>1, <1>2, <1>3 DEF Agreed

\* A call sent about a line of its own lacks nothing yet.
LEMMA AskAgrees ==
  ASSUME NEW list, NEW table, NEW calls, PageFits(list, calls, table), Agreed(list, calls, table),
         NEW c \in RosterCall, calls[c] = Idler, NEW x \in PageCallType, CallFits(x),
         x.at = "sent", x.kind # "none",
         x.kind = "edit" => \E e \in Listed(list) : e.line = x.line,
         \A b \in RosterCall : calls[b] # Idler =>
            calls[b].kind # "upload" /\ x.kind # "upload" /\ calls[b].line # x.line,
         NEW new, new = [calls EXCEPT ![c] = x]
  PROVE  Agreed(list, new, table)
<1>1. new[c] = x /\ \A b \in RosterCall : b # c => new[b] = calls[b]
  BY DEF PageFits
<1>2. \A b \in RosterCall : b # c /\ new[b].kind # "none" => calls[b] # Idler
  BY <1>1, IdlerIs
<1>3. ASSUME NEW l \in Line, SettledOn(l, new) PROVE SettledOn(l, calls)
  BY <1>1, <1>3, IdlerIs DEF SettledOn
<1>4. CallTells(x, list, table)
  BY DEF CallTells
<1>5. NoneSpoils(new)
  BY <1>1, <1>2 DEF Agreed, NoneSpoils
<1>6. QED
  BY <1>1, <1>3, <1>4, <1>5 DEF Agreed

LEMMA OverAgrees ==
  ASSUME NEW list, NEW table, NEW calls, PageFits(list, calls, table), Agreed(list, calls, table),
         NEW c \in RosterCall, calls[c].at = "sent",
         NEW new, new = [calls EXCEPT ![c] = Idler]
  PROVE  Agreed(list, new, table)
<1>1. new[c] = Idler /\ \A b \in RosterCall : b # c => new[b] = calls[b]
  BY DEF PageFits
<1>2. ASSUME NEW l \in Line, SettledOn(l, new) PROVE SettledOn(l, calls)
  BY <1>1, <1>2 DEF SettledOn
<1>3. CallTells(Idler, list, table)
  BY IdlerIs DEF CallTells
<1>4. NoneSpoils(new)
  BY <1>1, IdlerIs DEF Agreed, NoneSpoils
<1>5. QED
  BY <1>1, <1>2, <1>3, <1>4 DEF Agreed

LEMMA EntriesAre ==
  ASSUME NEW list \in Seq(Entries), NEW e \in Listed(list)
  PROVE  e \in Entries /\ e.line \in Line /\ e.data \in Data /\ e = [line |-> e.line, data |-> e.data]
<1>1. e \in Entries
  BY DEF Listed
<1>2. QED
  BY <1>1 DEF Entries

\* The server did what a call about a line asked for: what that lacks is its answer.
LEMMA WriteAgrees ==
  ASSUME NEW list, NEW table, NEW calls, PageFits(list, calls, table), Agreed(list, calls, table),
         NEW c \in RosterCall, NEW x, x = calls[c], x.at = "sent", x.kind \in ByRowKinds,
         NEW d, d = (IF x.kind = "remove" THEN NoData ELSE x.data),
         x.kind = "add" => table[x.line] = NoData,
         NEW new, new = [calls EXCEPT ![c] = [x EXCEPT !.at = "answered"]],
         NEW after, after = [table EXCEPT ![x.line] = d]
  PROVE  Agreed(list, new, after)
<1> DEFINE y == [x EXCEPT !.at = "answered"]
<1>1. /\ x \in PageCallType /\ CallFits(x) /\ x.line \in Line
      /\ y.kind = x.kind /\ y.at = "answered" /\ y.line = x.line /\ y.data = x.data
  BY DEF PageFits, CallFits, PageCallType
<1>2. new[c] = y /\ \A b \in RosterCall : b # c => new[b] = calls[b]
  BY DEF PageFits
<1> HIDE DEF y
<1>3. after[x.line] = d /\ \A l \in Line : l # x.line => after[l] = table[l]
  BY <1>1 DEF PageFits, Enlistments
<1>4. \A b \in RosterCall : b # c /\ calls[b].kind # "none" =>
        calls[b].kind # "upload" /\ calls[b].line # x.line /\ (calls[b].line \in Line)
  <2>1. x.kind # "none"
    BY DEF ByRowKinds
  <2>2. \A b \in RosterCall : calls[b].kind \in {"none", "upload"} \cup ByRowKinds
    BY DEF PageFits, PageCallType, ByRowKinds
  <2>3. QED
    BY <2>1, <2>2 DEF Agreed, NoneSpoils, PageFits, CallFits
<1>5. NoneSpoils(new)
  BY <1>1, <1>2 DEF Agreed, NoneSpoils
<1>6. ASSUME NEW l \in Line, SettledOn(l, new) PROVE Tells(list, after, l)
  <2>1. l # x.line
    BY <1>1, <1>2, <1>6 DEF SettledOn
  <2>2. SettledOn(l, calls)
    BY <1>2, <1>6 DEF SettledOn
  <2>3. QED
    BY <1>3, <2>1, <2>2 DEF Agreed, Tells
<1>7. ASSUME NEW b \in RosterCall, b # c PROVE CallTells(new[b], list, after)
  <2>1. CallTells(calls[b], list, table) /\ new[b] = calls[b]
    BY <1>2, <1>7 DEF Agreed
  <2>2. calls[b].kind # "none" => after[calls[b].line] = table[calls[b].line]
    BY <1>3, <1>4, <1>7
  <2>3. calls[b].kind # "upload"
    BY <1>4, <1>7
  <2>4. QED
    BY <2>1, <2>2, <2>3 DEF CallTells
<1>8. CallTells(y, list, after)
  <2>1. CASE x.kind = "add"
    <3>1. SettledOn(x.line, calls)
      <4> SUFFICES ASSUME NEW b \in RosterCall, calls[b].line = x.line \/ calls[b].kind = "upload"
                   PROVE  calls[b].at \in {"idle", "sent"}
        BY DEF SettledOn
      <4>1. CASE b = c
        BY <4>1
      <4>2. CASE b # c
        BY <1>4, <4>2, IdlerIs DEF PageFits, CallFits
      <4>3. QED
        BY <4>1, <4>2
    <3>2. Tells(list, table, x.line)
      BY <1>1, <3>1 DEF Agreed
    <3>3. ASSUME NEW e \in Listed(list) PROVE e.line # x.line
      <4>1. e = [line |-> e.line, data |-> e.data] /\ e.data \in Data
        BY EntriesAre DEF PageFits
      <4>2. e.line = x.line => table[x.line] = e.data
        BY <3>2, <4>1 DEF Tells
      <4>3. QED
        BY <2>1, <4>1, <4>2, NoDataIsNone
    <3>4. QED
      BY <1>1, <1>3, <2>1, <3>3 DEF CallTells
  <2>2. CASE x.kind = "edit"
    <3>1. CallTells(x, list, table)
      BY DEF Agreed
    <3>2. QED
      BY <1>1, <1>3, <2>2, <3>1 DEF CallTells
  <2>3. CASE x.kind = "remove"
    BY <1>1, <1>3, <2>3 DEF CallTells
  <2>4. QED
    BY <2>1, <2>2, <2>3 DEF ByRowKinds
<1>9. QED
  BY <1>2, <1>5, <1>6, <1>7, <1>8 DEF Agreed

\* An upload is alone: it settles nothing before its answer.
LEMMA UploadAgrees ==
  ASSUME NEW list, NEW table, NEW calls, PageFits(list, calls, table), Agreed(list, calls, table),
         NEW c \in RosterCall, calls[c].kind = "upload",
         NEW y, y.kind = "upload", y.at \in {"refresh", "answered"},
         NEW after, y.at = "answered" => TellsAll(y.list, after),
         NEW new, new = [calls EXCEPT ![c] = y]
  PROVE  Agreed(list, new, after)
<1>1. new[c] = y /\ \A b \in RosterCall : b # c => new[b] = calls[b] /\ calls[b].kind = "none"
  BY DEF PageFits, Agreed, NoneSpoils
<1>2. \A l \in Line : ~SettledOn(l, new)
  BY <1>1 DEF SettledOn
<1>3. \A b \in RosterCall : CallTells(new[b], list, after)
  BY <1>1 DEF CallTells
<1>4. NoneSpoils(new)
  BY <1>1 DEF NoneSpoils
<1>5. QED
  BY <1>2, <1>3, <1>4 DEF Agreed

\* The answer to an addition is shown: the line comes to the list.
LEMMA AddedAgrees ==
  ASSUME NEW list, NEW table, NEW calls, PageFits(list, calls, table), Agreed(list, calls, table),
         NEW c \in RosterCall, NEW x, x = calls[c], x.at = "answered", x.kind = "add",
         NEW e, e = [line |-> x.line, data |-> x.data],
         NEW new, new = [calls EXCEPT ![c] = Idler]
  PROVE  Agreed(Append(list, e), new, table)
<1> DEFINE longer == Append(list, e)
<1>1. CallFits(x) /\ x.line \in Line /\ x.data \in Data /\ e \in Entries
  BY DEF PageFits, CallFits, ByRowKinds, Entries
<1>2. table[x.line] = x.data /\ \A f \in Listed(list) : f.line # x.line
  BY DEF Agreed, CallTells
<1>3. new[c] = Idler /\ \A b \in RosterCall : b # c => new[b] = calls[b]
  BY DEF PageFits
<1>4. /\ Len(list) \in Nat /\ DOMAIN list = 1..Len(list) /\ DOMAIN longer = 1..(Len(list) + 1)
      /\ longer[Len(list) + 1] = e /\ \A k \in 1..Len(list) : longer[k] = list[k]
  BY <1>1 DEF PageFits
<1>5. \A k : k \in DOMAIN longer <=> k \in DOMAIN list \/ k = Len(list) + 1
  BY <1>4
<1> HIDE DEF longer
<1>6. Listed(longer) = Listed(list) \cup {e}
  BY <1>4, <1>5 DEF Listed
<1>7. OnceEach(longer)
  <2>1. \A k \in DOMAIN list : list[k].line # e.line
    BY <1>2 DEF Listed
  <2>2. QED
    BY <1>4, <1>5, <2>1 DEF OnceEach, Agreed
<1>8. \A b \in RosterCall : b # c /\ calls[b].kind # "none" =>
        calls[b].kind # "upload" /\ calls[b].line # x.line
  BY DEF Agreed, NoneSpoils
<1>9. ASSUME NEW l \in Line, SettledOn(l, new) PROVE Tells(longer, table, l)
  <2>1. CASE l = x.line
    <3>1. \A d \in Data : [line |-> l, data |-> d] \in Listed(longer) <=> d = x.data
      <4> SUFFICES ASSUME NEW d \in Data
                   PROVE  [line |-> l, data |-> d] \in Listed(longer) <=> d = x.data
        OBVIOUS
      <4>1. [line |-> l, data |-> d] \notin Listed(list)
        BY <1>2, <2>1
      <4>2. [line |-> l, data |-> d] = e <=> d = x.data
        BY <2>1
      <4>3. QED
        BY <1>6, <4>1, <4>2
    <3>2. QED
      BY <1>2, <2>1, <3>1 DEF Tells
  <2>2. CASE l # x.line
    <3>1. SettledOn(l, calls)
      BY <1>3, <1>9, <2>2 DEF SettledOn
    <3>2. Tells(list, table, l)
      BY <3>1 DEF Agreed
    <3>3. \A d \in Data : [line |-> l, data |-> d] # e
      BY <2>2
    <3>4. QED
      BY <1>6, <3>2, <3>3 DEF Tells
  <2>3. QED
    BY <2>1, <2>2
<1>10. ASSUME NEW b \in RosterCall PROVE CallTells(new[b], longer, table)
  <2>1. CASE b = c
    BY <1>3, <2>1, IdlerIs DEF CallTells
  <2>2. CASE b # c
    <3>1. CallTells(calls[b], list, table) /\ new[b] = calls[b]
      BY <1>3, <2>2 DEF Agreed
    <3>2. calls[b].kind # "none" => calls[b].line # e.line
      BY <1>8, <2>2
    <3>3. QED
      BY <1>6, <3>1, <3>2 DEF CallTells
  <2>3. QED
    BY <2>1, <2>2
<1>11. NoneSpoils(new)
  BY <1>3, IdlerIs DEF Agreed, NoneSpoils
<1>12. QED
  BY <1>7, <1>9, <1>10, <1>11 DEF Agreed, longer

\* The list with what a call saved at its line.
Rewritten(saved, list, x) ==
  /\ DOMAIN saved = DOMAIN list
  /\ \A k \in DOMAIN list :
       saved[k] = IF list[k].line = x.line THEN [line |-> x.line, data |-> x.data] ELSE list[k]

\* The answer to an edit is shown: the line says what was saved.
LEMMA SavedAgrees ==
  ASSUME NEW list, NEW table, NEW calls, PageFits(list, calls, table), Agreed(list, calls, table),
         NEW c \in RosterCall, NEW x, x = calls[c], x.at = "answered", x.kind = "edit",
         NEW saved, Rewritten(saved, list, x),
         NEW new, new = [calls EXCEPT ![c] = Idler]
  PROVE  Agreed(saved, new, table)
<1>1. CallFits(x) /\ x.line \in Line /\ x.data \in Data
  BY DEF PageFits, CallFits, ByRowKinds
<1>2. table[x.line] = x.data /\ \E f \in Listed(list) : f.line = x.line
  BY DEF Agreed, CallTells
<1>3. new[c] = Idler /\ \A b \in RosterCall : b # c => new[b] = calls[b]
  BY DEF PageFits
<1>4. DOMAIN saved = DOMAIN list
  BY DEF Rewritten
<1>5. ASSUME NEW k \in DOMAIN list
      PROVE  /\ saved[k] \in Entries /\ list[k] \in Entries /\ saved[k].line = list[k].line
             /\ saved[k].data = IF list[k].line = x.line THEN x.data ELSE list[k].data
             /\ list[k].line # x.line => saved[k] = list[k]
  <2> DEFINE e == list[k]
  <2>1. e \in Entries
    BY DEF PageFits
  <2>2. saved[k] = IF e.line = x.line THEN [line |-> x.line, data |-> x.data] ELSE e
    BY DEF Rewritten
  <2> HIDE DEF e
  <2>3. /\ saved[k] \in Entries /\ e \in Entries /\ saved[k].line = e.line
        /\ saved[k].data = IF e.line = x.line THEN x.data ELSE e.data
        /\ e.line # x.line => saved[k] = e
    BY <1>1, <2>1, <2>2 DEF Entries
  <2>4. QED
    BY <2>3 DEF e
<1>6. OnceEach(saved)
  BY <1>4, <1>5 DEF OnceEach, Agreed
<1>7. \A b \in RosterCall : b # c /\ calls[b].kind # "none" =>
        calls[b].kind # "upload" /\ calls[b].line # x.line
  BY DEF Agreed, NoneSpoils
<1>8. ASSUME NEW l, \E e \in Listed(list) : e.line = l PROVE \E e \in Listed(saved) : e.line = l
  <2>1. PICK k \in DOMAIN list : list[k].line = l
    BY <1>8 DEF Listed
  <2>2. saved[k] \in Listed(saved) /\ saved[k].line = l
    BY <1>4, <1>5, <2>1 DEF Listed
  <2>3. QED
    BY <2>2
<1>9. ASSUME NEW l \in Line, SettledOn(l, new) PROVE Tells(saved, table, l)
  <2>1. CASE l = x.line
    <3>1. PICK k \in DOMAIN list : list[k].line = x.line
      BY <1>2 DEF Listed
    <3>2. saved[k] = [line |-> l, data |-> x.data]
      BY <1>5, <2>1, <3>1 DEF Entries
    <3>3. ASSUME NEW d \in Data, [line |-> l, data |-> d] \in Listed(saved) PROVE d = x.data
      <4>1. PICK j \in DOMAIN list : saved[j] = [line |-> l, data |-> d]
        BY <1>4, <3>3 DEF Listed
      <4>2. saved[j].line = l /\ saved[j].data = d
        BY <4>1
      <4>3. QED
        BY <1>5, <2>1, <4>2
    <3>4. [line |-> l, data |-> x.data] \in Listed(saved)
      BY <1>4, <3>1, <3>2 DEF Listed
    <3>5. QED
      BY <1>1, <1>2, <2>1, <3>3, <3>4 DEF Tells
  <2>2. CASE l # x.line
    <3>1. SettledOn(l, calls)
      BY <1>3, <1>9, <2>2 DEF SettledOn
    <3>2. Tells(list, table, l)
      BY <3>1 DEF Agreed
    <3>3. ASSUME NEW d \in Data
          PROVE  [line |-> l, data |-> d] \in Listed(saved)
                   <=> [line |-> l, data |-> d] \in Listed(list)
      <4> DEFINE f == [line |-> l, data |-> d]
      <4>1. f.line = l
        OBVIOUS
      <4> HIDE DEF f
      <4>2. \A k \in DOMAIN list : saved[k] = f <=> list[k] = f
        BY <1>5, <2>2, <4>1
      <4>3. QED
        BY <1>4, <4>2 DEF Listed, f
    <3>4. QED
      BY <3>2, <3>3 DEF Tells
  <2>3. QED
    BY <2>1, <2>2
<1>10. ASSUME NEW b \in RosterCall PROVE CallTells(new[b], saved, table)
  <2>1. CASE b = c
    BY <1>3, <2>1, IdlerIs DEF CallTells
  <2>2. CASE b # c
    <3>1. CallTells(calls[b], list, table) /\ new[b] = calls[b]
      BY <1>3, <2>2 DEF Agreed
    <3>2. (\A e \in Listed(list) : e.line # calls[b].line)
            => \A e \in Listed(saved) : e.line # calls[b].line
      <4>1. ASSUME NEW e \in Listed(saved) PROVE \E f \in Listed(list) : f.line = e.line
        <5>1. PICK k \in DOMAIN list : saved[k] = e
          BY <1>4 DEF Listed
        <5>2. list[k] \in Listed(list) /\ list[k].line = e.line
          BY <1>5, <5>1 DEF Listed
        <5>3. QED
          BY <5>2
      <4>2. QED
        BY <4>1
    <3>3. calls[b].kind = "edit" => \E e \in Listed(saved) : e.line = calls[b].line
      <4>1. calls[b].kind = "edit" => \E e \in Listed(list) : e.line = calls[b].line
        BY <3>1 DEF CallTells
      <4>2. QED
        BY <1>8, <4>1
    <3>4. QED
      BY <3>1, <3>2, <3>3 DEF CallTells
  <2>3. QED
    BY <2>1, <2>2
<1>11. NoneSpoils(new)
  BY <1>3, IdlerIs DEF Agreed, NoneSpoils
<1>12. QED
  BY <1>6, <1>9, <1>10, <1>11 DEF Agreed

\* The answer to a deletion is shown: the line is off the list.
LEMMA DeletedAgrees ==
  ASSUME NEW list, NEW table, NEW calls, PageFits(list, calls, table), Agreed(list, calls, table),
         NEW c \in RosterCall, NEW x, x = calls[c], x.at = "answered", x.kind = "remove",
         NEW less, OnceEach(less),
         \A e : e \in Listed(less) <=> e \in Listed(list) /\ e.line # x.line,
         NEW new, new = [calls EXCEPT ![c] = Idler]
  PROVE  Agreed(less, new, table)
<1>1. CallFits(x) /\ x.line \in Line
  BY DEF PageFits, CallFits, ByRowKinds
<1>2. table[x.line] = NoData
  BY DEF Agreed, CallTells
<1>3. new[c] = Idler /\ \A b \in RosterCall : b # c => new[b] = calls[b]
  BY DEF PageFits
<1>4. \A b \in RosterCall : b # c /\ calls[b].kind # "none" =>
        calls[b].kind # "upload" /\ calls[b].line # x.line
  BY DEF Agreed, NoneSpoils
<1>5. ASSUME NEW l \in Line, SettledOn(l, new) PROVE Tells(less, table, l)
  <2>1. CASE l = x.line
    <3>1. \A d \in Data : [line |-> l, data |-> d] \notin Listed(less)
      BY <2>1
    <3>2. QED
      BY <1>2, <2>1, <3>1, NoDataIsNone DEF Tells
  <2>2. CASE l # x.line
    <3>1. SettledOn(l, calls)
      BY <1>3, <1>5, <2>2 DEF SettledOn
    <3>2. Tells(list, table, l)
      BY <3>1 DEF Agreed
    <3>3. \A d \in Data : [line |-> l, data |-> d] \in Listed(less)
                            <=> [line |-> l, data |-> d] \in Listed(list)
      BY <2>2
    <3>4. QED
      BY <3>2, <3>3 DEF Tells
  <2>3. QED
    BY <2>1, <2>2
<1>6. ASSUME NEW b \in RosterCall PROVE CallTells(new[b], less, table)
  <2>1. CASE b = c
    BY <1>3, <2>1, IdlerIs DEF CallTells
  <2>2. CASE b # c
    <3>1. CallTells(calls[b], list, table) /\ new[b] = calls[b]
      BY <1>3, <2>2 DEF Agreed
    <3>2. calls[b].kind # "none" => calls[b].line # x.line
      BY <1>4, <2>2
    <3>3. QED
      BY <3>1, <3>2 DEF CallTells
  <2>3. QED
    BY <2>1, <2>2
<1>7. NoneSpoils(new)
  BY <1>3, IdlerIs DEF Agreed, NoneSpoils
<1>8. QED
  BY <1>5, <1>6, <1>7 DEF Agreed

\* The list was read again after an upload, which was alone.
LEMMA RefreshAgrees ==
  ASSUME NEW list, NEW table, NEW calls, PageFits(list, calls, table), Agreed(list, calls, table),
         NEW c \in RosterCall, calls[c].kind = "upload", calls[c].at = "answered",
         NEW new, new = [calls EXCEPT ![c] = Idler]
  PROVE  Agreed(calls[c].list, new, table)
<1>1. TellsAll(calls[c].list, table)
  BY DEF Agreed, CallTells
<1>2. \A b \in RosterCall : new[b].kind = "none"
  BY IdlerIs DEF PageFits, Agreed, NoneSpoils
<1>3. QED
  BY <1>1, <1>2 DEF Agreed, TellsAll, CallTells, NoneSpoils

\* Every step leaves the list of the page as it should be.
LEMMA PageTellsStep ==
  ASSUME RosterPageShape, PageTells, RosterPageCall \/ RosterPageStep
  PROVE  PageTells'
<1> USE DEF view
<1>0. /\ strain \subseteq strain' /\ rosterCall \in [RosterCall -> PageCallType]
      /\ \A c \in RosterCall : CallFits(rosterCall[c])
      /\ currentPage \in Nat /\ campers \in Seq(Entries) /\ enlisted \in Enlistments
      /\ PageFits(campers, rosterCall, enlisted)
  BY StrainGrows DEF RosterPageShape, PageFits
<1>1. SUFFICES ASSUME Unspoilt'
               PROVE  /\ fetched'.at = "answered" => TellsAll(fetched'.list, enlisted')
                      /\ fetched'.at = "done" => Agreed(campers', rosterCall', enlisted')
  BY DEF PageTells
<1>2. Unspoilt
  BY <1>0, <1>1 DEF Unspoilt
\* A step of an open page that leaves `fetched' alone.
<1>3. ASSUME fetched' = fetched, fetched.at = "done",
             Agreed(campers, rosterCall, enlisted) => Agreed(campers', rosterCall', enlisted')
      PROVE  /\ fetched'.at = "answered" => TellsAll(fetched'.list, enlisted')
             /\ fetched'.at = "done" => Agreed(campers', rosterCall', enlisted')
  BY <1>2, <1>3 DEF PageTells
<1>4. ASSUME NEW c \in RosterCall, rosterCall[c] # Idler PROVE fetched.at = "done"
  BY <1>4 DEF RosterPageShape
<1>5. ASSUME NEW c \in RosterCall, NEW x, Ask(c, x), UNCHANGED campers, x \in PageCallType, CallFits(x),
             x.at = "sent", x.kind # "none",
             x.kind = "edit" => \E e \in Listed(campers) : e.line = x.line
      PROVE  /\ fetched'.at = "answered" => TellsAll(fetched'.list, enlisted')
             /\ fetched'.at = "done" => Agreed(campers', rosterCall', enlisted')
  <2>1. ~Overlaps(x.kind, x.line)
    BY <1>1, <1>5 DEF Ask, Unspoilt
  <2>2. \A b \in RosterCall : rosterCall[b] # Idler =>
          rosterCall[b].kind # "upload" /\ x.kind # "upload" /\ rosterCall[b].line # x.line
    BY <2>1 DEF Overlaps
  <2>3. /\ rosterCall' = [rosterCall EXCEPT ![c] = x] /\ rosterCall[c] = Idler
        /\ UNCHANGED <<enlisted, fetched>> /\ fetched.at = "done"
    BY <1>5 DEF Ask
  <2>4. Agreed(campers, rosterCall, enlisted) => Agreed(campers, rosterCall', enlisted)
    BY <1>0, <1>5, <2>2, <2>3, AskAgrees
  <2>5. QED
    BY <1>3, <1>5, <2>3, <2>4
<1>6. CASE RosterPageCall
  <2>1. ASSUME NEW kind \in {"add", "edit", "remove", "upload"}, NEW v \in Layout,
               NEW l \in Line \cup {0}, NEW d \in Data \cup {NoData}
        PROVE  /\ Posted(kind, v, l, d) \in PageCallType /\ Posted(kind, v, l, d).kind = kind
               /\ Posted(kind, v, l, d).at = "sent" /\ Posted(kind, v, l, d).line = l
               /\ Posted(kind, v, l, d).data = d
    <3> DEFINE x == Posted(kind, v, l, d)
    <3>1. currentPage \in Nat /\ x = Posted(kind, v, l, d)
      BY <1>0
    <3> HIDE DEF x
    <3>2. QED
      BY <3>1, PostedIs
  <2>2. ASSUME NEW s \in CamperSheet, NEW y, y = [Posted("upload", "row", 0, NoData) EXCEPT !.sheet = s]
        PROVE  y \in PageCallType /\ CallFits(y) /\ y.kind = "upload" /\ y.at = "sent"
    <3> DEFINE x == Posted("upload", "row", 0, NoData)
    <3>1. x \in PageCallType /\ x.kind = "upload" /\ x.at = "sent" /\ x.line = 0
      <4>1. "row" \in Layout /\ 0 \in Line \cup {0} /\ NoData \in Data \cup {NoData}
        BY DEF Layout
      <4>2. QED
        BY <2>1, <4>1
    <3>2. y = [x EXCEPT !.sheet = s]
      BY <2>2
    <3> HIDE DEF x
    <3>3. /\ y \in PageCallType /\ y.kind = "upload" /\ y.at = "sent" /\ y.line = 0
          /\ y.sheet \in CamperSheet
      BY <3>1, <3>2 DEF PageCallType
    <3>4. QED
      BY <3>3 DEF CallFits, ByRowKinds
  <2>3. ASSUME NEW c \in RosterCall, NEW v \in Layout, NEW l \in Line, NEW d \in Data,
               AddCamper(c, v, l, d)
        PROVE  /\ fetched'.at = "answered" => TellsAll(fetched'.list, enlisted')
               /\ fetched'.at = "done" => Agreed(campers', rosterCall', enlisted')
    <3> DEFINE x == Posted("add", v, l, d)
    <3>1. /\ x \in PageCallType /\ x.kind = "add" /\ x.at = "sent" /\ x.line = l /\ x.data = d
      BY <2>1
    <3>2. Ask(c, x) /\ UNCHANGED campers
      BY <2>3 DEF AddCamper
    <3> HIDE DEF x
    <3>3. CallFits(x)
      BY <3>1 DEF CallFits, ByRowKinds
    <3>4. QED
      BY <1>5, <3>1, <3>2, <3>3
  <2>4. ASSUME NEW c \in RosterCall, NEW v \in Layout, NEW l \in Line, NEW d \in Data,
               SaveCamper(c, v, l, d)
        PROVE  /\ fetched'.at = "answered" => TellsAll(fetched'.list, enlisted')
               /\ fetched'.at = "done" => Agreed(campers', rosterCall', enlisted')
    <3> DEFINE x == Posted("edit", v, l, d)
    <3>1. /\ x \in PageCallType /\ x.kind = "edit" /\ x.at = "sent" /\ x.line = l /\ x.data = d
      BY <2>1
    <3>2. Ask(c, x) /\ UNCHANGED campers /\ l \in InView
      BY <2>4 DEF SaveCamper, MaySave
    <3> HIDE DEF x
    <3>3. CallFits(x)
      BY <3>1 DEF CallFits, ByRowKinds
    <3>4. \E e \in Listed(campers) : e.line = x.line
      <4>1. \E k \in DOMAIN campers : campers[k].line = l
        BY <3>2, MountedIs DEF InView
      <4>2. QED
        BY <3>1, <4>1 DEF Listed
    <3>5. QED
      BY <1>5, <3>1, <3>2, <3>3, <3>4
  <2>5. ASSUME NEW c \in RosterCall, NEW v \in Layout, NEW l \in Line, DeleteCamper(c, v, l)
        PROVE  /\ fetched'.at = "answered" => TellsAll(fetched'.list, enlisted')
               /\ fetched'.at = "done" => Agreed(campers', rosterCall', enlisted')
    <3> DEFINE x == Posted("remove", v, l, NoData)
    <3>1. /\ x \in PageCallType /\ x.kind = "remove" /\ x.at = "sent" /\ x.line = l
      BY <2>1
    <3>2. Ask(c, x) /\ UNCHANGED campers
      BY <2>5 DEF DeleteCamper
    <3> HIDE DEF x
    <3>3. CallFits(x)
      BY <3>1 DEF CallFits, ByRowKinds
    <3>4. QED
      BY <1>5, <3>1, <3>2, <3>3
  <2>6. ASSUME NEW c \in RosterCall, NEW s \in CamperSheet, UploadCampers(c, s)
        PROVE  /\ fetched'.at = "answered" => TellsAll(fetched'.list, enlisted')
               /\ fetched'.at = "done" => Agreed(campers', rosterCall', enlisted')
    <3> DEFINE y == [Posted("upload", "row", 0, NoData) EXCEPT !.sheet = s]
    <3>1. Ask(c, y) /\ UNCHANGED campers
      BY <2>6 DEF UploadCampers
    <3>2. y \in PageCallType /\ CallFits(y) /\ y.kind = "upload" /\ y.at = "sent"
      <4>1. y = [Posted("upload", "row", 0, NoData) EXCEPT !.sheet = s]
        OBVIOUS
      <4> HIDE DEF y
      <4>2. QED
        BY <2>2, <4>1
    <3> HIDE DEF y
    <3>3. QED
      BY <1>5, <3>1, <3>2
  <2>7. QED
    BY <1>6, <2>3, <2>4, <2>5, <2>6 DEF RosterPageCall
<1>7. CASE FetchRead \/ FetchFails
  BY <1>0, <1>7, RowsTell DEF FetchRead, FetchFails
<1>8. CASE FetchShow
  <2>1. /\ fetched.at = "answered" /\ fetched'.at = "done" /\ campers' = fetched.list
        /\ UNCHANGED <<enlisted, rosterCall>>
    BY <1>8 DEF FetchShow, Render
  <2>2. TellsAll(fetched.list, enlisted)
    BY <1>2, <2>1 DEF PageTells
  <2>3. \A b \in RosterCall : rosterCall[b].kind = "none"
    BY <2>1, IdlerIs DEF RosterPageShape
  <2>4. Agreed(fetched.list, rosterCall, enlisted)
    BY <2>2, <2>3 DEF Agreed, TellsAll, CallTells, NoneSpoils
  <2>5. QED
    BY <2>1, <2>4
<1>9. ASSUME NEW v \in Layout, NEW l \in Line, NEW d, CancelEdit(v, l) \/ TypeOn(v, l, d)
      PROVE  /\ fetched'.at = "answered" => TellsAll(fetched'.list, enlisted')
             /\ fetched'.at = "done" => Agreed(campers', rosterCall', enlisted')
  BY <1>2, <1>9 DEF CancelEdit, TypeOn, PageTells
<1>10. ASSUME NEW l \in Line, NEW d \in Data \cup {NoData}, OthersEnlist(l, d)
       PROVE  /\ fetched'.at = "answered" => TellsAll(fetched'.list, enlisted')
              /\ fetched'.at = "done" => Agreed(campers', rosterCall', enlisted')
  BY <1>1, <1>10 DEF OthersEnlist, Unspoilt
\* The page shows a list on which its calls agree.
<1>11. ASSUME NEW list, NEW calls \in [RosterCall -> PageCallType], NEW page,
              rosterCall' = Calls(calls, list, page), campers' = list,
              UNCHANGED <<enlisted, fetched>>, fetched.at = "done",
              Agreed(campers, rosterCall, enlisted) => Agreed(list, calls, enlisted)
       PROVE  /\ fetched'.at = "answered" => TellsAll(fetched'.list, enlisted')
              /\ fetched'.at = "done" => Agreed(campers', rosterCall', enlisted')
  <2> DEFINE new == Calls(calls, list, page)
  <2>1. \A b \in RosterCall : /\ new[b].kind = calls[b].kind /\ new[b].at = calls[b].at
                              /\ new[b].line = calls[b].line /\ new[b].data = calls[b].data
                              /\ new[b].list = calls[b].list
    BY CallsIs
  <2> HIDE DEF new
  <2>2. Agreed(list, calls, enlisted) => Agreed(list, new, enlisted)
    BY <2>1, AlikeAgree
  <2>3. QED
    BY <1>3, <1>11, <2>2 DEF new
<1>12. ASSUME NEW page \in 1..(MaxLine + 1), TurnTo(page)
       PROVE  /\ fetched'.at = "answered" => TellsAll(fetched'.list, enlisted')
              /\ fetched'.at = "done" => Agreed(campers', rosterCall', enlisted')
  <2>1. /\ rosterCall' = Calls(rosterCall, campers, page) /\ UNCHANGED <<campers, enlisted, fetched>>
        /\ fetched.at = "done"
    BY <1>12 DEF TurnTo, Render
  <2>2. QED
    BY <1>0, <1>11, <2>1
<1>13. ASSUME NEW c \in RosterCall, NEW list, NEW page, NEW closed, NEW behind,
              Shows(c, list, page, closed, behind),
              \A calls : calls = [rosterCall EXCEPT ![c] = Idler]
                           => (Agreed(campers, rosterCall, enlisted) => Agreed(list, calls, enlisted))
       PROVE  /\ fetched'.at = "answered" => TellsAll(fetched'.list, enlisted')
              /\ fetched'.at = "done" => Agreed(campers', rosterCall', enlisted')
  <2> DEFINE calls == CallOver(c)
  <2>1. calls = [rosterCall EXCEPT ![c] = Idler] /\ calls \in [RosterCall -> PageCallType]
    BY <1>0, IdlerIs DEF CallOver
  <2>2. /\ rosterCall' = Calls(calls, list, page) /\ campers' = list /\ UNCHANGED <<enlisted, fetched>>
        /\ rosterCall[c].at = "answered"
    BY <1>13 DEF Shows, Render
  <2>3. fetched.at = "done"
    BY <1>4, <2>2, IdlerIs
  <2> HIDE DEF calls
  <2>4. QED
    BY <1>11, <1>13, <2>1, <2>2, <2>3
<1>14. ASSUME NEW c \in RosterCall, AddShow(c)
       PROVE  /\ fetched'.at = "answered" => TellsAll(fetched'.list, enlisted')
              /\ fetched'.at = "done" => Agreed(campers', rosterCall', enlisted')
  <2> DEFINE x == rosterCall[c]
             e == [line |-> x.line, data |-> x.data]
  <2>1. /\ x.kind = "add" /\ x.at = "answered"
        /\ Shows(c, Append(campers, e), TotalPages(Added(c)), None, None)
    BY <1>14 DEF AddShow, Shows, Added
  <2>2. ASSUME Agreed(campers, rosterCall, enlisted), NEW calls, calls = [rosterCall EXCEPT ![c] = Idler]
        PROVE  Agreed(Append(campers, e), calls, enlisted)
    <3>1. x = rosterCall[c] /\ e = [line |-> x.line, data |-> x.data]
      OBVIOUS
    <3> HIDE DEF x, e
    <3>2. QED
      BY <1>0, <2>1, <2>2, <3>1, AddedAgrees
  <2> HIDE DEF e
  <2>3. QED
    BY <1>13, <2>1, <2>2
<1>15. ASSUME NEW c \in RosterCall, SaveShow(c)
       PROVE  /\ fetched'.at = "answered" => TellsAll(fetched'.list, enlisted')
              /\ fetched'.at = "done" => Agreed(campers', rosterCall', enlisted')
  <2> DEFINE x == rosterCall[c]
             saved == [k \in DOMAIN campers |-> IF campers[k].line = x.line
                         THEN [campers[k] EXCEPT !.data = x.data] ELSE campers[k]]
  <2>1. /\ x.kind = "edit" /\ x.at = "answered"
        /\ \E closed, behind : Shows(c, saved, currentPage, closed, behind)
    BY <1>15 DEF SaveShow, Shows
  <2>2. ASSUME Agreed(campers, rosterCall, enlisted), NEW calls, calls = [rosterCall EXCEPT ![c] = Idler]
        PROVE  Agreed(saved, calls, enlisted)
    <3>1. ASSUME NEW k \in DOMAIN campers
          PROVE  saved[k] = IF campers[k].line = x.line THEN [line |-> x.line, data |-> x.data]
                            ELSE campers[k]
      <4> DEFINE e == campers[k]
      <4>1. e \in Entries /\ saved[k] = IF e.line = x.line THEN [e EXCEPT !.data = x.data] ELSE e
        BY <1>0
      <4> HIDE DEF e, x, saved
      <4>2. saved[k] = IF e.line = x.line THEN [line |-> x.line, data |-> x.data] ELSE e
        BY <4>1 DEF Entries
      <4>3. QED
        BY <4>2 DEF e
    <3>2. x = rosterCall[c] /\ DOMAIN saved = DOMAIN campers /\ PageFits(campers, rosterCall, enlisted)
      BY <1>0
    <3> HIDE DEF x, saved
    <3>3. Rewritten(saved, campers, x)
      BY <3>1, <3>2 DEF Rewritten
    <3>4. QED
      BY <2>1, <2>2, <3>2, <3>3, SavedAgrees
  <2> HIDE DEF saved
  <2>3. QED
    BY <1>13, <2>1, <2>2
<1>16. ASSUME NEW c \in RosterCall, DeleteShow(c)
       PROVE  /\ fetched'.at = "answered" => TellsAll(fetched'.list, enlisted')
              /\ fetched'.at = "done" => Agreed(campers', rosterCall', enlisted')
  <2> DEFINE x == rosterCall[c]
             less == Without(x.line)
  <2>1. /\ x.kind = "remove" /\ x.at = "answered"
        /\ \E page : Shows(c, less, page, None, None)
    BY <1>16 DEF DeleteShow, Shows
  <2>2. /\ \A e : e \in Listed(less) <=> e \in Listed(campers) /\ e.line # x.line
        /\ OnceEach(campers) => OnceEach(less)
    BY <1>0, WithoutIs
  <2>3. ASSUME Agreed(campers, rosterCall, enlisted), NEW calls, calls = [rosterCall EXCEPT ![c] = Idler]
        PROVE  Agreed(less, calls, enlisted)
    <3>1. x = rosterCall[c]
      OBVIOUS
    <3>2. OnceEach(less)
      BY <2>2, <2>3 DEF Agreed
    <3> HIDE DEF x, less
    <3>3. QED
      BY <1>0, <2>1, <2>2, <2>3, <3>1, <3>2, DeletedAgrees
  <2> HIDE DEF less
  <2>4. QED
    BY <1>13, <2>1, <2>3
<1>17. ASSUME NEW c \in RosterCall, UploadShow(c)
       PROVE  /\ fetched'.at = "answered" => TellsAll(fetched'.list, enlisted')
              /\ fetched'.at = "done" => Agreed(campers', rosterCall', enlisted')
  <2>1. /\ rosterCall[c].kind = "upload" /\ rosterCall[c].at = "answered"
        /\ \E behind : Shows(c, rosterCall[c].list, 1, None, behind)
    BY <1>17 DEF UploadShow, Shows
  <2>2. ASSUME Agreed(campers, rosterCall, enlisted), NEW calls, calls = [rosterCall EXCEPT ![c] = Idler]
        PROVE  Agreed(rosterCall[c].list, calls, enlisted)
    BY <1>0, <2>1, <2>2, RefreshAgrees
  <2>3. QED
    BY <1>13, <2>1, <2>2
\* What the server does, and what the page never hears.
<1>18. ASSUME NEW c \in RosterCall, AddWrite(c) \/ SaveWrite(c) \/ DeleteWrite(c)
       PROVE  /\ fetched'.at = "answered" => TellsAll(fetched'.list, enlisted')
              /\ fetched'.at = "done" => Agreed(campers', rosterCall', enlisted')
  <2> DEFINE x == rosterCall[c]
             d == IF x.kind = "remove" THEN NoData ELSE x.data
  <2>1. /\ x.at = "sent" /\ x.kind \in ByRowKinds /\ UNCHANGED <<campers, fetched>>
    BY <1>18 DEF AddWrite, SaveWrite, DeleteWrite, ByRowKinds
  <2>2. fetched.at = "done"
    BY <1>4, <2>1, IdlerIs
  <2>3. ASSUME Agreed(campers, rosterCall, enlisted)
        PROVE  Agreed(campers, rosterCall', enlisted')
    <3>1. CASE enlisted' = [enlisted EXCEPT ![x.line] = d] /\ Answers(c)
               /\ (x.kind = "add" => enlisted[x.line] = NoData)
      <4>1. rosterCall' = [rosterCall EXCEPT ![c] = [x EXCEPT !.at = "answered"]]
        BY <1>0, <3>1 DEF Answers
      <4>2. x = rosterCall[c] /\ d = (IF x.kind = "remove" THEN NoData ELSE x.data)
        OBVIOUS
      <4> HIDE DEF x, d
      <4>3. QED
        BY <1>0, <2>1, <2>3, <3>1, <4>1, <4>2, WriteAgrees
    <3>2. CASE UNCHANGED enlisted /\ rosterCall' = CallOver(c)
      <4>1. rosterCall' = [rosterCall EXCEPT ![c] = Idler] /\ rosterCall[c].at = "sent"
        BY <2>1, <3>2 DEF CallOver
      <4>2. Agreed(campers, rosterCall', enlisted)
        BY <1>0, <2>3, <4>1, OverAgrees
      <4>3. QED
        BY <3>2, <4>2
    <3>3. CASE AddWrite(c)
      BY <3>1, <3>2, <3>3 DEF AddWrite
    <3>4. CASE DeleteWrite(c)
      BY <3>1, <3>4 DEF DeleteWrite
    <3>5. CASE SaveWrite(c)
      <4>1. CASE enlisted[x.line] # NoData
        <5>1. enlisted' = [enlisted EXCEPT ![x.line] = d] /\ Answers(c) /\ x.kind = "edit"
          BY <3>5, <4>1 DEF SaveWrite
        <5>2. QED
          BY <3>1, <5>1
      <4>2. enlisted[x.line] # NoData
        <5>1. x.kind = "edit" /\ x.line \in Line
          BY <1>0, <3>5 DEF SaveWrite, CallFits, ByRowKinds
        <5>2. PICK e \in Listed(campers) : e.line = x.line
          BY <2>3, <5>1 DEF Agreed, CallTells
        <5>3. \A b \in RosterCall : b # c => rosterCall[b].kind = "none"
                 \/ (rosterCall[b].line # x.line /\ rosterCall[b].kind # "upload")
          BY <2>3, <5>1 DEF Agreed, NoneSpoils
        <5>4. \A b \in RosterCall : rosterCall[b].kind = "none" => rosterCall[b].at = "idle"
          BY <1>0, IdlerIs DEF CallFits
        <5>5. SettledOn(x.line, rosterCall)
          BY <2>1, <5>3, <5>4 DEF SettledOn
        <5>6. Tells(campers, enlisted, x.line)
          BY <2>3, <5>1, <5>5 DEF Agreed
        <5>7. e = [line |-> x.line, data |-> e.data] /\ e.data \in Data
          BY <1>0, <5>2, EntriesAre
        <5>8. enlisted[x.line] = e.data
          BY <5>2, <5>6, <5>7 DEF Tells
        <5>9. QED
          BY <5>7, <5>8, NoDataIsNone
      <4>3. QED
        BY <4>1, <4>2
    <3>6. QED
      BY <1>18, <3>3, <3>4, <3>5
  <2>4. QED
    BY <1>3, <2>1, <2>2, <2>3
<1>19. ASSUME NEW c \in RosterCall, UploadWrite(c) \/ UploadRefresh(c)
       PROVE  /\ fetched'.at = "answered" => TellsAll(fetched'.list, enlisted')
              /\ fetched'.at = "done" => Agreed(campers', rosterCall', enlisted')
  <2> DEFINE x == rosterCall[c]
  <2>1. x \in PageCallType /\ CallFits(x) /\ UNCHANGED <<campers, fetched>> /\ x.at \in {"sent", "refresh"}
    BY <1>0, <1>19 DEF UploadWrite, UploadRefresh
  <2>2. fetched.at = "done"
    BY <1>4, <2>1, IdlerIs
  <2>3. x.kind = "upload"
    <3>1. x.at = "refresh" => x.kind \notin ByRowKinds /\ x.kind # "none"
      BY <2>1, IdlerIs DEF CallFits
    <3>2. x.kind \in {"none", "upload"} \cup ByRowKinds
      BY <2>1 DEF PageCallType, ByRowKinds
    <3>3. QED
      BY <1>19, <2>1, <3>1, <3>2 DEF UploadWrite, UploadRefresh
  <2>4. PICK y : /\ rosterCall' = [rosterCall EXCEPT ![c] = y]
                 /\ y.kind = "upload" /\ y.at \in {"refresh", "answered"}
                 /\ y.at = "answered" => TellsAll(y.list, enlisted')
    <3>1. CASE UploadWrite(c)
      <4> DEFINE y == [x EXCEPT !.at = "refresh"]
      <4>1. rosterCall' = [rosterCall EXCEPT ![c] = y]
        BY <1>0, <3>1 DEF UploadWrite
      <4>2. y.kind = "upload" /\ y.at = "refresh"
        <5> HIDE DEF x
        <5>1. QED
          BY <2>1, <2>3 DEF PageCallType
      <4> HIDE DEF y
      <4>3. QED
        BY <4>1, <4>2
    <3>2. CASE UploadRefresh(c)
      <4> DEFINE y == [x EXCEPT !.at = "answered", !.list = Rows]
      <4>1. rosterCall' = [rosterCall EXCEPT ![c] = y] /\ UNCHANGED enlisted
        BY <1>0, <3>2 DEF UploadRefresh
      <4>2. y.kind = "upload" /\ y.at = "answered" /\ y.list = Rows
        <5> HIDE DEF x
        <5>1. QED
          BY <2>1, <2>3 DEF PageCallType
      <4> HIDE DEF y
      <4>3. TellsAll(Rows, enlisted')
        BY <1>0, <4>1, RowsTell
      <4>4. QED
        BY <4>1, <4>2, <4>3
    <3>3. QED
      BY <1>19, <3>1, <3>2
  <2>5. Agreed(campers, rosterCall, enlisted) => Agreed(campers, rosterCall', enlisted')
    BY <1>0, <2>3, <2>4, UploadAgrees
  <2>6. QED
    BY <1>3, <2>1, <2>2, <2>5
<1>20. ASSUME NEW c \in RosterCall, RosterCallFails(c)
       PROVE  /\ fetched'.at = "answered" => TellsAll(fetched'.list, enlisted')
              /\ fetched'.at = "done" => Agreed(campers', rosterCall', enlisted')
  <2>1. /\ rosterCall[c].at = "sent" /\ rosterCall' = [rosterCall EXCEPT ![c] = Idler]
        /\ UNCHANGED <<campers, enlisted, fetched>> /\ rosterCall[c] # Idler
    BY <1>1, <1>20 DEF RosterCallFails, Unspoilt, CallOver
  <2>2. Agreed(campers, rosterCall, enlisted) => Agreed(campers, rosterCall', enlisted)
    BY <1>0, <2>1, OverAgrees
  <2>3. QED
    BY <1>3, <1>4, <2>1, <2>2
<1>21. QED
  BY <1>6, <1>7, <1>8, <1>9, <1>10, <1>12, <1>14, <1>15, <1>16, <1>17, <1>18, <1>19, <1>20
     DEF RosterPageStep
-----------------------------------------------------------------------------
(* The page of the campers: its rows in view. *)

LEMMA SameSays ==
  ASSUME NEW a, NEW b, OnceEach(a), OnceEach(b), NEW e \in Listed(a), e \in Listed(b)
  PROVE  Says(a, e.line) = Says(b, e.line)
  BY SaysIs

\* What the page shows a call in it knows: the row it is about is in view, or not its own.
LEMMA CallsSee ==
  ASSUME NEW calls \in [RosterCall -> PageCallType], NEW list, NEW page
  PROVE  InSight(list, page, Calls(calls, list, page))
<1>1. ASSUME NEW b \in RosterCall, NEW y, y = Calls(calls, list, page)[b],
             y.kind \in {"edit", "remove"}, y.here
      PROVE  y.line \in Mounted(list, page)
  <2> DEFINE x == calls[b]
  <2>1. /\ y.kind = x.kind /\ y.line = x.line
        /\ y.here <=> x.here /\ (x.line \in Mounted(list, page) \/ x.kind = "add")
    BY <1>1, CallsIs
  <2> HIDE DEF x
  <2>2. QED
    BY <1>1, <2>1
<1>2. QED
  BY <1>1 DEF InSight

\* The page shows a list: what it keeps in view in a layout is as it was, or was
\* saved there, or went astray.
LEMMA RenderEdits ==
  ASSUME RosterPageShape, NEW v \in Layout,
         Edited(v, campers, currentPage, drafts[v], editing[v], astray[v], rosterCall),
         InSight(campers, currentPage, rosterCall),
         NEW calls \in [RosterCall -> PageCallType],
         \A b \in RosterCall : calls[b] \in {rosterCall[b], Idler},
         NEW list, NEW page, NEW closed, NEW behind, Render(list, page, closed, behind),
         rosterCall' = Calls(calls, list, page),
         \A l \in (InView \cap Mounted(list, page)) \ behind[v] :
           /\ l \notin editing[v] \cup astray[v] => Says(list, l) = Says(campers, l)
           /\ l \in (editing[v] \cap closed[v]) \ astray[v] => drafts[v][l] = Says(list, l),
         \A b \in RosterCall : /\ calls[b].kind = "edit" /\ calls[b].here /\ calls[b].from = v
                               /\ calls[b].line \notin behind[v]
                               => calls[b].line \notin closed[v],
         Mounted(list, page) \subseteq Line
  PROVE  Edited(v, campers', currentPage', drafts'[v], editing'[v], astray'[v], rosterCall')
<1> DEFINE after == Mounted(list, page)
<1>1. /\ campers' = list /\ currentPage' = page
      /\ editing'[v] = (editing[v] \cap after) \ closed[v]
      /\ astray'[v] = (astray[v] \cup behind[v]) \cap after \cap InView
      /\ \A l \in Line : drafts'[v][l] = IF l \notin after THEN NoData
                                         ELSE IF l \in InView THEN drafts[v][l] ELSE Says(list, l)
  BY DEF Render
<1>2. ASSUME NEW l \in after \ (editing'[v] \cup astray'[v]) PROVE drafts'[v][l] = Says(list, l)
  <2>1. l \in Line /\ drafts'[v][l] = IF l \in InView THEN drafts[v][l] ELSE Says(list, l)
    BY <1>1
  <2>2. CASE l \notin InView
    BY <2>1, <2>2
  <2>3. CASE l \in InView /\ l \notin editing[v]
    <3>1. l \notin astray[v] /\ l \notin behind[v]
      BY <1>1, <2>3
    <3>2. drafts[v][l] = Says(campers, l)
      BY <2>3, <3>1 DEF Edited, InView
    <3>3. QED
      BY <2>1, <2>3, <3>1, <3>2
  <2>4. CASE l \in InView /\ l \in editing[v]
    BY <1>1, <2>1, <2>4
  <2>5. QED
    BY <2>2, <2>3, <2>4
<1>3. ASSUME NEW b \in RosterCall, NEW y, y = rosterCall'[b],
             y.kind = "edit", y.here, y.from = v, y.line \notin astray'[v]
      PROVE  y.line \in editing'[v] /\ drafts'[v][y.line] = y.data
  <2> DEFINE x == calls[b]
  <2>1. /\ y.kind = x.kind /\ y.line = x.line /\ y.data = x.data /\ y.from = x.from
        /\ y.here <=> x.here /\ (x.line \in after \/ x.kind = "add")
    BY <1>3, CallsIs
  <2>2. x.kind = "edit" /\ x = rosterCall[b] /\ x.here /\ x.line \in after /\ x.from = v
    BY <1>3, <2>1, IdlerIs
  <2>3. x.line \in InView
    BY <2>2 DEF InSight, InView
  <2>4. x.line \notin astray[v] /\ x.line \notin behind[v]
    BY <1>1, <1>3, <2>1, <2>2, <2>3
  <2>5. x.line \in editing[v] /\ drafts[v][x.line] = x.data
    BY <2>2, <2>4 DEF Edited
  <2>6. x.line \notin closed[v] /\ x.line \in Line
    BY <2>2, <2>4
  <2>7. drafts'[v][x.line] = drafts[v][x.line]
    BY <1>1, <2>2, <2>3, <2>6
  <2> HIDE DEF x, after
  <2>8. QED
    BY <1>1, <2>1, <2>2, <2>5, <2>6, <2>7
<1>4. QED
  BY <1>1, <1>2, <1>3 DEF Edited

LEMMA MountedFits ==
  ASSUME NEW list \in Seq(Entries), NEW page
  PROVE  Mounted(list, page) \subseteq Line
<1>1. ASSUME NEW l \in Mounted(list, page) PROVE l \in Line
  <2>1. PICK k \in DOMAIN list : list[k].line = l
    BY MountedIs
  <2>2. list[k] \in Listed(list)
    BY DEF Listed
  <2>3. QED
    BY <2>1, <2>2, EntriesAre
<1>2. QED
  BY <1>1

\* Calls that only go on, and rows that stay, leave the editors as they are.
LEMMA CallEdits ==
  ASSUME EditorsTell, Unspoilt, fetched.at = "done", NEW v \in Layout,
         UNCHANGED <<campers, currentPage, drafts, editing, astray>>,
         \A b \in RosterCall :
           \/ rosterCall'[b].kind # "edit"
           \/ /\ rosterCall'[b].kind = rosterCall[b].kind /\ rosterCall'[b].line = rosterCall[b].line
              /\ rosterCall'[b].data = rosterCall[b].data /\ rosterCall'[b].here = rosterCall[b].here
              /\ rosterCall'[b].from = rosterCall[b].from
  PROVE  Edited(v, campers', currentPage', drafts'[v], editing'[v], astray'[v], rosterCall')
<1>1. Edited(v, campers, currentPage, drafts[v], editing[v], astray[v], rosterCall)
  BY DEF EditorsTell
<1>2. QED
  BY <1>1 DEF Edited

LEMMA SightedStep ==
  ASSUME RosterPageShape, Sighted, RosterPageCall \/ RosterPageStep
  PROVE  Sighted'
<1> USE DEF view
<1>0. /\ rosterCall \in [RosterCall -> PageCallType] /\ currentPage \in Nat
  BY DEF RosterPageShape
\* The rows in view rest, and who calls is in view.
<1>1. ASSUME UNCHANGED <<campers, currentPage>>, fetched'.at = "done" => fetched.at = "done",
             \A b \in RosterCall :
               \/ rosterCall'[b].kind \notin {"edit", "remove"}
               \/ rosterCall'[b].line \in InView
               \/ /\ rosterCall'[b].kind = rosterCall[b].kind
                  /\ rosterCall'[b].line = rosterCall[b].line /\ rosterCall'[b].here = rosterCall[b].here
      PROVE  Sighted'
  BY <1>1 DEF Sighted, InSight, InView
<1>2. ASSUME NEW calls \in [RosterCall -> PageCallType], NEW list, NEW page,
             campers' = list, currentPage' = page, rosterCall' = Calls(calls, list, page)
      PROVE  Sighted'
  BY <1>2, CallsSee DEF Sighted
<1>3. ASSUME NEW c \in RosterCall, NEW x, Ask(c, x), x.kind \in {"edit", "remove"} => x.line \in InView,
             UNCHANGED <<campers, currentPage>>
      PROVE  Sighted'
  <2>1. /\ UNCHANGED fetched /\ rosterCall'[c] = x
        /\ \A b \in RosterCall : b # c => rosterCall'[b] = rosterCall[b]
    BY <1>0, <1>3 DEF Ask
  <2>2. QED
    BY <1>1, <1>3, <2>1
<1>4. CASE RosterPageCall
  <2>1. ASSUME NEW kind \in {"add", "edit", "remove", "upload"}, NEW v \in Layout,
               NEW l \in Line \cup {0}, NEW d \in Data \cup {NoData}
        PROVE  /\ Posted(kind, v, l, d) \in PageCallType /\ Posted(kind, v, l, d).kind = kind
               /\ Posted(kind, v, l, d).line = l
    <3> DEFINE x == Posted(kind, v, l, d)
    <3>1. currentPage \in Nat /\ x = Posted(kind, v, l, d)
      BY <1>0
    <3> HIDE DEF x
    <3>2. QED
      BY <3>1, PostedIs
  <2>2. ASSUME NEW s PROVE [Posted("upload", "row", 0, NoData) EXCEPT !.sheet = s].kind = "upload"
    <3> DEFINE y == Posted("upload", "row", 0, NoData)
    <3>1. y \in PageCallType /\ y.kind = "upload"
      <4>1. "row" \in Layout /\ 0 \in Line \cup {0} /\ NoData \in Data \cup {NoData}
        BY DEF Layout
      <4>2. QED
        BY <2>1, <4>1
    <3> HIDE DEF y
    <3>2. QED
      BY <3>1 DEF PageCallType, y
  <2>3. ASSUME NEW c \in RosterCall, NEW v \in Layout, NEW l \in Line, NEW d \in Data,
               AddCamper(c, v, l, d) \/ SaveCamper(c, v, l, d)
        PROVE  Sighted'
    BY <1>3, <2>1, <2>3 DEF AddCamper, SaveCamper, MaySave
  <2>4. ASSUME NEW c \in RosterCall, NEW v \in Layout, NEW l \in Line, DeleteCamper(c, v, l)
        PROVE  Sighted'
    BY <1>3, <2>1, <2>4 DEF DeleteCamper, MayDelete
  <2>5. ASSUME NEW c \in RosterCall, NEW s \in CamperSheet, UploadCampers(c, s) PROVE Sighted'
    BY <1>3, <2>2, <2>5 DEF UploadCampers
  <2>6. QED
    BY <1>4, <2>3, <2>4, <2>5 DEF RosterPageCall
<1>5. CASE \/ FetchRead \/ FetchFails \/ (\E v \in Layout, l \in Line : CancelEdit(v, l) \/ \E d \in Data : TypeOn(v, l, d))
           \/ \E l \in Line, d \in Data \cup {NoData} : OthersEnlist(l, d)
  BY <1>1, <1>5 DEF FetchRead, FetchFails, CancelEdit, TypeOn, OthersEnlist
<1>6. CASE FetchShow
  BY <1>6, IdlerIs DEF FetchShow, RosterPageShape, Sighted, InSight
<1>7. ASSUME NEW page \in 1..(MaxLine + 1), TurnTo(page) PROVE Sighted'
  <2>1. rosterCall' = Calls(rosterCall, campers, page) /\ campers' = campers /\ currentPage' = page
    BY <1>7 DEF TurnTo, Render
  <2>2. QED
    BY <1>0, <1>2, <2>1
<1>8. ASSUME NEW c \in RosterCall,
             \/ AddWrite(c) \/ SaveWrite(c) \/ DeleteWrite(c) \/ UploadWrite(c)
             \/ UploadRefresh(c) \/ RosterCallFails(c)
      PROVE  Sighted'
  <2>1. UNCHANGED <<campers, currentPage, fetched>>
    BY <1>8 DEF AddWrite, SaveWrite, DeleteWrite, UploadWrite, UploadRefresh, RosterCallFails
  <2> DEFINE x == rosterCall[c]
  <2>2. x \in PageCallType
    BY <1>0
  <2>3. PICK y \in {[x EXCEPT !.at = "answered"], [x EXCEPT !.at = "refresh"],
                    [x EXCEPT !.at = "answered", !.list = Rows], Idler} :
          rosterCall' = [rosterCall EXCEPT ![c] = y]
    BY <1>8 DEF AddWrite, SaveWrite, DeleteWrite, UploadWrite, UploadRefresh,
       RosterCallFails, Answers, CallOver
  <2>4. y.kind = "none" \/ (y.kind = x.kind /\ y.line = x.line /\ y.here = x.here)
    <3> HIDE DEF x
    <3>1. QED
      BY <2>2, <2>3, IdlerIs DEF PageCallType
  <2>5. rosterCall'[c] = y /\ \A b \in RosterCall : b # c => rosterCall'[b] = rosterCall[b]
    BY <1>0, <2>3
  <2>6. QED
    BY <1>1, <2>1, <2>4, <2>5
<1>9. ASSUME NEW c \in RosterCall, AddShow(c) \/ SaveShow(c) \/ DeleteShow(c) \/ UploadShow(c)
      PROVE  Sighted'
  <2>1. PICK list, page : rosterCall' = Calls(CallOver(c), list, page) /\ campers' = list /\ currentPage' = page
    BY <1>9 DEF AddShow, SaveShow, DeleteShow, UploadShow, Shows, Render
  <2>2. CallOver(c) \in [RosterCall -> PageCallType]
    BY <1>0, IdlerIs DEF CallOver
  <2>3. QED
    BY <1>2, <2>1, <2>2
<1>10. QED
  BY <1>4, <1>5, <1>6, <1>7, <1>8, <1>9 DEF RosterPageStep

LEMMA EditorsTellStep ==
  ASSUME RosterPageShape, PageTells, Sighted, EditorsTell, RosterPageCall \/ RosterPageStep
  PROVE  EditorsTell'
<1> USE DEF view
<1>0. /\ strain \subseteq strain' /\ rosterCall \in [RosterCall -> PageCallType]
      /\ \A c \in RosterCall : CallFits(rosterCall[c])
      /\ currentPage \in Nat \ {0} /\ campers \in Seq(Entries) /\ enlisted \in Enlistments
      /\ drafts \in [Layout -> Enlistments] /\ fetched.list \in Seq(Entries)
      /\ editing \in [Layout -> SUBSET Line] /\ astray \in [Layout -> SUBSET Line]
      /\ PageFits(campers, rosterCall, enlisted)
  BY StrainGrows DEF RosterPageShape, PageFits
<1>1. SUFFICES ASSUME Unspoilt', fetched'.at = "done", NEW v \in Layout
               PROVE  Edited(v, campers', currentPage', drafts'[v], editing'[v], astray'[v], rosterCall')
  BY DEF EditorsTell
<1>2. Unspoilt
  BY <1>0, <1>1 DEF Unspoilt
<1>3. ASSUME fetched.at = "done"
      PROVE  /\ Edited(v, campers, currentPage, drafts[v], editing[v], astray[v], rosterCall)
             /\ InSight(campers, currentPage, rosterCall)
             /\ Agreed(campers, rosterCall, enlisted)
  BY <1>2, <1>3 DEF EditorsTell, PageTells, Sighted
\* A call that begins.
<1>4. ASSUME NEW c \in RosterCall, NEW x, Ask(c, x)
      PROVE  /\ rosterCall'[c] = x /\ \A b \in RosterCall : b # c => rosterCall'[b] = rosterCall[b]
             /\ fetched.at = "done"
  BY <1>0, <1>4 DEF Ask
<1>5. ASSUME NEW kind \in {"add", "edit", "remove", "upload"}, NEW w \in Layout,
             NEW l \in Line \cup {0}, NEW d \in Data \cup {NoData}
      PROVE  /\ Posted(kind, w, l, d) \in PageCallType /\ Posted(kind, w, l, d).kind = kind
             /\ Posted(kind, w, l, d).line = l /\ Posted(kind, w, l, d).data = d
             /\ Posted(kind, w, l, d).from = w
  <2> DEFINE x == Posted(kind, w, l, d)
  <2>1. currentPage \in Nat /\ x = Posted(kind, w, l, d)
    BY <1>0
  <2> HIDE DEF x
  <2>2. QED
    BY <2>1, PostedIs
<1>6. ASSUME NEW c \in RosterCall, NEW w \in Layout, NEW l \in Line, NEW d,
             (AddCamper(c, w, l, d) /\ d \in Data) \/ DeleteCamper(c, w, l)
      PROVE  Edited(v, campers', currentPage', drafts'[v], editing'[v], astray'[v], rosterCall')
  <2>1. PICK x : x.kind # "edit" /\ Ask(c, x)
    <3>1. CASE AddCamper(c, w, l, d) /\ d \in Data
      <4>1. Posted("add", w, l, d).kind = "add"
        BY <1>5, <3>1
      <4>2. QED
        BY <3>1, <4>1 DEF AddCamper
    <3>2. CASE DeleteCamper(c, w, l)
      <4>1. Posted("remove", w, l, NoData).kind = "remove"
        BY <1>5
      <4>2. QED
        BY <3>2, <4>1 DEF DeleteCamper
    <3>3. QED
      BY <1>6, <3>1, <3>2
  <2>2. UNCHANGED view
    BY <1>6 DEF AddCamper, DeleteCamper
  <2>3. QED
    BY <1>2, <1>4, <2>1, <2>2, CallEdits
<1>7. ASSUME NEW c \in RosterCall, NEW w \in Layout, NEW l \in Line, NEW d \in Data,
             SaveCamper(c, w, l, d)
      PROVE  Edited(v, campers', currentPage', drafts'[v], editing'[v], astray'[v], rosterCall')
  <2> DEFINE x == Posted("edit", w, l, d)
  <2>1. /\ x.kind = "edit" /\ x.line = l /\ x.data = d /\ x.from = w
    BY <1>5
  <2>2. Ask(c, x) /\ UNCHANGED <<campers, currentPage>> /\ ~Busy("edit", w, l)
    BY <1>7 DEF SaveCamper, MaySave
  <2>3. /\ drafts' = [drafts EXCEPT ![w][l] = d]
        /\ editing' = [editing EXCEPT ![w] = @ \cup {l}] /\ astray' = [astray EXCEPT ![w] = @ \ {l}]
    BY <1>7 DEF SaveCamper
  <2> HIDE DEF x
  <2>4. /\ rosterCall'[c] = x /\ \A b \in RosterCall : b # c => rosterCall'[b] = rosterCall[b]
        /\ Edited(v, campers, currentPage, drafts[v], editing[v], astray[v], rosterCall)
    BY <1>3, <1>4, <2>2
  <2>5. CASE v # w
    <3>1. drafts'[v] = drafts[v] /\ editing'[v] = editing[v] /\ astray'[v] = astray[v]
      BY <1>0, <2>3, <2>5
    <3>2. QED
      BY <2>1, <2>2, <2>4, <2>5, <3>1 DEF Edited
  <2>6. CASE v = w
    <3>1. /\ drafts'[v][l] = d /\ \A m \in Line : m # l => drafts'[v][m] = drafts[v][m]
          /\ editing'[v] = editing[v] \cup {l} /\ astray'[v] = astray[v] \ {l}
      BY <1>0, <2>3, <2>6 DEF Enlistments
    <3>2. Mounted(campers, currentPage) \subseteq Line
      BY <1>0, MountedFits
    <3>3. \A b \in RosterCall : /\ rosterCall[b].kind = "edit" /\ rosterCall[b].here
                                /\ rosterCall[b].from = v
                                => rosterCall[b].line # l
      BY <2>2, <2>6 DEF Busy
    <3>4. \A b \in RosterCall : rosterCall[b].kind = "edit" => rosterCall[b].line \in Line
      BY <1>0 DEF CallFits, ByRowKinds
    <3>5. ASSUME NEW m \in Mounted(campers, currentPage) \ (editing'[v] \cup astray'[v])
          PROVE  drafts'[v][m] = Says(campers, m)
      BY <2>4, <3>1, <3>2, <3>5 DEF Edited
    <3>6. ASSUME NEW b \in RosterCall, rosterCall'[b].kind = "edit", rosterCall'[b].here,
                 rosterCall'[b].from = v, rosterCall'[b].line \notin astray'[v]
          PROVE  rosterCall'[b].line \in editing'[v] /\ drafts'[v][rosterCall'[b].line] = rosterCall'[b].data
      <4>1. CASE b = c
        BY <2>1, <2>4, <3>1, <4>1
      <4>2. CASE b # c
        BY <2>4, <3>1, <3>3, <3>4, <3>6, <4>2 DEF Edited
      <4>3. QED
        BY <4>1, <4>2
    <3>7. QED
      BY <2>2, <3>5, <3>6 DEF Edited
  <2>7. QED
    BY <2>5, <2>6
<1>8. ASSUME NEW c \in RosterCall, NEW s \in CamperSheet, UploadCampers(c, s)
      PROVE  Edited(v, campers', currentPage', drafts'[v], editing'[v], astray'[v], rosterCall')
  <2> DEFINE x == Posted("upload", "row", 0, NoData)
             y == [x EXCEPT !.sheet = s]
  <2>1. Ask(c, y) /\ UNCHANGED view
    BY <1>8 DEF UploadCampers
  <2>2. x \in PageCallType /\ x.kind = "upload"
    <3>1. "row" \in Layout /\ 0 \in Line \cup {0} /\ NoData \in Data \cup {NoData}
      BY DEF Layout
    <3>2. QED
      BY <1>5, <3>1
  <2> HIDE DEF x
  <2>3. y.kind = "upload"
    BY <2>2 DEF PageCallType
  <2> HIDE DEF y
  <2>4. QED
    BY <1>2, <1>4, <2>1, <2>3, CallEdits
<1>9. CASE RosterPageCall
  BY <1>6, <1>7, <1>8, <1>9 DEF RosterPageCall
<1>10. CASE FetchRead \/ FetchFails \/ \E l \in Line, d \in Data \cup {NoData} : OthersEnlist(l, d)
  <2>1. CASE FetchRead \/ FetchFails
    BY <1>1, <2>1 DEF FetchRead, FetchFails
  <2>2. ASSUME NEW l \in Line, NEW d \in Data \cup {NoData}, OthersEnlist(l, d) PROVE FALSE
    <3>1. fetched.at = "done" /\ strain' = strain \cup {"others"}
      BY <1>1, <2>2 DEF OthersEnlist
    <3>2. QED
      BY <1>1, <3>1 DEF Unspoilt
  <2>3. QED
    BY <1>10, <2>1, <2>2
<1>11. CASE FetchShow
  <2>1. /\ campers = <<>> /\ \A b \in RosterCall : rosterCall[b] = Idler
        /\ UNCHANGED rosterCall /\ Render(fetched.list, currentPage, None, None)
    BY <1>11 DEF FetchShow, RosterPageShape
  <2>2. InView = {}
    BY <2>1, MountedIs DEF InView
  <2>3. Mounted(fetched.list, currentPage) \subseteq Line
    BY <1>0, MountedFits
  <2>4. /\ campers' = fetched.list /\ currentPage' = currentPage
        /\ drafts'[v] = [l \in Line |-> IF l \notin Mounted(fetched.list, currentPage) THEN NoData
                                        ELSE IF l \in InView THEN drafts[v][l]
                                        ELSE Says(fetched.list, l)]
    BY <2>1 DEF Render
  <2>5. \A l \in Mounted(fetched.list, currentPage) : drafts'[v][l] = Says(fetched.list, l)
    BY <2>2, <2>3, <2>4
  <2>6. \A b \in RosterCall : rosterCall'[b].kind = "none"
    BY <2>1, IdlerIs
  <2>7. QED
    BY <2>4, <2>5, <2>6 DEF Edited
\* What is typed on, or given up, in an editor.
<1>12. ASSUME NEW w \in Layout, NEW l \in Line, NEW d, CancelEdit(w, l) \/ TypeOn(w, l, d)
       PROVE  Edited(v, campers', currentPage', drafts'[v], editing'[v], astray'[v], rosterCall')
  <2>1. UNCHANGED <<campers, currentPage, fetched, rosterCall>>
    BY <1>12 DEF CancelEdit, TypeOn
  <2>2. Edited(v, campers, currentPage, drafts[v], editing[v], astray[v], rosterCall)
    BY <1>1, <1>3, <2>1
  <2>3. Mounted(campers, currentPage) \subseteq Line
    BY <1>0, MountedFits
  <2>4. \A b \in RosterCall : rosterCall[b].kind = "edit" => rosterCall[b].line \in Line
    BY <1>0 DEF CallFits, ByRowKinds
  <2>5. CASE v # w
    <3>1. drafts'[v] = drafts[v] /\ editing'[v] = editing[v] /\ astray'[v] = astray[v]
      BY <1>0, <1>12, <2>5 DEF CancelEdit, TypeOn
    <3>2. QED
      BY <2>1, <2>2, <3>1 DEF Edited
  <2>6. CASE v = w /\ CancelEdit(w, l)
    <3>1. /\ drafts'[v][l] = Says(campers, l) /\ \A m \in Line : m # l => drafts'[v][m] = drafts[v][m]
          /\ editing'[v] = editing[v] \ {l} /\ astray'[v] = astray[v] \ {l}
      BY <1>0, <2>6 DEF CancelEdit, Enlistments
    <3>2. \A b \in RosterCall : /\ rosterCall[b].kind = "edit" /\ rosterCall[b].here
                                /\ rosterCall[b].from = v
                                => rosterCall[b].line # l
      BY <2>6 DEF CancelEdit, MaySave, Busy
    <3>3. ASSUME NEW m \in Mounted(campers, currentPage) \ (editing'[v] \cup astray'[v])
          PROVE  drafts'[v][m] = Says(campers, m)
      BY <2>2, <2>3, <3>1, <3>3 DEF Edited
    <3>4. ASSUME NEW b \in RosterCall, rosterCall[b].kind = "edit", rosterCall[b].here,
                 rosterCall[b].from = v, rosterCall[b].line \notin astray'[v]
          PROVE  rosterCall[b].line \in editing'[v] /\ drafts'[v][rosterCall[b].line] = rosterCall[b].data
      BY <2>2, <2>4, <3>1, <3>2, <3>4 DEF Edited
    <3>5. QED
      BY <2>1, <3>3, <3>4 DEF Edited
  <2>7. CASE v = w /\ TypeOn(w, l, d)
    <3>1. /\ \A m \in Line : m # l => drafts'[v][m] = drafts[v][m]
          /\ editing'[v] = editing[v] /\ astray'[v] = astray[v] \cup {l}
      BY <1>0, <2>7 DEF TypeOn, Enlistments
    <3>2. ASSUME NEW m \in Mounted(campers, currentPage) \ (editing'[v] \cup astray'[v])
          PROVE  drafts'[v][m] = Says(campers, m)
      BY <2>2, <2>3, <3>1, <3>2 DEF Edited
    <3>3. ASSUME NEW b \in RosterCall, rosterCall[b].kind = "edit", rosterCall[b].here,
                 rosterCall[b].from = v, rosterCall[b].line \notin astray'[v]
          PROVE  rosterCall[b].line \in editing'[v] /\ drafts'[v][rosterCall[b].line] = rosterCall[b].data
      BY <2>2, <2>4, <3>1, <3>3 DEF Edited
    <3>4. QED
      BY <2>1, <3>2, <3>3 DEF Edited
  <2>8. QED
    BY <1>12, <2>5, <2>6, <2>7
<1>13. ASSUME NEW page \in 1..(MaxLine + 1), TurnTo(page)
       PROVE  Edited(v, campers', currentPage', drafts'[v], editing'[v], astray'[v], rosterCall')
  <2>1. /\ Render(campers, page, None, None) /\ rosterCall' = Calls(rosterCall, campers, page)
        /\ fetched.at = "done"
    BY <1>13 DEF TurnTo
  <2>2. Mounted(campers, page) \subseteq Line /\ None[v] = {}
    BY <1>0, MountedFits DEF None
  <2>3. QED
    BY <1>0, <1>3, <2>1, <2>2, RenderEdits
\* The server, and failures.
<1>14. ASSUME NEW c \in RosterCall,
              \/ AddWrite(c) \/ SaveWrite(c) \/ DeleteWrite(c) \/ UploadWrite(c)
              \/ UploadRefresh(c) \/ RosterCallFails(c)
       PROVE  Edited(v, campers', currentPage', drafts'[v], editing'[v], astray'[v], rosterCall')
  <2>1. UNCHANGED <<campers, currentPage, drafts, editing, astray, fetched>>
    BY <1>14 DEF AddWrite, SaveWrite, DeleteWrite, UploadWrite, UploadRefresh, RosterCallFails
  <2> DEFINE x == rosterCall[c]
  <2>2. x \in PageCallType
    BY <1>0
  <2>3. PICK y \in {[x EXCEPT !.at = "answered"], [x EXCEPT !.at = "refresh"],
                    [x EXCEPT !.at = "answered", !.list = Rows], Idler} :
          rosterCall' = [rosterCall EXCEPT ![c] = y]
    BY <1>14 DEF AddWrite, SaveWrite, DeleteWrite, UploadWrite, UploadRefresh,
       RosterCallFails, Answers, CallOver
  <2>4. \/ y.kind = "none"
        \/ /\ y.kind = x.kind /\ y.line = x.line /\ y.data = x.data /\ y.here = x.here
           /\ y.from = x.from
    <3> HIDE DEF x
    <3>1. QED
      BY <2>2, <2>3, IdlerIs DEF PageCallType
  <2>5. rosterCall'[c] = y /\ \A b \in RosterCall : b # c => rosterCall'[b] = rosterCall[b]
    BY <1>0, <2>3
  <2>6. QED
    BY <1>1, <1>2, <2>1, <2>4, <2>5, CallEdits
\* The answers.
<1>15. ASSUME NEW c \in RosterCall, NEW list \in Seq(Entries), NEW page, NEW closed, NEW behind,
              Shows(c, list, page, closed, behind),
              \A l \in (InView \cap Mounted(list, page)) \ behind[v] :
                /\ l \notin editing[v] \cup astray[v] => Says(list, l) = Says(campers, l)
                /\ l \in (editing[v] \cap closed[v]) \ astray[v] => drafts[v][l] = Says(list, l),
              \A b \in RosterCall : /\ b # c /\ rosterCall[b].kind = "edit" /\ rosterCall[b].here
                                    /\ rosterCall[b].from = v /\ rosterCall[b].line \notin behind[v]
                                    => rosterCall[b].line \notin closed[v]
       PROVE  Edited(v, campers', currentPage', drafts'[v], editing'[v], astray'[v], rosterCall')
  <2> DEFINE calls == CallOver(c)
  <2>1. /\ rosterCall' = Calls(calls, list, page) /\ Render(list, page, closed, behind)
        /\ UNCHANGED fetched
    BY <1>15 DEF Shows
  <2>2. /\ calls \in [RosterCall -> PageCallType] /\ calls[c] = Idler
        /\ \A b \in RosterCall : b # c => calls[b] = rosterCall[b]
    BY <1>0, IdlerIs DEF CallOver
  <2>3. /\ Edited(v, campers, currentPage, drafts[v], editing[v], astray[v], rosterCall)
        /\ InSight(campers, currentPage, rosterCall)
    BY <1>1, <1>3, <2>1
  <2>4. Mounted(list, page) \subseteq Line
    BY <1>15, MountedFits
  <2> HIDE DEF calls
  <2>5. \A b \in RosterCall : calls[b] \in {rosterCall[b], Idler}
    BY <2>2
  <2>6. \A b \in RosterCall : /\ calls[b].kind = "edit" /\ calls[b].here /\ calls[b].from = v
                              /\ calls[b].line \notin behind[v]
                              => calls[b].line \notin closed[v]
    BY <1>15, <2>2, IdlerIs
  <2>7. QED
    BY <1>15, <2>1, <2>2, <2>3, <2>4, <2>5, <2>6, RenderEdits
<1>16. ASSUME NEW c \in RosterCall, AddShow(c)
       PROVE  Edited(v, campers', currentPage', drafts'[v], editing'[v], astray'[v], rosterCall')
  <2> DEFINE x == rosterCall[c]
             e == [line |-> x.line, data |-> x.data]
             list == Append(campers, e)
             page == TotalPages(Added(c))
  <2>1. x.kind = "add" /\ x.at = "answered" /\ Shows(c, list, page, None, None) /\ UNCHANGED fetched
    BY <1>16 DEF AddShow, Shows, Added
  <2>2. Agreed(campers, rosterCall, enlisted)
    BY <1>1, <1>3, <2>1
  <2>3. e \in Entries
    BY <1>0, <2>1 DEF CallFits, ByRowKinds, Entries
  <2>4. OnceEach(list) /\ OnceEach(campers)
    <3>1. x = rosterCall[c] /\ e = [line |-> x.line, data |-> x.data]
      OBVIOUS
    <3> HIDE DEF x, e
    <3>2. Agreed(Append(campers, e), [rosterCall EXCEPT ![c] = Idler], enlisted)
      BY <1>0, <2>1, <2>2, <3>1, AddedAgrees
    <3>3. QED
      BY <2>2, <3>2 DEF Agreed
  <2> HIDE DEF e, page
  <2>5. list \in Seq(Entries) /\ DOMAIN campers \subseteq DOMAIN list
        /\ \A k \in DOMAIN campers : list[k] = campers[k]
    BY <1>0, <2>3
  <2> HIDE DEF list
  <2>6. ASSUME NEW l \in InView PROVE Says(list, l) = Says(campers, l)
    <3>1. PICK k \in DOMAIN campers : campers[k].line = l
      BY MountedIs DEF InView
    <3>2. campers[k] \in Listed(campers) /\ campers[k] \in Listed(list)
      BY <2>5 DEF Listed
    <3>3. QED
      BY <2>4, <3>1, <3>2, SameSays
  <2>7. None[v] = {}
    BY DEF None
  <2>8. QED
    BY <1>15, <2>1, <2>5, <2>6, <2>7
<1>17. ASSUME NEW c \in RosterCall, SaveShow(c)
       PROVE  Edited(v, campers', currentPage', drafts'[v], editing'[v], astray'[v], rosterCall')
  <2> DEFINE x == rosterCall[c]
             list == [k \in DOMAIN campers |-> IF campers[k].line = x.line
                        THEN [campers[k] EXCEPT !.data = x.data] ELSE campers[k]]
             own == [w \in Layout |-> IF x.here /\ x.from = w THEN {x.line} ELSE {}]
             behind == [w \in Layout |-> {x.line} \ own[w]]
  <2>1. /\ x.kind = "edit" /\ x.at = "answered" /\ UNCHANGED fetched
        /\ Shows(c, list, currentPage, own, behind)
    BY <1>17 DEF SaveShow, Shows
  <2>2. /\ Edited(v, campers, currentPage, drafts[v], editing[v], astray[v], rosterCall)
        /\ Agreed(campers, rosterCall, enlisted)
    BY <1>1, <1>3, <2>1
  <2>3. x.line \in Line /\ x.data \in Data
    BY <1>0, <2>1 DEF CallFits, ByRowKinds
  <2>4. \/ own[v] = {} /\ behind[v] = {x.line}
        \/ own[v] = {x.line} /\ behind[v] = {} /\ x.here /\ x.from = v
    OBVIOUS
  <2>5. ASSUME NEW k \in DOMAIN campers
        PROVE  /\ list[k] = IF campers[k].line = x.line THEN [line |-> x.line, data |-> x.data]
                            ELSE campers[k]
               /\ list[k] \in Entries /\ list[k].line = campers[k].line
    <3> DEFINE e == campers[k]
    <3>1. e \in Entries /\ list[k] = IF e.line = x.line THEN [e EXCEPT !.data = x.data] ELSE e
      BY <1>0
    <3> HIDE DEF e, x, list
    <3>2. /\ list[k] = IF e.line = x.line THEN [line |-> x.line, data |-> x.data] ELSE e
          /\ list[k] \in Entries /\ list[k].line = e.line
      BY <2>3, <3>1 DEF Entries
    <3>3. QED
      BY <3>2 DEF e
  <2>6. DOMAIN list = DOMAIN campers /\ list \in Seq(Entries)
    <3>1. /\ Len(campers) \in Nat /\ DOMAIN campers = 1..Len(campers)
          /\ list = [k \in 1..Len(campers) |-> list[k]]
      BY <1>0
    <3> HIDE DEF list
    <3>2. \A k \in 1..Len(campers) : list[k] \in Entries
      BY <2>5, <3>1
    <3>3. QED
      BY <3>1, <3>2
  <2>7. x = rosterCall[c]
    OBVIOUS
  <2> HIDE DEF x, list, own, behind
  <2>8. OnceEach(list) /\ OnceEach(campers)
    <3>1. Rewritten(list, campers, x)
      BY <2>5, <2>6 DEF Rewritten
    <3>2. Agreed(list, [rosterCall EXCEPT ![c] = Idler], enlisted)
      BY <1>0, <2>1, <2>2, <2>7, <3>1, SavedAgrees
    <3>3. QED
      BY <2>2, <3>2 DEF Agreed
  <2>9. ASSUME NEW l \in InView, l # x.line PROVE Says(list, l) = Says(campers, l)
    <3>1. PICK k \in DOMAIN campers : campers[k].line = l
      BY MountedIs DEF InView
    <3>2. list[k] = campers[k] /\ k \in DOMAIN list
      BY <2>5, <2>6, <2>9, <3>1
    <3>3. campers[k] \in Listed(campers) /\ campers[k] \in Listed(list)
      BY <3>2 DEF Listed
    <3>4. QED
      BY <2>8, <3>1, <3>3, SameSays
  \* The row that was saved: its editor is open with what was sent, or went astray.
  <2>10. ASSUME x.line \in InView, x.here, x.from = v, x.line \notin astray[v]
         PROVE  x.line \in editing[v] /\ drafts[v][x.line] = Says(list, x.line)
    <3>1. PICK k \in DOMAIN campers : campers[k].line = x.line
      BY <2>10, MountedIs DEF InView
    <3>2. list[k] = [line |-> x.line, data |-> x.data] /\ list[k] \in Listed(list)
      BY <2>5, <2>6, <3>1 DEF Listed
    <3>3. list[k].line = x.line /\ list[k].data = x.data
      BY <3>2
    <3>4. Says(list, x.line) = x.data
      BY <2>8, <3>2, <3>3, SaysIs
    <3>5. QED
      BY <2>1, <2>2, <2>7, <2>10, <3>4 DEF Edited
  <2>11. ASSUME NEW b \in RosterCall, b # c, rosterCall[b].kind = "edit" PROVE rosterCall[b].line # x.line
    BY <2>1, <2>2, <2>7, <2>11 DEF Agreed, NoneSpoils
  <2>12. ASSUME NEW l \in (InView \cap Mounted(list, currentPage)) \ behind[v]
         PROVE  /\ l \notin editing[v] \cup astray[v] => Says(list, l) = Says(campers, l)
                /\ l \in (editing[v] \cap own[v]) \ astray[v] => drafts[v][l] = Says(list, l)
    <3>1. CASE l # x.line
      BY <2>4, <2>9, <2>12, <3>1
    <3>2. CASE l = x.line
      BY <2>4, <2>10, <2>12, <3>2
    <3>3. QED
      BY <3>1, <3>2
  <2>13. QED
    BY <1>15, <2>1, <2>4, <2>6, <2>11, <2>12
<1>18. ASSUME NEW c \in RosterCall, DeleteShow(c)
       PROVE  Edited(v, campers', currentPage', drafts'[v], editing'[v], astray'[v], rosterCall')
  <2> DEFINE x == rosterCall[c]
             list == Without(x.line)
  <2>1. PICK page : x.at = "answered" /\ UNCHANGED fetched /\ Shows(c, list, page, None, None)
    BY <1>18 DEF DeleteShow, Shows
  <2>2. Agreed(campers, rosterCall, enlisted)
    BY <1>1, <1>3, <2>1
  <2>3. /\ list \in Seq(Entries) /\ \A e : e \in Listed(list) <=> e \in Listed(campers) /\ e.line # x.line
        /\ OnceEach(campers) /\ OnceEach(list)
    BY <1>0, <2>2, WithoutIs DEF Agreed
  <2> HIDE DEF x, list
  <2>4. ASSUME NEW l \in Mounted(list, page) PROVE Says(list, l) = Says(campers, l)
    <3>1. PICK k \in DOMAIN list : list[k].line = l
      BY MountedIs
    <3>2. list[k] \in Listed(list) /\ list[k] \in Listed(campers)
      BY <2>3 DEF Listed
    <3>3. QED
      BY <2>3, <3>1, <3>2, SameSays
  <2>5. None[v] = {}
    BY DEF None
  <2>6. QED
    BY <1>15, <2>1, <2>3, <2>4, <2>5
<1>19. ASSUME NEW c \in RosterCall, UploadShow(c)
       PROVE  Edited(v, campers', currentPage', drafts'[v], editing'[v], astray'[v], rosterCall')
  <2> DEFINE list == rosterCall[c].list
             behind == [w \in Layout |-> InView]
  <2>1. Shows(c, list, 1, None, behind) /\ list \in Seq(Entries) /\ behind[v] = InView /\ None[v] = {}
    BY <1>0, <1>19 DEF UploadShow, PageCallType, None
  <2> HIDE DEF list, behind
  <2>2. QED
    BY <1>15, <2>1
<1>20. QED
  BY <1>6, <1>7, <1>8, <1>9, <1>10, <1>11, <1>12, <1>13, <1>14, <1>16, <1>17, <1>18, <1>19
     DEF RosterPageStep
-----------------------------------------------------------------------------
LEMMA RosterPageStays == RosterPageInv /\ UNCHANGED rosterPageVars => RosterPageInv'
<1>1. SUFFICES ASSUME RosterPageInv, UNCHANGED rosterPageVars PROVE RosterPageInv'
  OBVIOUS
<1>2. RosterPageShape'
  BY <1>1 DEF rosterPageVars, RosterPageInv, RosterPageShape
<1>3. PageTells'
  BY <1>1 DEF rosterPageVars, RosterPageInv, PageTells, Unspoilt
<1>4. PageInView'
  BY <1>1 DEF rosterPageVars, RosterPageInv, PageInView
<1>5. Sighted' /\ EditorsTell'
  BY <1>1 DEF rosterPageVars, RosterPageInv, Sighted, EditorsTell, Unspoilt
<1>6. QED
  BY <1>2, <1>3, <1>4, <1>5 DEF RosterPageInv

LEMMA RosterPageStarts == ASSUME NEW acts \in Nat, RosterPageInit(acts) PROVE RosterPageInv
<1>1. [l \in Line |-> NoData] \in Enlistments
  BY DEF Enlistments
<1>2. enlisted \in Enlistments
  BY <1>1, EnrolmentsFit DEF RosterPageInit
<1>3. \A c \in RosterCall : rosterCall[c] = Idler
  BY DEF RosterPageInit
<1>4. RosterPageShape
  <2>1. rosterCall \in [RosterCall -> PageCallType] /\ \A c \in RosterCall : CallFits(rosterCall[c])
    BY <1>3, IdlerIs DEF RosterPageInit
  <2>2. fetched.at # "done" /\ campers \in Seq(Entries)
        /\ fetched \in [at : {"closed", "asked", "answered", "done", "stuck"}, list : Seq(Entries)]
    BY DEF RosterPageInit
  <2>3. QED
    BY <1>1, <1>2, <1>3, <2>1, <2>2 DEF RosterPageInit, RosterPageShape
<1>5. PageTells /\ Sighted /\ EditorsTell
  BY DEF RosterPageInit, PageTells, Sighted, EditorsTell
<1>6. PageInView
  BY <1>3, IdlerIs DEF RosterPageInit, PageInView
<1>7. QED
  BY <1>4, <1>5, <1>6 DEF RosterPageInv

LEMMA RosterPageInvStep ==
  RosterPageInv /\ (RosterPageCall \/ RosterPageStep) => RosterPageInv'
  BY RosterPageShapeStep, PageTellsStep, PageInViewStep, SightedStep, EditorsTellStep DEF RosterPageInv

\* A page at rest, with no call under way, is as it is promised to be.
LEMMA RestingPage == RosterPageInv => RosterPageFollows
<1>1. SUFFICES ASSUME RosterPageInv, RosterPageRests
               PROVE  /\ Unspoilt =>
                           /\ \A l \in Line :
                                /\ {campers[k].data : k \in {j \in DOMAIN campers : campers[j].line = l}}
                                     = {enlisted[l]} \ {NoData}
                                /\ Cardinality({k \in DOMAIN campers : campers[k].line = l}) <= 1
                           /\ \A v \in Layout : \A l \in InView \ (editing[v] \cup astray[v]) :
                                drafts[v][l] = Says(campers, l)
                      /\ "turned" \notin strain /\ campers # <<>> => InView # {}
  BY DEF RosterPageFollows, Unspoilt
<1>2. /\ fetched.at = "done" /\ \A c \in RosterCall : rosterCall[c].at = "idle"
      /\ campers \in Seq(Entries) /\ enlisted \in Enlistments /\ currentPage \in Nat \ {0}
  BY <1>1, IdlerIs DEF RosterPageRests, RosterPageInv, RosterPageShape
<1>3. ASSUME Unspoilt, NEW l \in Line
      PROVE  /\ {campers[k].data : k \in {j \in DOMAIN campers : campers[j].line = l}}
                  = {enlisted[l]} \ {NoData}
             /\ Cardinality({k \in DOMAIN campers : campers[k].line = l}) <= 1
  <2> DEFINE Places == {j \in DOMAIN campers : campers[j].line = l}
  <2>1. Agreed(campers, rosterCall, enlisted)
    BY <1>1, <1>2, <1>3 DEF RosterPageInv, PageTells
  <2>2. OnceEach(campers) /\ Tells(campers, enlisted, l)
    BY <1>2, <2>1 DEF Agreed, SettledOn
  <2>3. ASSUME NEW k \in Places PROVE campers[k].data = enlisted[l] /\ campers[k].data \in Data
    <3> DEFINE e == campers[k]
    <3>1. e \in Listed(campers) /\ e.line = l
      BY DEF Listed
    <3> HIDE DEF e
    <3>2. e.data \in Data /\ e = [line |-> l, data |-> e.data]
      BY <1>2, <3>1, EntriesAre
    <3>3. QED
      BY <2>2, <3>1, <3>2 DEF Tells, e
  <2>4. ASSUME enlisted[l] # NoData PROVE \E k \in Places : campers[k].data = enlisted[l]
    <3>1. enlisted[l] \in Data
      BY <1>2, <2>4 DEF Enlistments
    <3>2. [line |-> l, data |-> enlisted[l]] \in Listed(campers)
      BY <2>2, <3>1 DEF Tells
    <3>3. PICK k \in DOMAIN campers : campers[k] = [line |-> l, data |-> enlisted[l]]
      BY <3>2 DEF Listed
    <3>4. QED
      BY <3>3
  <2>5. {campers[k].data : k \in Places} = {enlisted[l]} \ {NoData}
    <3> HIDE DEF Places
    <3>1. QED
      BY <2>3, <2>4, NoDataIsNone
  <2>6. Cardinality(Places) <= 1
    <3>1. CASE Places = {}
      BY <3>1, FS_EmptySet
    <3>2. CASE Places # {}
      <4>1. PICK k \in Places : TRUE
        BY <3>2
      <4>2. Places = {k}
        BY <2>2 DEF OnceEach
      <4>3. Cardinality({k}) = 1
        BY FS_Singleton, Zenon
      <4> HIDE DEF Places
      <4>4. QED
        BY <4>2, <4>3
    <3>3. QED
      BY <3>1, <3>2
  <2>7. QED
    BY <2>5, <2>6
<1>4. ASSUME "turned" \notin strain, campers # <<>> PROVE InView # {}
  <2> DEFINE k == (currentPage - 1) * PageSize + 1
  <2>1. (currentPage - 1) * PageSize < Len(campers) /\ Len(campers) \in Nat
    BY <1>1, <1>2, <1>4 DEF RosterPageInv, PageInView
  <2>2. k \in Nat /\ k >= 1 /\ k <= Len(campers) /\ k <= currentPage * PageSize /\ currentPage * PageSize \in Nat
    <3>1. PageSize \in Nat /\ PageSize >= 1 /\ (currentPage - 1) * PageSize \in Nat
      BY <1>2, PagesHoldRows
    <3>2. currentPage * PageSize = (currentPage - 1) * PageSize + PageSize
      BY <1>2, <3>1
    <3>3. QED
      BY <2>1, <3>1, <3>2
  <2>3. k \in DOMAIN campers
    BY <1>2, <2>1, <2>2
  <2>4. campers[k].line \in Mounted(campers, currentPage)
    BY <2>2, <2>3, MountedIs
  <2>5. QED
    BY <2>4 DEF InView
<1>5. ASSUME Unspoilt, NEW v \in Layout
      PROVE  \A l \in InView \ (editing[v] \cup astray[v]) : drafts[v][l] = Says(campers, l)
  BY <1>1, <1>2, <1>5 DEF RosterPageInv, EditorsTell, Edited, InView
<1>6. QED
  BY <1>3, <1>4, <1>5

LEMMA RosterPageFits == RosterPageShape => RosterPageTypeOK
<1>1. SUFFICES ASSUME RosterPageShape PROVE RosterPageTypeOK
  OBVIOUS
<1>2. ASSUME NEW c \in RosterCall
      PROVE  /\ rosterCall[c].kind \in {"none", "add", "edit", "remove", "upload"}
             /\ rosterCall[c].at \in {"idle", "sent", "refresh", "answered"}
             /\ rosterCall[c].from \in Layout /\ rosterCall[c].line \in Line \cup {0}
             /\ rosterCall[c].list \in Seq(Entries)
  <2>1. rosterCall[c] \in PageCallType
    BY <1>1 DEF RosterPageShape
  <2>2. QED
    BY <2>1 DEF PageCallType
<1>3. fetched.at \in {"closed", "asked", "answered", "done", "stuck"} /\ fetched.list \in Seq(Entries)
  BY <1>1 DEF RosterPageShape
<1>4. QED
  BY <1>1, <1>2, <1>3 DEF RosterPageShape, RosterPageTypeOK

LEMMA BackofficeStepsRosterPage ==
  [BackofficeNext]_allVars => RosterPageCall \/ RosterPageStep \/ UNCHANGED rosterPageVars
  BY DEF BackofficeNext, DeskNext, allVars, deskVars

LEMMA RosterPageInvariant == BackofficeSpec => []RosterPageInv
<1>1. BackofficeInit => RosterPageInv
  BY RosterPageStarts, DesksAreBounds DEF BackofficeInit, DesksInit
<1>2. RosterPageInv /\ [BackofficeNext]_allVars => RosterPageInv'
  BY BackofficeStepsRosterPage, RosterPageInvStep, RosterPageStays
<1>3. QED
  BY <1>1, <1>2, PTL DEF BackofficeSpec

\* The page of the campers at rest lists every active row once, as it is, has
\* campers in view while there are any, and its editors open with what the rows
\* say, as far as RosterPageFollows says.
THEOREM RosterPageTells == BackofficeSpec => []RosterPageFollows
  BY RosterPageInvariant, RestingPage, PTL
-----------------------------------------------------------------------------
(* The types of the whole back office. *)

\* What is left of the types: the form of the page of the administrators, and the
\* names of what may separate a page from its table.
NamesKnown ==
  /\ inviting \in BOOLEAN
  /\ drift \subseteq {"others", "logins", "lost"}
  /\ unsynced \subseteq {"unloaded", "others", "overlap", "lost", "overtaken"}

LEMMA NamesKnownStep == NamesKnown /\ [BackofficeNext]_allVars => NamesKnown'
<1> SUFFICES ASSUME NamesKnown, [BackofficeNext]_allVars PROVE NamesKnown'
  OBVIOUS
<1> USE DEF NamesKnown
<1>1. CASE Next /\ Hears /\ UNCHANGED deskVars
  <2>1. inviting' = inviting /\ unsynced' = unsynced
    BY <1>1 DEF Hears, adminPageVars, shown, deskVars, templateVars
  <2>2. drift' \subseteq drift \cup {"lost"} \cup Drifts
    BY <1>1 DEF Hears, HearsAnswer, adminPageVars
  <2>3. Drifts \subseteq {"others", "logins"}
    BY DEF Drifts
  <2>4. QED
    BY <2>1, <2>2, <2>3
<1>2. CASE AdminPageCall /\ UNCHANGED <<rosterVars, deskVars>>
  BY <1>2 DEF AdminPageCall, HandleInvite, HandleRevoke, HandleRemove, AdminPageCalls, shown, deskVars,
     templateVars
<1>3. CASE AdminPageStep /\ UNCHANGED <<vars, deskVars>>
  <2>1. unsynced' = unsynced
    BY <1>3 DEF deskVars, templateVars
  <2>2. CASE GetAdminMembers \/ GetInvitations \/ FetchShown \/ FetchRejected \/ OpenInvite \/ CloseInvite
    BY <2>1, <2>2 DEF GetAdminMembers, GetInvitations, FetchShown, FetchRejected, OpenInvite, CloseInvite,
       shown
  <2>3. ASSUME NEW r \in Request, AnswerShown(r) PROVE NamesKnown'
    <3>1. inviting' \in BOOLEAN /\ drift' = drift
      BY <2>3 DEF AnswerShown
    <3>2. QED
      BY <2>1, <3>1
  <2>4. QED
    BY <1>3, <2>2, <2>3 DEF AdminPageStep
<1>4. CASE DeskNext /\ UNCHANGED <<vars, adminPageVars>>
  <2>1. inviting' = inviting /\ drift' = drift
    BY <1>4 DEF adminPageVars, shown
  <2>2. CASE TemplatesNext
    BY <2>1, <2>2 DEF TemplatesNext, TemplatesCall, TemplatesStep, LoadRead, LoadShow, LoadFails,
       AddTemplate, EditTemplate, RemoveTemplate, Start, Find, Create, Write, Answer, CallFails,
       OthersWrite
  <2>3. CASE UNCHANGED templateVars
    BY <2>1, <2>3 DEF templateVars
  <2>4. QED
    BY <1>4, <2>2, <2>3 DEF DeskNext, TemplatesNext
<1>5. CASE UNCHANGED allVars
  BY <1>5 DEF allVars, adminPageVars, shown, deskVars, templateVars
<1>6. QED
  BY <1>1, <1>2, <1>3, <1>4, <1>5 DEF BackofficeNext

\* Every table, page and call of the back office keeps its type.
THEOREM BackofficeTypeCorrect == BackofficeSpec => []BackofficeTypeOK
<1>1. BackofficeInit => NamesKnown
  BY DEF BackofficeInit, DesksInit, AdminPageInit, TemplatesInit, NamesKnown
<1>2. BackofficeSpec => []NamesKnown
  BY <1>1, NamesKnownStep, PTL DEF BackofficeSpec
<1>3. BackofficeSpec => []TypeOK
  BY BackofficeImplementsRoster, RosterTypeCorrect, PTL
<1>4. BackofficeSpec => []AdminPageInv
  <2>1. BackofficeSpec => []Sound
    BY BackofficeImplementsAccounts, AlwaysSound, PTL
  <2>2. QED
    BY <2>1, AdminPageStarts, AdminPageInvStep, PTL DEF BackofficeSpec
<1>5. AdminPageInv /\ NamesKnown => AdminPageTypeOK
  <2>1. Used \subseteq Invitation
    BY DEF Used
  <2>2. QED
    BY <2>1 DEF AdminPageInv, AdminPageShape, AdminPageTypeOK, NamesKnown, OpeningType, AdminCallType
<1>6. TableInv /\ NamesKnown => TemplatesTypeOK
  <2>1. SUFFICES ASSUME TableShape, NamesKnown PROVE TemplatesTypeOK
    BY DEF TableInv
  <2>2. call \in [Call -> CallType]
    BY <2>1 DEF TableShape, CallsGenuine
  <2>3. QED
    BY <2>1, <2>2 DEF TableShape, CallType, TemplatesTypeOK, NamesKnown
<1>7. FormInv => FormTypeOK
  BY DEF FormInv, FormShape
<1>8. RosterPageInv => RosterPageTypeOK
  BY RosterPageFits DEF RosterPageInv
<1>9. /\ TypeOK /\ AdminPageInv /\ NamesKnown /\ TableInv /\ FormInv /\ RosterPageInv /\ OrganizationsTypeOK
      => BackofficeTypeOK
  BY <1>5, <1>6, <1>7, <1>8 DEF BackofficeTypeOK
<1>10. QED
  BY <1>2, <1>3, <1>4, <1>9, TableInvariant, FormInvariant, RosterPageInvariant,
     OrganizationsTypeCorrect, PTL
=============================================================================
