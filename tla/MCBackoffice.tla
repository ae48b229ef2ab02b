---------------------------- MODULE MCBackoffice ----------------------------
(* An instance of Backoffice for TLC. *)
EXTENDS Backoffice

CONSTANTS ann, bob, cho, c1, c2, d1, d2, o1, o2, x1, x2, w1, w2,
          i1, i2, t1, t2, r1, r2, k1, k2, e1, e2, g1, g2

Named(c, p) == [camper |-> c, name |-> [of |-> p, exact |-> TRUE]]
Misspelled(c, p) == [camper |-> c, name |-> [of |-> p, exact |-> FALSE]]

FewEntries == {Named(c1, ann), Named(c1, cho), Named(c2, cho)}

\* A sheet of two campers, one with a name in another case, and one with a camper
\* id used twice.
FewSheets == {<<Named(c1, ann), Named(c2, cho)>>, <<Named(c1, ann), Misspelled(c2, cho)>>,
              <<Named(c1, ann), Named(c1, cho)>>}

\* Two templates use the id f1 for different things.
Field(id, label) == [id |-> id, label |-> label]
Talk == {Field("f1", "time")}
Mentoring == {Field("f1", "mentor"), Field("f2", "seats")}
FewContents == {Talk, Mentoring}
FewTables == {<<>>, <<Talk, Mentoring>>}
Defaults == {Field("f_time", "time")}
Counted == {Field("f2", "seats")}
FewUploads == {[fields |-> {Field("f_1", "place")}, rows |-> <<>>],
               [fields |-> {Field("f_1", "room")}, rows |-> <<{Field("f_1", "room")}>>]}
FewEvents == {[schema |-> Talk, infos |-> <<Talk>>]}

\* Three rows on pages of one; sheets that change one row, and that enlist another.
FewCamperSheets == {1 :> d2, (1 :> d1) @@ (3 :> d1)}
FewEnrolments == {<<d1, d1, NoData>>, <<d1, d2, d1>>}

\* An organization at workspace w1, and one that may be made.
Spaces == (x1 :> w1) @@ (x2 :> w2)
OneOrganization == {(o1 :> [name |-> c1, token |-> x1, space |-> w1]) @@ (o2 :> Unmade)}

\* Either the accounts are busy, or the roster, or one of the pages.
Mixed == {[admin |-> 2, login |-> 2, tasks |-> 0],
          [admin |-> 2, login |-> 1, tasks |-> 0],
          [admin |-> 0, login |-> 1, tasks |-> 2],
          [admin |-> 0, login |-> 0, tasks |-> 3],
          [admin |-> 1, login |-> 1, tasks |-> 1],
          [admin |-> 0, login |-> 0, tasks |-> 0]}
NoDesk == [calls |-> 0, inputs |-> 0, campers |-> 0, orgs |-> 0]
OneDesk == {NoDesk, [NoDesk EXCEPT !.calls = 3], [NoDesk EXCEPT !.inputs = 5],
            [NoDesk EXCEPT !.calls = 1, !.inputs = 1],
            [NoDesk EXCEPT !.campers = 2], [NoDesk EXCEPT !.orgs = 2]}

\* The desks work while the accounts and the roster rest, and the other way round;
\* the page of the administrators is open while the accounts are somewhat busy.
DesksRest == /\ mode = "closed" /\ load.at = "closed"
             /\ fetched.at = "closed" /\ orgList.at = "closed"
Rests == /\ (left["login"] + tasksLeft = 0) # DesksRest
         /\ mode = "closed" /\ load.at = "closed" => created = 0
         /\ (opening.at = "asked") = (left["admin"] = 2 /\ left["login"] = 1)

\* An invitation of ann made cho administrator.
AfterInvitation ==
  /\ role = [p \in Person |-> "ADMIN"]
  /\ linked = {cho}
  /\ token = [p \in Person |-> "none"]
  /\ invitation = (i1 :> [to |-> cho, by |-> ann, status |-> "ACCEPTED", acceptedBy |-> cho])
               @@ (i2 :> [to |-> Nobody, by |-> Nobody, status |-> "unused", acceptedBy |-> Nobody])
  /\ req = [r \in Request |-> Idle]
  /\ promoted = [p \in Person |-> IF p = cho THEN 1 ELSE 0]
  /\ demoted = {} /\ shutOut = {} /\ crossed = {}
  /\ RosterInit

MCInit == /\ Init \/ (AfterInvitation /\ left["admin"] + left["login"] = 4)
          /\ AdminPageInit /\ DesksInit /\ Rests

MCSpec == MCInit /\ [][BackofficeNext]_allVars

\* The slots of a kind are alike.  Kinds that share a permutation are not busy together.
SwapJobs == i1 :> i2 @@ i2 :> i1 @@ t1 :> t2 @@ t2 :> t1
SwapCalls == r1 :> r2 @@ r2 :> r1 @@ k1 :> k2 @@ k2 :> k1 @@ e1 :> e2 @@ e2 :> e1 @@ g1 :> g2 @@ g2 :> g1
Unswapped == [i \in Invitation |-> i]
Symmetric == {SwapJobs, SwapCalls} \cup {Unswapped}
=============================================================================
