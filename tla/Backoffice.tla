----------------------------- MODULE Backoffice -----------------------------
(***************************************************************************)
(* What administrators do, together: accounts and their page, the roster   *)
(* and its page, the organizations, the templates and the form of events.  *)
(* They meet in the RolesGuard that all of their calls pass                *)
(* (auth.decorator.ts), which trusts the token.                            *)
(***************************************************************************)
EXTENDS CamperRoster, AdminPage, EventForm, RosterPage, Organizations

CONSTANT
  Desks            \* bounds: the calls and inputs of the pages

ASSUME DesksAreBounds ==
  Desks \subseteq [calls : Nat, inputs : Nat, campers : Nat, orgs : Nat]

deskVars == <<templateVars, formVars, rosterPageVars, orgVars>>
allVars == <<vars, adminPageVars, deskVars>>

DesksInit ==
  \E d \in Desks : /\ TemplatesInit(d.calls) /\ FormInit(d.inputs)
                  /\ RosterPageInit(d.campers) /\ OrganizationsInit(d.orgs)

BackofficeInit == Init /\ AdminPageInit /\ DesksInit

\* A call of the pages is refused without the token of an administrator.
DeskNext ==
  \/ /\ (MayAdminister(Clerk) /\ TemplatesCall) \/ TemplatesStep
     /\ UNCHANGED <<formVars, rosterPageVars, orgVars>>
  \/ /\ (MayAdminister(Clerk) /\ FormCall) \/ FormAlone
     /\ UNCHANGED <<templateVars, rosterPageVars, orgVars>>
  \/ /\ (MayAdminister(Clerk) /\ RosterPageCall) \/ RosterPageStep
     /\ UNCHANGED <<templateVars, formVars, orgVars>>
  \/ /\ (MayAdminister(Clerk) /\ OrganizationsCall) \/ OrganizationsStep
     /\ UNCHANGED <<templateVars, formVars, rosterPageVars>>

BackofficeNext ==
  \/ Next /\ Hears /\ UNCHANGED deskVars
  \/ AdminPageCall /\ UNCHANGED <<rosterVars, deskVars>>
  \/ AdminPageStep /\ UNCHANGED <<vars, deskVars>>
  \/ DeskNext /\ UNCHANGED <<vars, adminPageVars>>

BackofficeSpec == BackofficeInit /\ [][BackofficeNext]_allVars
-----------------------------------------------------------------------------
BackofficeTypeOK ==
  TypeOK /\ AdminPageTypeOK /\ TemplatesTypeOK /\ FormTypeOK /\ RosterPageTypeOK /\ OrganizationsTypeOK
=============================================================================
