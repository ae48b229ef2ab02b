------------------------------ MODULE Rollout ------------------------------
(***************************************************************************)
(* A deployment (scripts/deploy.sh, rolling_update of scripts/lib.sh,      *)
(* scripts/rollback.sh) and the containers it replaces behind nginx.       *)
(* The names in the upstreams of nginx/nginx.conf have no `resolve', so    *)
(* nginx asks for their addresses when it loads its configuration and not  *)
(* again: the `resolver' of line 29 is for names in variables.  An image   *)
(* is the number of its build.                                             *)
(***************************************************************************)
EXTENDS Naturals, FiniteSets

CONSTANTS
  Container,           \* identities of containers, none is used twice
  NoContainer,
  MaxDeploys           \* bound: the deployments of a behaviour

VARIABLES
  box,          \* the containers
  upstream,     \* the containers whose addresses nginx knows, by service
  built,        \* the last image that was built and pushed
  latest,       \* the image `production-latest' of the server
  stage,        \* where the script is
  service,      \* the service that is being replaced
  old, new,     \* old_containers, new_container
  deploys       \* how many deployments began

vars == <<box, upstream, built, latest, stage, service, old, new, deploys>>

Service == {"backend", "frontend"}
Unused == [of |-> "none", image |-> 0, state |-> "gone", drained |-> FALSE]
Running(s) == {c \in Container : box[c].of = s /\ box[c].state \in {"starting", "healthy", "unhealthy"}}

RolloutInit ==
  /\ \E f \in [Service -> Container] :
       /\ f["backend"] # f["frontend"]
       /\ box = [c \in Container |-> IF \E s \in Service : f[s] = c
            THEN [of |-> CHOOSE s \in Service : f[s] = c, image |-> 1,
                  state |-> "healthy", drained |-> FALSE]
            ELSE Unused]
       /\ upstream = [s \in Service |-> {f[s]}]
  /\ built = 1 /\ latest = 1
  /\ stage = "rest"
  /\ service = "backend"
  /\ old = {} /\ new = NoContainer
  /\ deploys = 0

Goto(from, to) == stage = from /\ stage' = to

\* docker compose up: one more container of the image the server has pulled.
Starts(s, c) ==
  /\ box[c] = Unused
  /\ box' = [box EXCEPT ![c] = [of |-> s, image |-> latest, state |-> "starting",
                                drained |-> FALSE]]

Removed(set) == [c \in Container |-> IF c \in set THEN [box[c] EXCEPT !.state = "gone"] ELSE box[c]]
-----------------------------------------------------------------------------
(* Health checks: every 5 seconds, unhealthy after three failures. *)

HealthCheck(c) ==
  /\ box[c].state \in {"starting", "healthy", "unhealthy"}
  /\ \E state \in {"healthy", "unhealthy"} :
       /\ box[c].drained => state = "unhealthy"
       /\ box' = [box EXCEPT ![c].state = state]
  /\ UNCHANGED <<upstream, built, latest, stage, service, old, new, deploys>>
-----------------------------------------------------------------------------
(* deploy.sh *)

DeployBegin ==
  /\ deploys < MaxDeploys
  /\ deploys' = deploys + 1
  /\ built' = built + 1
  /\ Goto("rest", "pull")
  /\ UNCHANGED <<box, upstream, latest, service, old, new>>

\* A check, the login, the pull or the migration fails: the script exits.
DeployStops ==
  /\ stage \in {"pull", "migrate"}
  /\ stage' = "rest"
  /\ UNCHANGED <<box, upstream, built, latest, service, old, new, deploys>>

\* The tag `production-latest' moves on, and the image before it loses its name.
Pull ==
  /\ Goto("pull", "migrate")
  /\ latest' = built
  /\ UNCHANGED <<box, upstream, built, service, old, new, deploys>>

Migrate ==
  /\ Goto("migrate", "old")
  /\ service' = "backend"
  /\ UNCHANGED <<box, upstream, built, latest, old, new, deploys>>

\* Only when both services are replaced nginx reads its configuration again.
Reload ==
  /\ Goto("reload", "rest")
  /\ upstream' = [s \in Service |-> Running(s)]
  /\ UNCHANGED <<box, built, latest, service, old, new, deploys>>

\* The connection to the server is lost, and the script dies.
Interrupted ==
  /\ stage # "rest"
  /\ stage' = "rest"
  /\ UNCHANGED <<box, upstream, built, latest, service, old, new, deploys>>
-----------------------------------------------------------------------------
(* rolling_update *)

NextService == IF service = "backend" THEN "old" ELSE "reload"

FindOld ==
  /\ old' = Running(service)
  /\ new' = NoContainer
  /\ Goto("old", IF old' = {} THEN "first" ELSE "add")
  /\ UNCHANGED <<box, upstream, built, latest, service, deploys>>

\* No container yet: it is started, and its health is not waited for.
FirstStart ==
  /\ Goto("first", NextService)
  /\ \E c \in Container : Starts(service, c)
  /\ service' = "frontend"
  /\ UNCHANGED <<upstream, built, latest, old, new, deploys>>

\* Scale 2: a second container, unless an interrupted deployment left one.
AddSecond ==
  /\ IF Cardinality(Running(service)) >= 2
     THEN Goto("add", "rollback") /\ UNCHANGED <<box, new>>
     ELSE /\ Goto("add", "wait")
          /\ \E c \in Container : Starts(service, c) /\ new' = c
  /\ UNCHANGED <<upstream, built, latest, service, old, deploys>>

WaitHealthy ==
  /\ Goto("wait", "drain")
  /\ box[new].state = "healthy"
  /\ UNCHANGED <<box, upstream, built, latest, service, old, new, deploys>>

\* It is unhealthy, or not healthy for 60 seconds.
WaitFails ==
  /\ Goto("wait", "rollback")
  /\ box' = Removed({new})
  /\ UNCHANGED <<upstream, built, latest, service, old, new, deploys>>

Drain ==
  /\ Goto("drain", "stop")
  /\ box' = [c \in Container |-> IF c \in old THEN [box[c] EXCEPT !.drained = TRUE] ELSE box[c]]
  /\ UNCHANGED <<upstream, built, latest, service, old, new, deploys>>

\* Ten seconds later, whatever their health checks said.
StopOld ==
  /\ Goto("stop", NextService)
  /\ box' = Removed(old)
  /\ service' = "frontend"
  /\ UNCHANGED <<upstream, built, latest, old, new, deploys>>
-----------------------------------------------------------------------------
(* rollback.sh *)

\* `down' stops nginx too.
RollbackDown ==
  /\ Goto("rollback", "up")
  /\ box' = Removed(Container)
  /\ upstream' = [s \in Service |-> {}]
  /\ UNCHANGED <<built, latest, service, old, new, deploys>>

\* The tag is the same as before: the image that failed starts again.
RollbackUp ==
  /\ Goto("up", "rest")
  /\ \E c, d \in Container :
       /\ c # d /\ box[c] = Unused /\ box[d] = Unused
       /\ box' = [box EXCEPT
            ![c] = [of |-> "backend", image |-> latest, state |-> "starting", drained |-> FALSE],
            ![d] = [of |-> "frontend", image |-> latest, state |-> "starting", drained |-> FALSE]]
       /\ upstream' = [s \in Service |-> IF s = "backend" THEN {c} ELSE {d}]
  /\ UNCHANGED <<built, latest, service, old, new, deploys>>
-----------------------------------------------------------------------------
RolloutNext ==
  \/ \E c \in Container : HealthCheck(c)
  \/ DeployBegin \/ DeployStops \/ Pull \/ Migrate \/ Reload \/ Interrupted
  \/ FindOld \/ FirstStart \/ AddSecond \/ WaitHealthy \/ WaitFails \/ Drain \/ StopOld
  \/ RollbackDown \/ RollbackUp

RolloutSpec == RolloutInit /\ [][RolloutNext]_vars
-----------------------------------------------------------------------------
\* Requests are served without a break while a deployment replaces the
\* containers (README.md:135-139): while nginx runs, it knows the address of a
\* running container of each service.
AlwaysServed ==
  \A s \in Service : upstream[s] # {} => upstream[s] \cap Running(s) # {}
=============================================================================
