---------------------------- MODULE WaitingQueue ----------------------------
(***************************************************************************)
(* The waiting queue in front of one event (QueueService): a user enters,  *)
(* polls, is given a token that lets a reservation through, and the token  *)
(* is taken back once the reservation is made.  A repeated job removes the *)
(* users whose browser stopped polling.                                    *)
(*                                                                         *)
(* All of the state is in Redis.  A command is one step, and so is a       *)
(* pipeline; everything else may run between two of them.  The sorted set  *)
(* event:{id}:queue is a map to the score of each user, and a rank is      *)
(* nothing but the order of the scores.                                    *)
(***************************************************************************)
EXTENDS Integers, FiniteSets

CONSTANTS
    User,
    Tab, UserOf,    \* browser tabs on the event's page, and whose they are
    Attentive,      \* users whose browser leaves no gap of heartbeatTtl while they wait
    Returning,      \* tabs that may enter again: a reload, or after a cancellation
    BatchSize,
    MaxEnters,      \* how many calls enter, in all (a bound of the model)
    MaxCrashes      \* how many handlers are cut short (a bound of the model)

ASSUME QueueAssumption ==
    /\ IsFiniteSet(User)
    /\ UserOf \in [Tab -> User]
    /\ Attentive \subseteq User
    /\ Returning \subseteq Tab
    /\ BatchSize \in Nat \ {0}
    /\ MaxEnters \in Nat
    /\ MaxCrashes \in Nat

VARIABLES
    score,          \* event:{id}:queue, 0 for a user who is not a member
    heartbeat,      \* event:{id}:heartbeat, "old" past the threshold
    known,          \* event:{id}:user:{u}:status exists
    token,          \* event:{id}:user:{u}:token exists
    counted,        \* event:{id}:active_tokens, "lapsed" once the score is past
    registered,     \* the event is in queue:active_events
    pc,             \* where the handler of each tab's request stands
    now,            \* Date.now() as that handler read it
    view,           \* what the tab shows
    cleaner, stale, \* the cleanup job, and the list of users it read
    clock, crashes

redisVars == <<score, heartbeat, known, token, counted, registered>>
tabVars == <<pc, now, view>>
cleanerVars == <<cleaner, stale>>
vars == <<redisVars, tabVars, cleanerVars, clock, crashes>>

Phase == {"idle", "new", "register", "known", "rank", "requeue", "polled", "beat",
          "count", "issue", "existing", "move", "reserved", "untrack"}
View == {"closed", "polling", "token", "stopped", "reserved"}

Waiting(u) == score[u] # 0
Step(t, from, to) == pc[t] = from /\ pc' = [pc EXCEPT ![t] = to]
Show(t, v) == view' = [view EXCEPT ![t] = v]

Init ==
    /\ score = [u \in User |-> 0]
    /\ heartbeat = [u \in User |-> "none"]
    /\ known = [u \in User |-> FALSE]
    /\ token = [u \in User |-> FALSE]
    /\ counted = [u \in User |-> "none"]
    /\ registered = FALSE
    /\ pc = [t \in Tab |-> "idle"]
    /\ now = [t \in Tab |-> 0]
    /\ view = [t \in Tab |-> "closed"]
    /\ cleaner = "idle" /\ stale = {}
    /\ clock = 0 /\ crashes = 0
-----------------------------------------------------------------------------
(***************************************************************************)
(* enterQueue                                                              *)
(***************************************************************************)

\* Takes the time and looks the user's status up.
Enter(t) ==
    /\ clock < MaxEnters
    /\ view[t] = "closed" \/ t \in Returning
    /\ clock' = clock + 1
    /\ now' = [now EXCEPT ![t] = clock']
    /\ Step(t, "idle", IF known[UserOf[t]] THEN "known" ELSE "new")
    /\ Show(t, "closed")
    /\ UNCHANGED <<redisVars, cleanerVars, crashes>>

\* Variant: a score in another unit of time.
EnterNewScaled(t) ==
    /\ Step(t, "new", "register")
    /\ score' = [score EXCEPT ![UserOf[t]] = 1000 * now[t]]
    /\ known' = [known EXCEPT ![UserOf[t]] = TRUE]
    /\ heartbeat' = [heartbeat EXCEPT ![UserOf[t]] = "fresh"]
    /\ UNCHANGED <<token, counted, registered, now, view, cleanerVars, clock, crashes>>

\* A user without a status joins; one who is in the queue all the same is moved,
\* because ZADD overwrites a score.
EnterNew(t) ==
    /\ Step(t, "new", "register")
    /\ score' = [score EXCEPT ![UserOf[t]] = now[t]]
    /\ known' = [known EXCEPT ![UserOf[t]] = TRUE]
    /\ heartbeat' = [heartbeat EXCEPT ![UserOf[t]] = "fresh"]
    /\ UNCHANGED <<token, counted, registered, now, view, cleanerVars, clock, crashes>>

RegisterEvent(t) ==
    /\ Step(t, "register", "count")
    /\ registered' = TRUE
    /\ UNCHANGED <<score, heartbeat, known, token, counted, now, view, cleanerVars,
                   clock, crashes>>

\* Variant: the known user is added again along with the heartbeat.
EnterKnownRequeues(t) ==
    /\ Step(t, "known", "rank")
    /\ known' = [known EXCEPT ![UserOf[t]] = TRUE]
    /\ heartbeat' = [heartbeat EXCEPT ![UserOf[t]] = "fresh"]
    /\ score' = [score EXCEPT ![UserOf[t]] = now[t]]
    /\ UNCHANGED <<token, counted, registered, now, view, cleanerVars, clock, crashes>>

EnterKnown(t) ==
    /\ Step(t, "known", "rank")
    /\ known' = [known EXCEPT ![UserOf[t]] = TRUE]
    /\ heartbeat' = [heartbeat EXCEPT ![UserOf[t]] = "fresh"]
    /\ UNCHANGED <<score, token, counted, registered, now, view, cleanerVars, clock, crashes>>

EnterRank(t) ==
    /\ Step(t, "rank", IF Waiting(UserOf[t]) THEN "count" ELSE "requeue")
    /\ UNCHANGED <<redisVars, now, view, cleanerVars, clock, crashes>>

EnterRequeue(t) ==
    /\ Step(t, "requeue", "count")
    /\ score' = [score EXCEPT ![UserOf[t]] = now[t]]
    /\ UNCHANGED <<heartbeat, known, token, counted, registered, now, view, cleanerVars,
                   clock, crashes>>
-----------------------------------------------------------------------------
(***************************************************************************)
(* getQueueStatus, up to the count                                         *)
(***************************************************************************)

Poll(t) ==
    /\ view[t] = "polling"
    /\ \/ token[UserOf[t]] /\ pc[t] = "idle" /\ UNCHANGED pc /\ Show(t, "token")
       \/ ~token[UserOf[t]] /\ Step(t, "idle", "polled") /\ UNCHANGED view
    /\ UNCHANGED <<redisVars, now, cleanerVars, clock, crashes>>

\* A user who is no longer in the queue is told so, and the tab stops polling.
PollRank(t) ==
    /\ \/ Waiting(UserOf[t]) /\ Step(t, "polled", "beat") /\ UNCHANGED view
       \/ ~Waiting(UserOf[t]) /\ Step(t, "polled", "idle") /\ Show(t, "stopped")
    /\ UNCHANGED <<redisVars, now, cleanerVars, clock, crashes>>

PollHeartbeat(t) ==
    /\ Step(t, "beat", "count")
    /\ heartbeat' = [heartbeat EXCEPT ![UserOf[t]] = "fresh"]
    /\ UNCHANGED <<score, known, token, counted, registered, now, view, cleanerVars,
                   clock, crashes>>
-----------------------------------------------------------------------------
(***************************************************************************)
(* getActiveTokenCount and issueToken, for both                            *)
(***************************************************************************)

Members == {u \in User : counted[u] # "none"}
Live == {u \in User : counted[u] = "live"}

\* Variant: nothing removes the entries whose time is past.
CountTokensUnpruned(t) ==
    /\ \/ Cardinality(Members) < BatchSize /\ Step(t, "count", "issue") /\ UNCHANGED view
       \/ Cardinality(Members) >= BatchSize /\ Step(t, "count", "idle") /\ Show(t, "polling")
    /\ UNCHANGED <<redisVars, now, cleanerVars, clock, crashes>>

\* ZREMRANGEBYSCORE drops what has lapsed, ZCARD counts the rest.
CountTokens(t) ==
    /\ counted' = [u \in User |-> IF u \in Live THEN "live" ELSE "none"]
    /\ \/ Cardinality(Live) < BatchSize /\ Step(t, "count", "issue") /\ UNCHANGED view
       \/ Cardinality(Live) >= BatchSize /\ Step(t, "count", "idle") /\ Show(t, "polling")
    /\ UNCHANGED <<score, heartbeat, known, token, registered, now, cleanerVars, clock, crashes>>

\* SET ... EX NX
IssueToken(t) ==
    /\ Step(t, "issue", IF token[UserOf[t]] THEN "existing" ELSE "move")
    /\ token' = [token EXCEPT ![UserOf[t]] = TRUE]
    /\ UNCHANGED <<score, heartbeat, known, counted, registered, now, view, cleanerVars,
                   clock, crashes>>

\* The token that was there is handed out, or has expired and SET is tried again.
IssueExisting(t) ==
    /\ \/ token[UserOf[t]] /\ Step(t, "existing", "idle") /\ Show(t, "token")
       \/ ~token[UserOf[t]] /\ Step(t, "existing", "issue") /\ UNCHANGED view
    /\ UNCHANGED <<redisVars, now, cleanerVars, clock, crashes>>

\* The pipeline that takes the user out of the queue and into the count.
IssueMove(t) ==
    /\ Step(t, "move", "idle")
    /\ score' = [score EXCEPT ![UserOf[t]] = 0]
    /\ heartbeat' = [heartbeat EXCEPT ![UserOf[t]] = "none"]
    /\ counted' = [counted EXCEPT ![UserOf[t]] = "live"]
    /\ Show(t, "token")
    /\ UNCHANGED <<known, token, registered, now, cleanerVars, clock, crashes>>
-----------------------------------------------------------------------------
(***************************************************************************)
(* QueueTokenGuard and invalidateToken, around a POST /reservations        *)
(***************************************************************************)

\* The guard lets the request through and the reservation is accepted.
UseToken(t) ==
    /\ view[t] = "token"
    /\ token[UserOf[t]]
    /\ Step(t, "idle", "reserved")
    /\ UNCHANGED <<redisVars, now, view, cleanerVars, clock, crashes>>

\* Variant: the entry of the count goes, and the key stays.
InvalidateUntracks(t) ==
    /\ Step(t, "reserved", "untrack")
    /\ counted' = [counted EXCEPT ![UserOf[t]] = "none"]
    /\ UNCHANGED <<score, heartbeat, known, token, registered, now, view, cleanerVars,
                   clock, crashes>>

InvalidateToken(t) ==
    /\ Step(t, "reserved", "untrack")
    /\ token' = [token EXCEPT ![UserOf[t]] = FALSE]
    /\ UNCHANGED <<score, heartbeat, known, counted, registered, now, view, cleanerVars,
                   clock, crashes>>

InvalidateCount(t) ==
    /\ Step(t, "untrack", "idle")
    /\ counted' = [counted EXCEPT ![UserOf[t]] = "none"]
    /\ Show(t, "reserved")
    /\ UNCHANGED <<score, heartbeat, known, token, registered, now, cleanerVars, clock, crashes>>
-----------------------------------------------------------------------------
(***************************************************************************)
(* cleanupExpiredUsers, run by the repeated job for every registered event *)
(***************************************************************************)

CleanupRead ==
    /\ cleaner = "idle" /\ registered
    /\ stale' = {u \in User : heartbeat[u] = "old"}
    /\ stale' # {}
    /\ cleaner' = "remove"
    /\ UNCHANGED <<redisVars, tabVars, clock, crashes>>

\* The users of the list go, whatever they did since it was read.
CleanupRemove ==
    /\ cleaner = "remove" /\ cleaner' = "zcard"
    /\ score' = [u \in User |-> IF u \in stale THEN 0 ELSE score[u]]
    /\ heartbeat' = [u \in User |-> IF u \in stale THEN "none" ELSE heartbeat[u]]
    /\ known' = [u \in User |-> known[u] /\ u \notin stale]
    /\ UNCHANGED <<token, counted, registered, tabVars, stale, clock, crashes>>

CleanupCount ==
    /\ cleaner = "zcard"
    /\ cleaner' = IF \E u \in User : Waiting(u) THEN "idle" ELSE "unregister"
    /\ stale' = {}
    /\ UNCHANGED <<redisVars, tabVars, clock, crashes>>

CleanupUnregister ==
    /\ cleaner = "unregister" /\ cleaner' = "idle"
    /\ registered' = FALSE
    /\ UNCHANGED <<score, heartbeat, known, token, counted, tabVars, stale, clock, crashes>>
-----------------------------------------------------------------------------
(***************************************************************************)
(* Time, and failures                                                      *)
(***************************************************************************)

\* userStatusTtl: only enterQueue renews a status, polling does not.
StatusExpires(u) ==
    /\ known[u] /\ known' = [known EXCEPT ![u] = FALSE]
    /\ UNCHANGED <<score, heartbeat, token, counted, registered, tabVars, cleanerVars,
                   clock, crashes>>

\* heartbeatTtl: an attentive user who waits polls, or tries to enter again, in time.
HeartbeatAges(u) ==
    /\ u \in Attentive /\ Waiting(u) =>
          \A t \in Tab : UserOf[t] = u => view[t] \in {"token", "reserved"} /\ pc[t] = "idle"
    /\ heartbeat[u] = "fresh" /\ heartbeat' = [heartbeat EXCEPT ![u] = "old"]
    /\ UNCHANGED <<score, known, token, counted, registered, tabVars, cleanerVars,
                   clock, crashes>>

\* tokenTtl, once as the TTL of the key and once as a score taken after the SET:
\* the count outlives the token.
TokenExpires(u) ==
    /\ token[u] /\ token' = [token EXCEPT ![u] = FALSE]
    /\ UNCHANGED <<score, heartbeat, known, counted, registered, tabVars, cleanerVars,
                   clock, crashes>>

CountLapses(u) ==
    /\ counted[u] = "live" /\ ~token[u]
    /\ counted' = [counted EXCEPT ![u] = "lapsed"]
    /\ UNCHANGED <<score, heartbeat, known, token, registered, tabVars, cleanerVars,
                   clock, crashes>>

\* A handler is cut short: the server dies or Redis does not answer.  A tab that
\* was polling polls on; one that was entering or reserving shows an error.
HandlerCrashes(t) ==
    /\ crashes < MaxCrashes /\ crashes' = crashes + 1
    /\ pc[t] # "idle" /\ pc' = [pc EXCEPT ![t] = "idle"]
    /\ UNCHANGED <<redisVars, now, view, cleanerVars, clock>>
-----------------------------------------------------------------------------
HandlerStep(t) ==
    \/ EnterNew(t) \/ RegisterEvent(t) \/ EnterKnown(t) \/ EnterRank(t) \/ EnterRequeue(t)
    \/ PollRank(t) \/ PollHeartbeat(t)
    \/ CountTokens(t) \/ IssueToken(t) \/ IssueExisting(t) \/ IssueMove(t)
    \/ InvalidateToken(t) \/ InvalidateCount(t)

TabStep(t) == Enter(t) \/ Poll(t) \/ UseToken(t)

CleanerStep == CleanupRead \/ CleanupRemove \/ CleanupCount \/ CleanupUnregister

Time(u) == StatusExpires(u) \/ HeartbeatAges(u) \/ TokenExpires(u) \/ CountLapses(u)

Next ==
    \/ \E t \in Tab : TabStep(t) \/ HandlerStep(t) \/ HandlerCrashes(t)
    \/ CleanerStep
    \/ \E u \in User : Time(u)

Spec == Init /\ [][Next]_vars

\* A handler that started goes on, the browser of an attentive user polls, and
\* the two times of a token run out.
Fairness ==
    /\ \A t \in Tab : WF_vars(HandlerStep(t))
    /\ \A t \in Tab : UserOf[t] \in Attentive => WF_vars(Poll(t))
    /\ \A u \in User : WF_vars(TokenExpires(u)) /\ WF_vars(CountLapses(u))

FairSpec == Spec /\ Fairness
-----------------------------------------------------------------------------
(***************************************************************************)
(* Properties                                                              *)
(***************************************************************************)

\* Every variable holds a value of its kind.
TypeOK ==
    /\ score \in [User -> 0..MaxEnters]
    /\ heartbeat \in [User -> {"none", "fresh", "old"}]
    /\ known \in [User -> BOOLEAN] /\ token \in [User -> BOOLEAN]
    /\ counted \in [User -> {"none", "live", "lapsed"}]
    /\ registered \in BOOLEAN
    /\ pc \in [Tab -> Phase] /\ now \in [Tab -> 0..MaxEnters] /\ view \in [Tab -> View]
    /\ cleaner \in {"idle", "remove", "zcard", "unregister"} /\ stale \subseteq User
    /\ clock \in 0..MaxEnters /\ crashes \in 0..MaxCrashes

\* Tokens that are valid and that no count shows, nor soon will.
Uncounted == {u \in User : /\ token[u] /\ counted[u] # "live"
                           /\ \A t \in Tab : UserOf[t] = u => pc[t] # "move"}

\* With one tab per user, a valid token escapes the limit only if the handler
\* that issued it was cut short between the SET and the pipeline.
UncountedAreCrashed == Cardinality(Uncounted) <= crashes

\* With one tab per user, one who waits and whose status is there never gets a later
\* place in the queue: entering again replaces the session and nothing else
\* (queue.service.ts:96-118).
KnownKeepsPlace == [][\A u \in User : score[u] # 0 /\ score'[u] > score[u] => ~known[u]]_vars

\* An attentive user who waits is given a token, whoever is ahead and whatever
\* the others abandon: the count always drains (as long as arrivals end, since
\* nothing in the code prefers the one who waited longer).
AttentiveServed ==
    \A t \in Tab : UserOf[t] \in Attentive => (view[t] = "polling" ~> view[t] = "token")

\* At most BatchSize users hold a valid token at a time.
TokensWithinBatch == Cardinality({u \in User : token[u]}) <= BatchSize

\* A user in the queue who enters again keeps the place.
PlaceKept == [][\A u \in User : score[u] # 0 => score'[u] <= score[u]]_vars
=============================================================================
