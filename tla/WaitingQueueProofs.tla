------------------------- MODULE WaitingQueueProofs -------------------------
(***************************************************************************)
(* What holds of the waiting queue for every number of users, every batch  *)
(* size and every number of crashes, when each user has one tab.           *)
(***************************************************************************)
EXTENDS WaitingQueue, FiniteSetTheorems, TLAPS

\* Every variable of the waiting queue keeps its type, for every instance.
THEOREM TypeCorrect == Spec => []TypeOK
<1> USE QueueAssumption DEF QueueAssumption
<1>1. Init => TypeOK
  <2> SUFFICES ASSUME Init PROVE TypeOK
    OBVIOUS
  <2>1. 0 \in 0..MaxEnters /\ 0 \in 0..MaxCrashes
    OBVIOUS
  <2>2. QED
    BY <2>1 DEF Init, TypeOK, Phase, View
<1>2. TypeOK /\ [Next]_vars => TypeOK'
  <2> SUFFICES ASSUME TypeOK, [Next]_vars PROVE TypeOK'
    OBVIOUS
  <2> USE DEF TypeOK, Phase, View, Step, Show, redisVars, tabVars, cleanerVars
  <2>1. ASSUME NEW t \in Tab, TabStep(t) PROVE TypeOK'
    BY <2>1 DEF TabStep, Enter, Poll, UseToken
  <2>2. ASSUME NEW t \in Tab, HandlerStep(t) PROVE TypeOK'
    <3>1. CASE EnterNew(t)        BY <3>1 DEF EnterNew
    <3>2. CASE RegisterEvent(t)   BY <3>2 DEF RegisterEvent
    <3>3. CASE EnterKnown(t)      BY <3>3 DEF EnterKnown
    <3>4. CASE EnterRank(t)       BY <3>4 DEF EnterRank
    <3>5. CASE EnterRequeue(t)    BY <3>5 DEF EnterRequeue
    <3>6. CASE PollRank(t)        BY <3>6 DEF PollRank
    <3>7. CASE PollHeartbeat(t)   BY <3>7 DEF PollHeartbeat
    <3>8. CASE CountTokens(t)     BY <3>8 DEF CountTokens
    <3>9. CASE IssueToken(t)      BY <3>9 DEF IssueToken
    <3>10. CASE IssueExisting(t)  BY <3>10 DEF IssueExisting
    <3>11. CASE IssueMove(t)      BY <3>11 DEF IssueMove
    <3>12. CASE InvalidateToken(t) BY <3>12 DEF InvalidateToken
    <3>13. CASE InvalidateCount(t) BY <3>13 DEF InvalidateCount
    <3>14. QED
      BY <2>2, <3>1, <3>2, <3>3, <3>4, <3>5, <3>6, <3>7, <3>8, <3>9, <3>10, <3>11,
         <3>12, <3>13 DEF HandlerStep
  <2>3. ASSUME NEW t \in Tab, HandlerCrashes(t) PROVE TypeOK'
    BY <2>3 DEF HandlerCrashes
  <2>4. ASSUME CleanerStep PROVE TypeOK'
    <3>1. CASE CleanupRead        BY <3>1 DEF CleanupRead
    <3>2. CASE CleanupRemove      BY <3>2 DEF CleanupRemove
    <3>3. CASE CleanupCount       BY <3>3 DEF CleanupCount
    <3>4. CASE CleanupUnregister  BY <3>4 DEF CleanupUnregister
    <3>5. QED                     BY <2>4, <3>1, <3>2, <3>3, <3>4 DEF CleanerStep
  <2>5. ASSUME NEW u \in User, Time(u) PROVE TypeOK'
    BY <2>5 DEF Time, StatusExpires, HeartbeatAges, TokenExpires, CountLapses
  <2>6. CASE UNCHANGED vars
    BY <2>6 DEF vars
  <2>7. QED
    BY <2>1, <2>2, <2>3, <2>4, <2>5, <2>6 DEF Next
<1>3. QED
  BY <1>1, <1>2, PTL DEF Spec
-----------------------------------------------------------------------------
\* Each user has one tab, and one request of it in flight.
OneTab == \A s, t \in Tab : UserOf[s] = UserOf[t] => s = t

\* What a handler learned still holds when it acts on it: a user it found without
\* a status has none, one it found out of the queue is out, and a token it
\* deleted is gone.
Learned ==
    \A t \in Tab :
        /\ pc[t] = "new" => ~known[UserOf[t]]
        /\ pc[t] = "requeue" => ~Waiting(UserOf[t])
        /\ pc[t] = "untrack" => ~token[UserOf[t]]

\* With one tab per user nothing a handler read is stale when it is used, because
\* the only others that write the keys of a user are the clock and the cleanup.
THEOREM LearnedHolds == ASSUME OneTab PROVE Spec => []Learned
<1>1. Init => Learned
  BY DEF Init, Learned
<1>2. TypeOK /\ Learned /\ [Next]_vars => Learned'
  <2> SUFFICES ASSUME TypeOK, Learned, [Next]_vars PROVE Learned'
    OBVIOUS
  <2>0. \A s, t \in Tab : UserOf[s] = UserOf[t] => s = t
    BY OneTab DEF OneTab
  <2> USE <2>0, QueueAssumption
      DEF TypeOK, Learned, Phase, Waiting, Step, Show, redisVars, tabVars, cleanerVars
  <2>1. ASSUME NEW t \in Tab, TabStep(t) PROVE Learned'
    BY <2>1 DEF TabStep, Enter, Poll, UseToken
  <2>2. ASSUME NEW t \in Tab, HandlerStep(t) PROVE Learned'
    <3>1. CASE EnterNew(t)        BY <3>1 DEF EnterNew
    <3>2. CASE RegisterEvent(t)   BY <3>2 DEF RegisterEvent
    <3>3. CASE EnterKnown(t)      BY <3>3 DEF EnterKnown
    <3>4. CASE EnterRank(t)       BY <3>4 DEF EnterRank
    <3>5. CASE EnterRequeue(t)    BY <3>5 DEF EnterRequeue
    <3>6. CASE PollRank(t)        BY <3>6 DEF PollRank
    <3>7. CASE PollHeartbeat(t)   BY <3>7 DEF PollHeartbeat
    <3>8. CASE CountTokens(t)     BY <3>8 DEF CountTokens
    <3>9. CASE IssueToken(t)      BY <3>9 DEF IssueToken
    <3>10. CASE IssueExisting(t)  BY <3>10 DEF IssueExisting
    <3>11. CASE IssueMove(t)      BY <3>11 DEF IssueMove
    <3>12. CASE InvalidateToken(t) BY <3>12 DEF InvalidateToken
    <3>13. CASE InvalidateCount(t) BY <3>13 DEF InvalidateCount
    <3>14. QED
      BY <2>2, <3>1, <3>2, <3>3, <3>4, <3>5, <3>6, <3>7, <3>8, <3>9, <3>10, <3>11,
         <3>12, <3>13 DEF HandlerStep
  <2>3. ASSUME NEW t \in Tab, HandlerCrashes(t) PROVE Learned'
    BY <2>3 DEF HandlerCrashes
  <2>4. ASSUME CleanerStep PROVE Learned'
    BY <2>4 DEF CleanerStep, CleanupRead, CleanupRemove, CleanupCount, CleanupUnregister
  <2>5. ASSUME NEW u \in User, Time(u) PROVE Learned'
    BY <2>5 DEF Time, StatusExpires, HeartbeatAges, TokenExpires, CountLapses
  <2>6. CASE UNCHANGED vars
    BY <2>6 DEF vars
  <2>7. QED
    BY <2>1, <2>2, <2>3, <2>4, <2>5, <2>6 DEF Next
<1>3. QED
  BY <1>1, <1>2, TypeCorrect, PTL DEF Spec

\* A waiting user whose status is there never gets a later place, as long as the
\* user has one tab.  Two tabs that both found no status join one after the other,
\* and the ZADD of the second moves the user (queue.service.ts:96-140).
THEOREM KnownKeepsPlaceHolds == ASSUME OneTab PROVE Spec => KnownKeepsPlace
<1>1. ASSUME TypeOK, Learned, [Next]_vars, NEW u \in User,
             score[u] # 0, score'[u] > score[u]
      PROVE  ~known[u]
  <2> USE QueueAssumption DEF TypeOK, Step, redisVars
  <2>1. score[u] \in 1..MaxEnters
    BY <1>1
  <2>2. PICK t \in Tab : EnterNew(t) \/ EnterRequeue(t)
    <3>1. ASSUME UNCHANGED score PROVE FALSE
      BY <1>1, <2>1, <3>1
    <3>2. ASSUME NEW t \in Tab, IssueMove(t) PROVE FALSE
      BY <1>1, <2>1, <3>2 DEF IssueMove
    <3>3. ASSUME CleanupRemove PROVE FALSE
      BY <1>1, <2>1, <3>3 DEF CleanupRemove
    <3>4. ASSUME NEW t \in Tab, HandlerStep(t), ~EnterNew(t), ~EnterRequeue(t), ~IssueMove(t)
          PROVE  UNCHANGED score
      BY <3>4 DEF HandlerStep, RegisterEvent, EnterKnown, EnterRank, PollRank, PollHeartbeat,
                  CountTokens, IssueToken, IssueExisting, InvalidateToken, InvalidateCount
    <3>5. ASSUME NEW t \in Tab, TabStep(t) \/ HandlerCrashes(t) PROVE UNCHANGED score
      BY <3>5 DEF TabStep, Enter, Poll, UseToken, HandlerCrashes
    <3>6. ASSUME CleanerStep, ~CleanupRemove PROVE UNCHANGED score
      BY <3>6 DEF CleanerStep, CleanupRead, CleanupCount, CleanupUnregister
    <3>7. ASSUME NEW v \in User, Time(v) PROVE UNCHANGED score
      BY <3>7 DEF Time, StatusExpires, HeartbeatAges, TokenExpires, CountLapses
    <3>8. ASSUME UNCHANGED vars PROVE UNCHANGED score
      BY <3>8 DEF vars
    <3>9. QED
      BY <1>1, <3>1, <3>2, <3>3, <3>4, <3>5, <3>6, <3>7, <3>8 DEF Next
  <2>3. u = UserOf[t]
    BY <1>1, <2>1, <2>2 DEF EnterNew, EnterRequeue
  <2>4. CASE EnterNew(t)
    BY <1>1, <2>3, <2>4 DEF EnterNew, Learned
  <2>5. CASE EnterRequeue(t)
    BY <1>1, <2>3, <2>5 DEF EnterRequeue, Learned, Waiting
  <2>6. QED
    BY <2>2, <2>4, <2>5
<1>2. TypeOK /\ Learned /\ [Next]_vars
         => [\A u \in User : score[u] # 0 /\ score'[u] > score[u] => ~known[u]]_vars
  BY <1>1
<1>3. QED
  BY <1>2, TypeCorrect, LearnedHolds, PTL DEF Spec, KnownKeepsPlace
-----------------------------------------------------------------------------
\* Every step but a crash leaves at most the uncounted tokens there were, and a
\* crash adds at most one.
LEMMA UncountedStep ==
    ASSUME TypeOK, Learned, OneTab, [Next]_vars
    PROVE  \/ Uncounted' \subseteq Uncounted /\ crashes' = crashes
           \/ /\ crashes' = crashes + 1
              /\ \E u \in User : Uncounted' \subseteq Uncounted \cup {u}
<1> USE QueueAssumption, OneTab
    DEF TypeOK, Learned, Uncounted, Step, Show, redisVars, tabVars, cleanerVars
<1> DEFINE Shrinks == Uncounted' \subseteq Uncounted /\ crashes' = crashes
<1>1. ASSUME NEW t \in Tab, TabStep(t) PROVE Shrinks
  BY <1>1 DEF TabStep, Enter, Poll, UseToken
<1>2. ASSUME NEW t \in Tab, HandlerStep(t) PROVE Shrinks
  <2>1. CASE EnterNew(t)        BY <2>1 DEF EnterNew
  <2>2. CASE RegisterEvent(t)   BY <2>2 DEF RegisterEvent
  <2>3. CASE EnterKnown(t)      BY <2>3 DEF EnterKnown
  <2>4. CASE EnterRank(t)       BY <2>4 DEF EnterRank
  <2>5. CASE EnterRequeue(t)    BY <2>5 DEF EnterRequeue
  <2>6. CASE PollRank(t)        BY <2>6 DEF PollRank
  <2>7. CASE PollHeartbeat(t)   BY <2>7 DEF PollHeartbeat
  <2>8. CASE CountTokens(t)     BY <2>8 DEF CountTokens, Live
  <2>9. CASE IssueToken(t)      BY <2>9 DEF IssueToken
  <2>10. CASE IssueExisting(t)  BY <2>10 DEF IssueExisting
  <2>11. CASE IssueMove(t)      BY <2>11 DEF IssueMove
  <2>12. CASE InvalidateToken(t) BY <2>12 DEF InvalidateToken
  <2>13. CASE InvalidateCount(t) BY <2>13 DEF InvalidateCount
  <2>14. QED
    BY <1>2, <2>1, <2>2, <2>3, <2>4, <2>5, <2>6, <2>7, <2>8, <2>9, <2>10, <2>11,
       <2>12, <2>13 DEF HandlerStep
<1>3. ASSUME NEW t \in Tab, HandlerCrashes(t)
      PROVE  crashes' = crashes + 1 /\ Uncounted' \subseteq Uncounted \cup {UserOf[t]}
  BY <1>3 DEF HandlerCrashes
<1>4. ASSUME CleanerStep PROVE Shrinks
  BY <1>4 DEF CleanerStep, CleanupRead, CleanupRemove, CleanupCount, CleanupUnregister
<1>5. ASSUME NEW u \in User, Time(u) PROVE Shrinks
  BY <1>5 DEF Time, StatusExpires, HeartbeatAges, TokenExpires, CountLapses
<1>6. CASE UNCHANGED vars
  BY <1>6 DEF vars
<1>7. \A t \in Tab : UserOf[t] \in User
  OBVIOUS
<1>8. QED
  BY <1>1, <1>2, <1>3, <1>4, <1>5, <1>6, <1>7 DEF Next

\* With one tab per user, the valid tokens outside the count are no more than the
\* handlers cut short.
THEOREM UncountedAreCrashedHolds == ASSUME OneTab PROVE Spec => []UncountedAreCrashed
<1>1. Init => UncountedAreCrashed
  <2> SUFFICES ASSUME Init PROVE UncountedAreCrashed
    OBVIOUS
  <2>1. Uncounted = {}
    BY DEF Init, Uncounted
  <2>2. QED
    BY <2>1, FS_EmptySet DEF UncountedAreCrashed, Init
<1>2. ASSUME TypeOK, Learned, UncountedAreCrashed, [Next]_vars PROVE UncountedAreCrashed'
  <2> DEFINE U == Uncounted
             V == Uncounted'
  <2>1. IsFiniteSet(U) /\ Cardinality(U) \in Nat /\ Cardinality(U) <= crashes
    BY <1>2, QueueAssumption, FS_Subset, FS_CardinalityType DEF Uncounted, UncountedAreCrashed
  <2>2. crashes \in Nat
    BY <1>2, QueueAssumption DEF TypeOK
  <2>3. SUFFICES Cardinality(V) <= crashes'
    BY DEF UncountedAreCrashed
  <2>4. CASE V \subseteq U /\ crashes' = crashes
    <3>1. Cardinality(V) <= Cardinality(U)
      BY <2>1, <2>4, FS_Subset
    <3>2. Cardinality(V) \in Nat
      BY <2>1, <2>4, FS_Subset, FS_CardinalityType
    <3> HIDE DEF U, V
    <3>3. QED
      BY <2>1, <2>2, <2>4, <3>1, <3>2
  <2>5. ASSUME NEW u \in User, crashes' = crashes + 1, V \subseteq U \cup {u}
        PROVE  Cardinality(V) <= crashes'
    <3> HIDE DEF U, V
    <3>1. IsFiniteSet(U \cup {u}) /\ Cardinality(U \cup {u}) <= Cardinality(U) + 1
      <4>1. IsFiniteSet(U)
        BY <2>1
      <4>2. /\ IsFiniteSet(U \cup {u})
            /\ Cardinality(U \cup {u}) = IF u \in U THEN Cardinality(U) ELSE Cardinality(U) + 1
        BY <4>1, FS_AddElement
      <4>3. QED
        BY <2>1, <4>2
    <3>2. Cardinality(V) <= Cardinality(U \cup {u})
      BY <2>5, <3>1, FS_Subset
    <3>3. Cardinality(V) \in Nat /\ Cardinality(U \cup {u}) \in Nat
      BY <2>5, <3>1, FS_Subset, FS_CardinalityType
    <3>4. QED
      BY <2>1, <2>2, <2>5, <3>1, <3>2, <3>3
  <2>6. QED
    BY <1>2, <2>4, <2>5, UncountedStep
<1>3. QED
  BY <1>1, <1>2, TypeCorrect, LearnedHolds, PTL DEF Spec
=============================================================================
