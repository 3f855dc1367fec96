-------------------------- MODULE RewardClaimProofs --------------------------
(***************************************************************************)
(* For any users, events, rewards, condition lists and number of handlers: *)
(* the invariant of RewardClaim is inductive, its safety properties        *)
(* follow, and execute implements the abstract ClaimLedger.                *)
(*                                                                         *)
(* The argument rests on growth: an event never changes once it is there,  *)
(* and the counts of a user only grow, so that entitlement is never lost   *)
(* (EntitledStays).  What a handler read is therefore still good enough    *)
(* when it creates the claim, whatever happened in between.                *)
(***************************************************************************)
EXTENDS RewardClaim, SequenceTheorems, FiniteSetTheorems, TLAPS

(* No event changes, and no count of a user falls. *)
Grows ==
  /\ \A e \in EventId : EventExists(e) => events'[e] = events[e]
  /\ \A d \in UserId \X EventId \X ConditionIndex :
       progress[d] # NoDoc =>
         progress'[d] # NoDoc /\ \A m \in Measure : progress'[d][m] >= progress[d][m]

(* The data part of the type invariant, which most steps leave alone. *)
DataTypeOK ==
  /\ CatalogTypeOK
  /\ claims \in Seq(ClaimDoc)
  /\ progress \in [UserId \X EventId \X ConditionIndex -> Counts \cup {NoDoc}]
  /\ today \in Day

HandlerState ==
  FreeSlot \cup CreatingReward \cup FindingEvent \cup FindingProgress \cup CreatingClaim

(* A condition that is met stays met when counts grow (execute, the loop of step 2-2). *)
LEMMA MetStays ==
  ASSUME NEW conditions \in ConditionLists, NEW counts \in Counts, NEW more \in Counts,
         \A m \in Measure : more[m] >= counts[m],
         Met(conditions, counts)
  PROVE  Met(conditions, more)
<1>1. conditions \in Seq(Condition)
  BY CatalogAssumption
<1> SUFFICES ASSUME NEW k \in DOMAIN conditions
             PROVE  ~Stops(conditions[k], more)
  BY DEF Met
<1> DEFINE c == conditions[k]
<1>2. c \in Seq(Requirement) /\ c # <<>> /\ ~IsBelow(counts[c[1].measure], c[1].need)
  BY <1>1 DEF Met, Stops, Condition
<1>3. c[1] \in Requirement
  BY <1>2
<1>4. c[1].measure \in Measure /\ c[1].need \in Nat \cup {NotANumber}
  BY <1>3 DEF Requirement
<1>5. counts[c[1].measure] \in Nat /\ more[c[1].measure] \in Nat
  BY <1>4, ClaimAssumption DEF Counts
<1>6. ~IsBelow(more[c[1].measure], c[1].need)
  BY <1>2, <1>4, <1>5 DEF IsBelow
<1>. QED  BY <1>2, <1>6 DEF Stops

(* An event that is there has the fields of its schema. *)
LEMMA EventTypes ==
  ASSUME CatalogTypeOK, NEW e \in EventId, EventExists(e)
  PROVE  events[e] \in EventDoc /\ events[e].conditions \in ConditionLists
BY DEF CatalogTypeOK, EventExists, EventDoc

(* Entitlement is never lost. *)
LEMMA EntitledStays ==
  ASSUME DataTypeOK, DataTypeOK', Grows, NEW key \in Key, Entitled(key)
  PROVE  Entitled(key)'
<1> DEFINE e == key[2]
           u == key[1]
<1>1. e \in EventId /\ u \in UserId
  BY DEF Key
<1>2. EventExists(e) /\ events[e].status = "active"
  BY DEF Entitled, EventActive
<1>3. events'[e] = events[e] /\ EventExists(e)' /\ EventActive(e)'
  BY <1>1, <1>2 DEF Grows, EventExists, EventActive
<1>4. CASE events[e].approvalType # "auto"
  BY <1>3, <1>4 DEF Entitled
<1>5. CASE events[e].approvalType = "auto"
  <2>1. PICK k \in ConditionIndex : /\ progress[<<u, e, k>>] # NoDoc
                                    /\ Met(events[e].conditions, progress[<<u, e, k>>])
    BY <1>5 DEF Entitled, ProgressDocs
  <2> DEFINE d == <<u, e, k>>
  <2>2. d \in UserId \X EventId \X ConditionIndex
    BY <1>1
  <2>3. progress[d] \in Counts /\ progress'[d] \in Counts
    BY <2>1, <2>2 DEF DataTypeOK, Grows
  <2>4. progress'[d] # NoDoc /\ \A m \in Measure : progress'[d][m] >= progress[d][m]
    BY <2>1, <2>2 DEF Grows
  <2>5. events[e].conditions \in ConditionLists
    BY <1>1, <1>2, EventTypes DEF DataTypeOK
  <2>6. Met(events[e].conditions, progress'[d])
    BY <2>1, <2>3, <2>4, <2>5, MetStays
  <2>7. progress'[d] \in ProgressDocs(u, e)'
    BY <2>4 DEF ProgressDocs
  <2>8. \E counts \in ProgressDocs(u, e)' : Met(events[e].conditions, counts)
    BY <2>6, <2>7
  <2>. QED  BY <1>3, <2>8 DEF Entitled, Met
<1>. QED  BY <1>4, <1>5

-----------------------------------------------------------------------------
(* What a handler has read is still so after any growth. *)
LEMMA ReadStays ==
  ASSUME DataTypeOK, DataTypeOK', Grows, NEW h \in HandlerState, ClaimHandlerInv(h)
  PROVE  ClaimHandlerInv(h)'
<1>1. ASSUME h.pc = "createReward"  PROVE EventExists(h.eventId)'
  <2>1. h.eventId \in EventId /\ EventExists(h.eventId)
    BY <1>1 DEF HandlerState, FreeSlot, CreatingReward, FindingEvent, FindingProgress,
                CreatingClaim, ClaimHandlerInv
  <2>. QED  BY <2>1 DEF Grows, EventExists
<1>2. ASSUME h.pc = "findProgress"
      PROVE  LET e == h.key[2] IN /\ EventActive(e)'
                                  /\ events'[e].approvalType = "auto"
                                  /\ events'[e].conditions = h.conditions
  <2>1. h.key[2] \in EventId
    BY <1>2 DEF HandlerState, FreeSlot, CreatingReward, FindingEvent, FindingProgress,
                CreatingClaim, Key
  <2>. QED  BY <1>2, <2>1 DEF ClaimHandlerInv, EventActive, EventExists, Grows
<1>3. ASSUME h.pc = "createClaim"  PROVE Entitled(h.key)'
  <2>1. h.key \in Key /\ Entitled(h.key)
    BY <1>3 DEF HandlerState, FreeSlot, CreatingReward, FindingEvent, FindingProgress,
                CreatingClaim, ClaimHandlerInv
  <2>. QED  BY <2>1, EntitledStays
<1>. QED  BY <1>1, <1>2, <1>3 DEF ClaimHandlerInv

(* The claim that step 3 of execute stores: of a key without one, that is entitled. *)
Stores(key) ==
  ~IsClaimed(key) /\ Entitled(key) /\ claims' = Append(claims, NewClaim(key))

(* Every stored claim is of a key. *)
LEMMA ClaimKeys ==
  ASSUME claims \in Seq(ClaimDoc)
  PROVE  \A i \in DOMAIN claims : claims[i].key \in Key
<1>1. \A i \in DOMAIN claims : claims[i] \in ClaimDoc
  OBVIOUS
<1>2. \A c \in ClaimDoc : c.key \in Key
  BY DEF ClaimDoc
<1>. QED  BY <1>1, <1>2

(* What one more claim leaves alone. *)
LEMMA AppendClaim ==
  ASSUME claims \in Seq(ClaimDoc), NEW key \in Key, Stores(key)
  PROVE  LET n == Len(claims) + 1 IN
         /\ claims' \in Seq(ClaimDoc)
         /\ n \in Nat /\ n \notin DOMAIN claims
         /\ DOMAIN claims' = DOMAIN claims \cup {n}
         /\ \A i \in DOMAIN claims : claims'[i] = claims[i] /\ claims[i].key \in Key
         /\ claims'[n].key = key
<1>1. NewClaim(key) \in ClaimDoc /\ NewClaim(key).key = key
  BY DEF NewClaim, ClaimDoc, ClaimStatus
<1>. HIDE DEF NewClaim
<1>. QED  BY <1>1, ClaimKeys, AppendProperties DEF Stores

(* A step that lets the data grow, moves handlers to states the invariant allows and
   stores no claim or one that is entitled keeps the invariant. *)
LEMMA GrowthKeeps ==
  ASSUME IInv, DataTypeOK', Grows,
         handler' \in [Request -> HandlerState],
         \A q \in Request : handler'[q] = handler[q] \/ ClaimHandlerInv(handler'[q]),
         \A w \in RewardId : rewards'[w] = rewards[w] \/ EventExists(rewards'[w].eventId),
         claims' = claims \/ \E key \in Key : Stores(key)
  PROVE  IInv'
<1>1. TypeOK' /\ DataTypeOK
  BY DEF IInv, TypeOK, DataTypeOK, HandlerState
<1>2. RewardHasEvent'
  <2> SUFFICES ASSUME NEW w \in RewardId, rewards'[w] # NoDoc
               PROVE  events'[rewards'[w].eventId] # NoDoc
    BY DEF RewardHasEvent, RewardExists, EventExists
  <2>1. rewards'[w].eventId \in EventId
    BY <1>1 DEF DataTypeOK, CatalogTypeOK, RewardDoc
  <2>2. EventExists(rewards'[w].eventId)
    BY DEF IInv, RewardHasEvent, RewardExists
  <2>. QED  BY <2>1, <2>2 DEF Grows, EventExists
<1>3. ASSUME NEW q \in Request  PROVE ClaimHandlerInv(handler[q])'
  <2>1. handler'[q] \in HandlerState /\ ClaimHandlerInv(handler'[q])
    BY DEF IInv
  <2>. QED  BY <1>1, <2>1, ReadStays
         DEF ClaimHandlerInv, Entitled, EventActive, EventExists, ProgressDocs
<1>4. \A key \in Key : Entitled(key) => Entitled(key)'
  BY <1>1, EntitledStays
<1>5. CASE claims' = claims
  <2>1. OneClaimPerKey'
    BY <1>5 DEF IInv, OneClaimPerKey
  <2>2. \A i \in DOMAIN claims : claims[i].key \in Key
    BY <1>1, ClaimKeys DEF DataTypeOK
  <2>3. ASSUME NEW i \in DOMAIN claims, NEW key \in Key, key = claims[i].key
        PROVE  Entitled(key)'
    BY <1>4, <2>3 DEF IInv, ClaimIsEntitled
  <2>4. ClaimIsEntitled'
    BY <1>5, <2>2, <2>3 DEF ClaimIsEntitled, Entitled, EventActive, EventExists, ProgressDocs
  <2>. QED  BY <1>1, <1>2, <1>3, <2>1, <2>4 DEF IInv
<1>6. ASSUME NEW key \in Key, Stores(key)  PROVE IInv'
  <2> DEFINE n == Len(claims) + 1
  <2>1. /\ n \notin DOMAIN claims
        /\ DOMAIN claims' = DOMAIN claims \cup {n}
        /\ \A i \in DOMAIN claims : claims'[i] = claims[i] /\ claims[i].key \in Key
        /\ claims'[n].key = key
    BY <1>1, <1>6, AppendClaim DEF DataTypeOK
  <2>2. \A i \in DOMAIN claims : claims[i].key # key
    BY <1>6 DEF Stores, IsClaimed, ClaimsOf
  <2>3. OneClaimPerKey'
    BY <2>1, <2>2 DEF IInv, OneClaimPerKey
  <2>4. \A i \in DOMAIN claims' : claims'[i].key \in Key /\ Entitled(claims'[i].key)
    BY <1>6, <2>1 DEF Stores, IInv, ClaimIsEntitled
  <2>5. ClaimIsEntitled'
    BY <1>4, <2>4
       DEF ClaimIsEntitled, Entitled, EventActive, EventExists, ProgressDocs
  <2>. QED  BY <1>1, <1>2, <1>3, <2>3, <2>5 DEF IInv
<1>. QED  BY <1>5, <1>6

-----------------------------------------------------------------------------
stored == <<events, rewards, claims, progress>>

(* Counts are numbers. *)
LEMMA CountsAreNumbers ==
  ASSUME TypeOK
  PROVE  \A d \in UserId \X EventId \X ConditionIndex, m \in Measure :
           progress[d] # NoDoc => progress[d][m] \in Nat
BY ClaimAssumption DEF TypeOK, Counts

(* Nothing stored changes: a special case of growth. *)
LEMMA Unchanged ==
  ASSUME IInv, UNCHANGED stored, today' \in Day
  PROVE  DataTypeOK' /\ Grows
<1>1. DataTypeOK'
  BY DEF stored, IInv, TypeOK, DataTypeOK, CatalogTypeOK
<1>. QED  BY <1>1, CountsAreNumbers DEF IInv, stored, Grows

(* One handler goes on. *)
LEMMA HandlerMoves ==
  ASSUME IInv, NEW r \in Request, NEW h \in HandlerState, Continue(r, h), ClaimHandlerInv(h)
  PROVE  /\ handler' \in [Request -> HandlerState]
         /\ \A q \in Request : handler'[q] = handler[q] \/ ClaimHandlerInv(handler'[q])
<1>1. handler \in [Request -> HandlerState]
  BY DEF IInv, TypeOK, HandlerState
<1>. QED  BY <1>1 DEF Continue

(* One handler answers. *)
LEMMA HandlerReplies ==
  ASSUME IInv, NEW r \in Request, NEW status \in Status, Reply(r, status) \/ Written(r, status)
  PROVE  /\ handler' \in [Request -> HandlerState]
         /\ \A q \in Request : handler'[q] = handler[q] \/ ClaimHandlerInv(handler'[q])
<1>1. ASSUME NEW s \in Status
      PROVE  [pc |-> "free", reply |-> s] \in HandlerState
               /\ ClaimHandlerInv([pc |-> "free", reply |-> s])
  BY DEF HandlerState, FreeSlot, ClaimHandlerInv
<1>2. 200 \in Status
  BY DEF Status
<1>. QED  BY <1>1, <1>2, HandlerMoves DEF Reply, Written

(* Steps that store nothing. *)
LEMMA ReadKeeps ==
  ASSUME IInv, NEW r \in Request, NEW h \in HandlerState, Continue(r, h), ClaimHandlerInv(h),
         UNCHANGED stored, UNCHANGED today
  PROVE  IInv'
<1>1. DataTypeOK' /\ Grows
  BY Unchanged DEF IInv, TypeOK
<1>. QED  BY <1>1, HandlerMoves, GrowthKeeps DEF stored

(* The end of a handler, whatever its answer. *)
LEMMA ReplyKeeps ==
  ASSUME IInv, NEW r \in Request, NEW status \in Status, Reply(r, status),
         UNCHANGED stored, UNCHANGED today
  PROVE  IInv'
<1>1. DataTypeOK' /\ Grows
  BY Unchanged DEF IInv, TypeOK
<1>. QED  BY <1>1, HandlerReplies, GrowthKeeps DEF stored

(* The operations of EventService and RewardService keep the invariant. *)
LEMMA CatalogStepKeeps ==
  ASSUME IInv, NEW r \in Request, CatalogStep(r), UNCHANGED <<claims, progress, today>>
  PROVE  IInv'
<1>t. TypeOK /\ today \in Day
  BY DEF IInv, TypeOK
<1>1. CASE CreateEvent(r)
  <2>1. PICK e \in EventId, doc \in EventDoc :
          ~EventExists(e) /\ events' = [events EXCEPT ![e] = doc]
    BY <1>1 DEF CreateEvent
  <2>2. Written(r, 400) /\ 400 \in Status /\ UNCHANGED rewards
    BY <1>1 DEF CreateEvent, Status
  <2>3. DataTypeOK'
    BY <1>t, <2>1, <2>2 DEF TypeOK, DataTypeOK, CatalogTypeOK
  <2>4. Grows
    BY <1>t, <2>1, CountsAreNumbers DEF CreateEvent, Grows, TypeOK, CatalogTypeOK, EventExists
  <2>. QED  BY <2>2, <2>3, <2>4, HandlerReplies, GrowthKeeps
<1>2. CASE CreateEventRefused(r)
  BY <1>2, ReplyKeeps DEF CreateEventRefused, catalog, stored, Status
<1>3. CASE RewardFindEvent(r)
  <2>1. PICK e \in EventId :
          EventExists(e) /\ Continue(r, [pc |-> "createReward", eventId |-> e])
    BY <1>3 DEF RewardFindEvent
  <2> DEFINE h == [pc |-> "createReward", eventId |-> e]
  <2>2. h \in HandlerState /\ ClaimHandlerInv(h)
    BY <2>1 DEF HandlerState, CreatingReward, ClaimHandlerInv
  <2>. QED  BY <1>3, <2>1, <2>2, ReadKeeps DEF RewardFindEvent, catalog, stored
<1>4. CASE RewardEventUnknown(r)
  BY <1>4, ReplyKeeps DEF RewardEventUnknown, catalog, stored, Status
<1>5. CASE RewardSave(r)
  <2> DEFINE e == handler[r].eventId
  <2>1. e \in EventId /\ EventExists(e)
    BY <1>5 DEF RewardSave, IInv, TypeOK, ClaimHandlerInv,
                FreeSlot, CreatingReward, FindingEvent, FindingProgress, CreatingClaim
  <2>2. PICK w \in RewardId : rewards' = [rewards EXCEPT ![w] = [eventId |-> e]]
    BY <1>5 DEF RewardSave
  <2>3. Written(r, 400) /\ 400 \in Status /\ UNCHANGED events
    BY <1>5 DEF RewardSave, Status
  <2>4. [eventId |-> e] \in RewardDoc
    BY <2>1 DEF RewardDoc
  <2>5. DataTypeOK'
    BY <1>t, <2>2, <2>3, <2>4 DEF TypeOK, DataTypeOK, CatalogTypeOK
  <2>6. Grows
    BY <1>t, <2>3, CountsAreNumbers DEF Grows
  <2>7. \A v \in RewardId : rewards'[v] = rewards[v] \/ EventExists(rewards'[v].eventId)
    BY <1>t, <2>1, <2>2 DEF TypeOK, CatalogTypeOK
  <2>. QED  BY <2>3, <2>5, <2>6, <2>7, HandlerReplies, GrowthKeeps
<1>6. CASE RewardSaveRefused(r)
  BY <1>6, ReplyKeeps DEF RewardSaveRefused, catalog, stored, Status
<1>. QED  BY <1>1, <1>2, <1>3, <1>4, <1>5, <1>6 DEF CatalogStep

(* Creating the claim. *)
LEMMA CreateKeeps ==
  ASSUME IInv, NEW r \in Request, ClaimCreate(r)
  PROVE  IInv'
<1> DEFINE key == handler[r].key
<1>1. key \in Key /\ Entitled(key)
  BY DEF ClaimCreate, IInv, TypeOK, ClaimHandlerInv,
         FreeSlot, CreatingReward, FindingEvent, FindingProgress, CreatingClaim
<1>2. CASE IsClaimed(key) /\ UNCHANGED claims
  BY <1>2, ReplyKeeps DEF ClaimCreate, stored, Status
<1>3. CASE ~IsClaimed(key) /\ claims' = Append(claims, NewClaim(key))
  <2>1. Stores(key)
    BY <1>1, <1>3 DEF Stores
  <2>2. claims' \in Seq(ClaimDoc)
    BY <1>1, <2>1, AppendClaim DEF IInv, TypeOK
  <2>3. UNCHANGED <<events, rewards, progress, today>>
    BY DEF ClaimCreate
  <2>4. DataTypeOK'
    BY <2>2, <2>3 DEF IInv, TypeOK, DataTypeOK, CatalogTypeOK
  <2>5. Grows
    BY <2>3, CountsAreNumbers DEF IInv, Grows
  <2>6. Written(r, 400)
    BY <1>3 DEF ClaimCreate
  <2>. QED  BY <1>1, <2>1, <2>3, <2>4, <2>5, <2>6, HandlerReplies, GrowthKeeps DEF Status
<1>. QED  BY <1>2, <1>3 DEF ClaimCreate

(* execute, each of its round trips. *)
LEMMA ClaimStepKeeps ==
  ASSUME IInv, NEW r \in Request, ClaimStep(r)
  PROVE  IInv'
<1>1. CASE ClaimBegin(r)
  <2>1. PICK key \in Key : Continue(r, [pc |-> "findEvent", key |-> key])
    BY <1>1 DEF ClaimBegin
  <2> DEFINE h == [pc |-> "findEvent", key |-> key]
  <2>2. h \in HandlerState /\ ClaimHandlerInv(h)
    BY DEF HandlerState, FindingEvent, ClaimHandlerInv
  <2>. QED  BY <1>1, <2>1, <2>2, ReadKeeps DEF ClaimBegin, stored
<1>2. CASE ClaimConflict(r)
  BY <1>2, ReplyKeeps DEF ClaimConflict, stored, Status
<1>3. CASE ClaimFindEvent(r)
  <2> DEFINE key == handler[r].key
             e   == key[2]
             auto   == [pc |-> "findProgress", key |-> key, conditions |-> events[e].conditions]
             manual == [pc |-> "createClaim", key |-> key]
  <2>1. key \in Key
    BY <1>3 DEF ClaimFindEvent, IInv, TypeOK,
                FreeSlot, CreatingReward, FindingEvent, FindingProgress, CreatingClaim
  <2>2. UNCHANGED stored /\ UNCHANGED today
    BY <1>3 DEF ClaimFindEvent, stored
  <2>3. CASE EventActive(e) /\ events[e].approvalType = "auto" /\ Continue(r, auto)
    <3>1. e \in EventId
      BY <2>1 DEF Key
    <3>2. events[e].conditions \in ConditionLists
      BY <2>3, <3>1, EventTypes DEF EventActive, IInv, TypeOK
    <3>3. auto \in HandlerState /\ ClaimHandlerInv(auto)
      BY <2>1, <2>3, <3>2 DEF HandlerState, FindingProgress, ClaimHandlerInv
    <3>. QED  BY <2>2, <2>3, <3>3, ReadKeeps
  <2>4. CASE EventActive(e) /\ events[e].approvalType = "manual" /\ Continue(r, manual)
    <3>1. Entitled(key)
      BY <2>4 DEF Entitled
    <3>2. manual \in HandlerState /\ ClaimHandlerInv(manual)
      BY <2>1, <3>1 DEF HandlerState, CreatingClaim, ClaimHandlerInv
    <3>. QED  BY <2>2, <2>4, <3>2, ReadKeeps
  <2>5. CASE Reply(r, 400)
    BY <2>2, <2>5, ReplyKeeps DEF Status
  <2>. QED  BY <1>3, <2>3, <2>4, <2>5 DEF ClaimFindEvent
<1>4. CASE ClaimFindProgress(r)
  <2> DEFINE h    == handler[r]
             next == [pc |-> "createClaim", key |-> h.key]
  <2>1. h \in FindingProgress /\ ClaimHandlerInv(h) /\ h.pc = "findProgress"
    BY <1>4 DEF ClaimFindProgress, IInv, TypeOK,
                FreeSlot, CreatingReward, FindingEvent, FindingProgress, CreatingClaim
  <2>2. UNCHANGED stored /\ UNCHANGED today
    BY <1>4 DEF ClaimFindProgress, stored
  <2>3. ASSUME NEW counts \in ProgressDocs(h.key[1], h.key[2]),
               Met(h.conditions, counts), Continue(r, next)
        PROVE  IInv'
    <3>1. Entitled(h.key)
      BY <2>1, <2>3 DEF ClaimHandlerInv, Entitled
    <3>2. next \in HandlerState /\ ClaimHandlerInv(next)
      BY <2>1, <3>1 DEF HandlerState, FindingProgress, CreatingClaim, ClaimHandlerInv
    <3>. QED  BY <2>2, <2>3, <3>2, ReadKeeps
  <2>4. CASE \E status \in {400, 500} : Reply(r, status)
    BY <2>2, <2>4, ReplyKeeps DEF Status
  <2>5. \A counts : RefusalStatus(h.conditions, counts) \in {400, 500}
    BY DEF RefusalStatus
  <2>. QED  BY <1>4, <2>3, <2>4, <2>5 DEF ClaimFindProgress
<1>5. CASE ClaimCreate(r)
  BY <1>5, CreateKeeps
<1>6. CASE AwaitRejected(r)
  BY <1>6, ReplyKeeps DEF AwaitRejected, stored, Status
<1>. QED  BY <1>1, <1>2, <1>3, <1>4, <1>5, <1>6 DEF ClaimStep

(* Users progress: the only step of the environment that entitlement depends on. *)
LEMMA AdvanceKeeps ==
  ASSUME IInv, Advance
  PROVE  IInv'
<1>t. TypeOK
  BY DEF IInv
<1>1. PICK d \in DOMAIN progress, counts \in Counts :
        /\ progress[d] # NoDoc => \A m \in Measure : counts[m] >= progress[d][m]
        /\ progress' = [progress EXCEPT ![d] = counts]
  BY DEF Advance
<1>2. UNCHANGED <<handler, events, rewards, claims, today>>
  BY DEF Advance
<1>3. counts # NoDoc
  BY ClaimAssumption
<1>4. DataTypeOK'
  BY <1>t, <1>1, <1>2 DEF TypeOK, DataTypeOK, CatalogTypeOK
<1>5. \A c \in DOMAIN progress : progress'[c] = IF c = d THEN counts ELSE progress[c]
  BY <1>t, <1>1 DEF TypeOK
<1>6. DOMAIN progress = UserId \X EventId \X ConditionIndex
  BY <1>t DEF TypeOK
<1>7. Grows
  BY <1>t, <1>1, <1>2, <1>3, <1>5, <1>6, CountsAreNumbers DEF Grows
<1>8. handler' \in [Request -> HandlerState]
  BY <1>t, <1>2 DEF TypeOK, HandlerState
<1>. QED  BY <1>2, <1>4, <1>7, <1>8, GrowthKeeps

(* A restart only frees slots; a day changes nothing that is stored. *)
LEMMA RestartKeeps ==
  ASSUME IInv, \/ Restart /\ UNCHANGED <<stored, today>>
               \/ NextDay
  PROVE  IInv'
<1>1. today' \in Day /\ UNCHANGED stored
  BY CatalogAssumption DEF NextDay, stored, Day, IInv, TypeOK
<1>2. handler \in [Request -> HandlerState]
  BY DEF IInv, TypeOK, HandlerState
<1>3. /\ handler' \in [Request -> HandlerState]
      /\ \A q \in Request : handler'[q] = handler[q] \/ handler'[q] = [pc |-> "free", reply |-> 0]
  BY <1>2 DEF Restart, NextDay, HandlerState, FreeSlot, Status
<1>4. ClaimHandlerInv([pc |-> "free", reply |-> 0])
  BY DEF ClaimHandlerInv
<1>5. \A q \in Request : handler'[q] = handler[q] \/ ClaimHandlerInv(handler'[q])
  BY <1>3, <1>4
<1>. QED  BY <1>1, <1>3, <1>5, Unchanged, GrowthKeeps DEF stored

-----------------------------------------------------------------------------
(* The invariant holds of the empty collections. *)
LEMMA InitInv == Init => IInv
<1> SUFFICES ASSUME Init PROVE IInv
  OBVIOUS
<1>1. TypeOK
  BY CatalogAssumption DEF Init, TypeOK, CatalogInit, CatalogTypeOK, InitHandlers, FreeSlot,
                           Status, Day
<1>2. RewardHasEvent /\ OneClaimPerKey /\ ClaimIsEntitled
  BY DEF Init, CatalogInit, RewardHasEvent, RewardExists, OneClaimPerKey, ClaimIsEntitled
<1>3. \A r \in Request : ClaimHandlerInv(handler[r])
  BY DEF Init, InitHandlers, ClaimHandlerInv
<1>. QED  BY <1>1, <1>2, <1>3 DEF IInv

(* The invariant is inductive. *)
LEMMA NextInv == IInv /\ [Next]_vars => IInv'
<1> SUFFICES ASSUME IInv, [Next]_vars PROVE IInv'
  OBVIOUS
<1>1. CASE UNCHANGED vars
  <2>1. DataTypeOK' /\ Grows
    BY <1>1, Unchanged DEF vars, stored, IInv, TypeOK
  <2>2. handler' = handler /\ handler \in [Request -> HandlerState]
    BY <1>1 DEF vars, IInv, TypeOK, HandlerState
  <2>. QED  BY <1>1, <2>1, <2>2, GrowthKeeps DEF vars
<1>2. ASSUME NEW r \in Request, CatalogStep(r), UNCHANGED <<claims, progress, today>>
      PROVE  IInv'
  BY <1>2, CatalogStepKeeps
<1>3. ASSUME NEW r \in Request, ClaimStep(r)  PROVE IInv'
  BY <1>3, ClaimStepKeeps
<1>4. CASE Restart /\ UNCHANGED <<events, rewards, claims, progress, today>>
  BY <1>4, RestartKeeps DEF stored
<1>5. CASE Advance
  BY <1>5, AdvanceKeeps
<1>6. CASE NextDay
  BY <1>6, RestartKeeps
<1>. QED  BY <1>1, <1>2, <1>3, <1>4, <1>5, <1>6 DEF Next

(* The invariant of execute and of the collections holds in every state, whatever claims,
   creations of events and rewards, progress and restarts coincide. *)
THEOREM Invariance == Spec => []IInv
BY InitInv, NextInv, PTL DEF Spec

(* Every document and every handler is of its type. *)
THEOREM TypeCorrect == Spec => []TypeOK
<1>1. IInv => TypeOK
  BY DEF IInv
<1>. QED  BY <1>1, Invariance, PTL

(* A user holds at most one claim of a reward of an event (execute, steps 1 and 3). *)
THEOREM ClaimsAreUnique == Spec => []OneClaimPerKey
<1>1. IInv => OneClaimPerKey
  BY DEF IInv
<1>. QED  BY <1>1, Invariance, PTL

(* Every stored claim is entitled: its event is active and, if automatic, its user met the
   conditions (execute, step 2). *)
THEOREM ClaimsAreEntitled == Spec => []ClaimIsEntitled
<1>1. IInv => ClaimIsEntitled
  BY DEF IInv
<1>. QED  BY <1>1, Invariance, PTL

(* Every stored reward belongs to a stored event (RewardService.create). *)
THEOREM RewardsHaveEvents == Spec => []RewardHasEvent
<1>1. IInv => RewardHasEvent
  BY DEF IInv
<1>. QED  BY <1>1, Invariance, PTL

-----------------------------------------------------------------------------
(* What a step may do to claims: nothing, while events and counts grow, or store one of an
   entitled key that has none, while nothing else that is stored changes. *)
LEMMA StepShape ==
  ASSUME IInv, [Next]_vars
  PROVE  \/ claims' = claims /\ Grows
         \/ \E key \in Key : Stores(key) /\ UNCHANGED <<events, progress>>
<1>t. TypeOK /\ (UNCHANGED <<events, progress>> => Grows)
  BY CountsAreNumbers DEF IInv, Grows
<1>1. CASE UNCHANGED vars
  BY <1>1, <1>t DEF vars
<1>2. ASSUME NEW r \in Request, CatalogStep(r), UNCHANGED <<claims, progress, today>>
      PROVE  claims' = claims /\ Grows
  <2>1. UNCHANGED events \/ CreateEvent(r)
    BY <1>2 DEF CatalogStep, CreateEventRefused, RewardFindEvent, RewardEventUnknown,
                RewardSave, RewardSaveRefused, catalog
  <2>2. ASSUME CreateEvent(r)  PROVE Grows
    <3>1. PICK e \in EventId, doc \in EventDoc :
            ~EventExists(e) /\ events' = [events EXCEPT ![e] = doc]
      BY <2>2 DEF CreateEvent
    <3>. QED  BY <1>2, <1>t, <3>1, CountsAreNumbers
              DEF Grows, TypeOK, CatalogTypeOK, EventExists
  <2>. QED  BY <1>2, <1>t, <2>1, <2>2
<1>3. ASSUME NEW r \in Request, ClaimStep(r)
      PROVE  \/ claims' = claims /\ Grows
             \/ \E key \in Key : Stores(key) /\ UNCHANGED <<events, progress>>
  <2>1. UNCHANGED <<events, progress>>
    BY <1>3 DEF ClaimStep, ClaimBegin, ClaimConflict, ClaimFindEvent, ClaimFindProgress,
                ClaimCreate, AwaitRejected
  <2>2. CASE ClaimCreate(r)
    <3>1. handler[r].key \in Key /\ Entitled(handler[r].key)
      BY <2>2 DEF ClaimCreate, IInv, TypeOK, ClaimHandlerInv,
                  FreeSlot, CreatingReward, FindingEvent, FindingProgress, CreatingClaim
    <3>2. claims' = claims \/ Stores(handler[r].key)
      BY <2>2, <3>1 DEF ClaimCreate, Stores
    <3>. QED  BY <1>t, <2>1, <3>1, <3>2
  <2>3. CASE ~(ClaimCreate(r))
    <3>1. UNCHANGED claims
      BY <1>3, <2>3 DEF ClaimStep, ClaimBegin, ClaimConflict, ClaimFindEvent,
                        ClaimFindProgress, AwaitRejected
    <3>. QED  BY <1>t, <2>1, <3>1
  <2>. QED  BY <2>2, <2>3
<1>4. CASE Restart /\ UNCHANGED <<events, rewards, claims, progress, today>>
  BY <1>4, <1>t
<1>5. ASSUME Advance  PROVE claims' = claims /\ Grows
  <2>1. PICK d \in DOMAIN progress, counts \in Counts :
          /\ progress[d] # NoDoc => \A m \in Measure : counts[m] >= progress[d][m]
          /\ progress' = [progress EXCEPT ![d] = counts]
    BY <1>5 DEF Advance
  <2>2. counts # NoDoc
    BY ClaimAssumption
  <2>3. \A c \in DOMAIN progress : progress'[c] = IF c = d THEN counts ELSE progress[c]
    BY <1>t, <2>1 DEF TypeOK
  <2>4. DOMAIN progress = UserId \X EventId \X ConditionIndex
    BY <1>t DEF TypeOK
  <2>. QED  BY <1>5, <1>t, <2>1, <2>2, <2>3, <2>4, CountsAreNumbers DEF Advance, Grows
<1>6. CASE NextDay
  BY <1>6, <1>t DEF NextDay
<1>. QED  BY <1>1, <1>2, <1>3, <1>4, <1>5, <1>6 DEF Next

-----------------------------------------------------------------------------
EntitledKeys == {key \in Key : Entitled(key)}
Granted      == [key \in Key |-> Cardinality(ClaimsOf(key))]

(* A step that stores no claim is one of the ledger's Entitle, perhaps of no key. *)
LEMMA GrowthRefines ==
  ASSUME IInv, IInv', Grows, claims' = claims
  PROVE  Ledger!Entitle
<1>1. DataTypeOK /\ DataTypeOK'
  BY DEF IInv, TypeOK, DataTypeOK
<1>2. \A key \in Key : Entitled(key) => Entitled(key)'
  BY <1>1, EntitledStays
<1>3. \A key \in EntitledKeys : key \in EntitledKeys'
  BY <1>2 DEF EntitledKeys, Entitled, EventActive, EventExists, ProgressDocs
<1>4. EntitledKeys \subseteq EntitledKeys' /\ EntitledKeys' \subseteq Key
  BY <1>3 DEF EntitledKeys
<1> DEFINE new == EntitledKeys' \ EntitledKeys
<1>5. new \in SUBSET (Key \ EntitledKeys) /\ EntitledKeys' = EntitledKeys \cup new
  BY <1>4
<1>6. Granted' = Granted
  BY DEF Granted, ClaimsOf
<1>. HIDE DEF new
<1>7. \E s \in SUBSET (Key \ EntitledKeys) : EntitledKeys' = EntitledKeys \cup s
  BY <1>5
<1>. QED  BY <1>6, <1>7 DEF Ledger!Entitle, EntitledKeys, Granted

(* A stored claim is one grant of its key. *)
LEMMA StoreRefines ==
  ASSUME IInv, NEW key \in Key, Stores(key), UNCHANGED <<events, progress>>
  PROVE  Ledger!Grant(key)
<1> DEFINE n == Len(claims) + 1
<1>1. /\ n \notin DOMAIN claims
      /\ DOMAIN claims' = DOMAIN claims \cup {n}
      /\ \A i \in DOMAIN claims : claims'[i] = claims[i] /\ claims[i].key \in Key
      /\ claims'[n].key = key
  BY AppendClaim DEF IInv, TypeOK
<1>. HIDE DEF n
<1>2. ClaimsOf(key) = {}
  BY DEF Stores, IsClaimed
<1>3. ClaimsOf(key)' = {n}
  BY <1>1, <1>2 DEF ClaimsOf
<1>4. \A other \in Key : other # key => ClaimsOf(other)' = ClaimsOf(other)
  BY <1>1 DEF ClaimsOf
<1>5. Cardinality(ClaimsOf(key)) = 0 /\ Cardinality(ClaimsOf(key)') = 1
  BY <1>2, <1>3, FS_EmptySet, FS_Singleton
<1>6. Granted[key] = 0 /\ Granted' = [Granted EXCEPT ![key] = 1]
  BY <1>4, <1>5 DEF Granted
<1>7. key \in EntitledKeys /\ EntitledKeys' = EntitledKeys
  BY DEF EntitledKeys, Stores, Entitled, EventActive, EventExists, ProgressDocs
<1>. QED  BY <1>6, <1>7 DEF Ledger!Grant, EntitledKeys, Granted

(* The four round trips of execute, in any interleaving, implement the abstract ledger:
   every step grants one key that is entitled and was not granted before, or grants
   nothing while keys become entitled. *)
THEOREM ClaimsImplementLedger == Spec => ImplementsClaimLedger
<1>1. Init => Ledger!Init
  <2> SUFFICES ASSUME Init PROVE Ledger!Init
    OBVIOUS
  <2>1. EntitledKeys = {}
    BY DEF Init, CatalogInit, EntitledKeys, Entitled, EventActive, EventExists, Key
  <2>2. \A key \in Key : ClaimsOf(key) = {}
    BY DEF Init, ClaimsOf
  <2>3. Granted = [key \in Key |-> 0]
    BY <2>2, FS_EmptySet DEF Granted
  <2>. QED  BY <2>1, <2>3 DEF Ledger!Init, EntitledKeys, Granted
<1>2. IInv /\ IInv' /\ [Next]_vars => Ledger!Next
  BY StepShape, GrowthRefines, StoreRefines DEF Ledger!Next
<1>. QED  BY <1>1, <1>2, Invariance, PTL DEF Spec, ImplementsClaimLedger, Ledger!Spec
=============================================================================
