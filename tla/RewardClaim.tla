----------------------------- MODULE RewardClaim -----------------------------
(***************************************************************************)
(* event-server: CreateRewardClaimHandler over the collections             *)
(* `reward_claims` and `user_event_progresses`, beside the catalog.  A     *)
(* claim is four round trips: look for an earlier claim, read the event,   *)
(* for an automatic event read the progress, create the claim.  Other      *)
(* claims and the progress of users go on in between.                      *)
(***************************************************************************)
EXTENDS EventCatalog, FiniteSets

CONSTANTS UserId,
          ConditionIndex,  \* values of eventConditionIndex that occur
          MaxProgress      \* bound: counts are 0..MaxProgress

VARIABLES claims,     \* the collection reward_claims, in insertion order; never deleted from
          progress,   \* progress[u, e, k]: the document of that index key, or NoDoc
          today

vars == <<handler, events, rewards, claims, progress, today>>

Key         == UserId \X EventId \X RewardId
ClaimStatus == {"PENDING_APPROVAL", "AUTO_APPROVED", "REJECTED", "SUCCESS", "ERROR"}
ClaimDoc    == [key : Key, status : ClaimStatus]

(* The field `progress` of a document; a missing type or key counts 0. *)
Counts == [Measure -> 0..MaxProgress]

ASSUME ClaimAssumption == MaxProgress \in Nat /\ NoDoc \notin Counts

(* execute between two awaits.  `conditions` is the copy of the event that was read. *)
FindingEvent    == [pc : {"findEvent"}, key : Key]
FindingProgress == [pc : {"findProgress"}, key : Key, conditions : ConditionLists]
CreatingClaim   == [pc : {"createClaim"}, key : Key]

TypeOK ==
  /\ CatalogTypeOK
  /\ handler \in [Request -> FreeSlot \cup CreatingReward \cup FindingEvent
                                      \cup FindingProgress \cup CreatingClaim]
  /\ claims \in Seq(ClaimDoc)
  /\ progress \in [UserId \X EventId \X ConditionIndex -> Counts \cup {NoDoc}]
  /\ today \in Day

Init ==
  /\ InitHandlers
  /\ CatalogInit
  /\ claims = <<>>
  /\ progress = [d \in UserId \X EventId \X ConditionIndex |-> NoDoc]
  /\ today = 0

-----------------------------------------------------------------------------
ClaimsOf(key)  == {i \in DOMAIN claims : claims[i].key = key}
IsClaimed(key) == ClaimsOf(key) # {}

(* Step 1, findByUserAndReward. *)
ClaimBegin(r) ==
  /\ IsFree(r)
  /\ \E key \in Key :
       /\ ~IsClaimed(key)
       /\ Continue(r, [pc |-> "findEvent", key |-> key])
  /\ UNCHANGED <<events, rewards, claims, progress, today>>

ClaimConflict(r) ==
  /\ IsFree(r)
  /\ \E key \in Key : IsClaimed(key)
  /\ Reply(r, 409)
  /\ UNCHANGED <<events, rewards, claims, progress, today>>

(* Step 2-1, eventService.findOne: an unknown event is a 400 as well. *)
EventActive(e) == EventExists(e) /\ events[e].status = "active"

(* Mutant: the status of the event is not looked at. *)
ClaimFindAnyEvent(r) ==
  LET key == handler[r].key
      e   == key[2] IN
  /\ handler[r].pc = "findEvent"
  /\ \/ /\ EventExists(e)
        /\ events[e].approvalType = "auto"
        /\ Continue(r, [pc |-> "findProgress", key |-> key, conditions |-> events[e].conditions])
     \/ /\ EventExists(e)
        /\ events[e].approvalType = "manual"
        /\ Continue(r, [pc |-> "createClaim", key |-> key])
     \/ /\ ~EventExists(e)
        /\ Reply(r, 400)
  /\ UNCHANGED <<events, rewards, claims, progress, today>>

ClaimFindEvent(r) ==
  LET key == handler[r].key
      e   == key[2] IN
  /\ handler[r].pc = "findEvent"
  /\ \/ /\ EventActive(e)
        /\ events[e].approvalType = "auto"
        /\ Continue(r, [pc |-> "findProgress", key |-> key, conditions |-> events[e].conditions])
     \/ /\ EventActive(e)
        /\ events[e].approvalType = "manual"
        /\ Continue(r, [pc |-> "createClaim", key |-> key])
     \/ /\ ~EventActive(e)
        /\ Reply(r, 400)
  /\ UNCHANGED <<events, rewards, claims, progress, today>>

-----------------------------------------------------------------------------
(* Every comparison with NaN is false: such a condition counts as met. *)
IsBelow(count, need) == need # NotANumber /\ count < need

(* The loop over the conditions: of each only the first entry of params is compared, and
   params without an entry makes the destructuring throw. *)
Stops(condition, counts) ==
  condition = <<>> \/ IsBelow(counts[condition[1].measure], condition[1].need)

Met(conditions, counts) == \A k \in DOMAIN conditions : ~Stops(conditions[k], counts)

(* The answer of the first condition that stops the loop: a TypeError is a 500. *)
RefusalStatus(conditions, counts) ==
  LET stopping == {k \in DOMAIN conditions : Stops(conditions[k], counts)}
      first    == CHOOSE k \in stopping : \A j \in stopping : k <= j IN
  IF conditions[first] = <<>> THEN 500 ELSE 400

(* findOne({userId, eventId}): any one of the user's documents for the event, whatever
   its eventConditionIndex. *)
ProgressDocs(u, e) == {progress[<<u, e, k>>] : k \in ConditionIndex} \ {NoDoc}

(* Mutant: the loop ends at the first condition that is met. *)
ClaimFindProgressSome(r) ==
  LET h    == handler[r]
      docs == ProgressDocs(h.key[1], h.key[2]) IN
  /\ h.pc = "findProgress"
  /\ IF \E counts \in docs, k \in DOMAIN h.conditions : ~Stops(h.conditions[k], counts)
       THEN Continue(r, [pc |-> "createClaim", key |-> h.key])
       ELSE Reply(r, 400)
  /\ UNCHANGED <<events, rewards, claims, progress, today>>

(* Step 2-2, of an automatic event. *)
ClaimFindProgress(r) ==
  LET h    == handler[r]
      docs == ProgressDocs(h.key[1], h.key[2]) IN
  /\ h.pc = "findProgress"
  /\ \/ docs = {} /\ Reply(r, 400)
     \/ \E counts \in docs :
          \/ /\ Met(h.conditions, counts)
             /\ Continue(r, [pc |-> "createClaim", key |-> h.key])
          \/ /\ ~Met(h.conditions, counts)
             /\ Reply(r, RefusalStatus(h.conditions, counts))
  /\ UNCHANGED <<events, rewards, claims, progress, today>>

-----------------------------------------------------------------------------
(* Mutant: the schema has no default. *)
NewClaimNoStatus(key) == [key |-> key, status |-> "undefined"]

(* Step 3.  The unique index on (userId, eventId, rewardId) refuses a second claim; the
   handler passes no status, so the default of the schema is stored. *)
NewClaim(key) == [key |-> key, status |-> "PENDING_APPROVAL"]

(* Mutant: no unique index. *)
ClaimCreateUnindexed(r) ==
  /\ handler[r].pc = "createClaim"
  /\ claims' = Append(claims, NewClaim(handler[r].key))
  /\ Written(r, 400)
  /\ UNCHANGED <<events, rewards, progress, today>>

(* Mutant: a refused insert is tried again. *)
ClaimCreateRetrying(r) ==
  LET key == handler[r].key IN
  /\ handler[r].pc = "createClaim"
  /\ \/ /\ ~IsClaimed(key)
        /\ claims' = Append(claims, NewClaim(key))
        /\ Written(r, 400)
     \/ /\ IsClaimed(key)
        /\ UNCHANGED <<claims, handler>>
  /\ UNCHANGED <<events, rewards, progress, today>>

ClaimCreate(r) ==
  LET key == handler[r].key IN
  /\ handler[r].pc = "createClaim"
  /\ \/ /\ ~IsClaimed(key)
        /\ claims' = Append(claims, NewClaim(key))
        /\ Written(r, 400)
     \/ /\ IsClaimed(key)
        /\ Reply(r, 400)
        /\ UNCHANGED claims
  /\ UNCHANGED <<events, rewards, progress, today>>

(* An await of the claim or of the catalog rejects with nothing done, the first one of a
   request included.  Only the read of the progress stands outside every try and every
   service that turns errors into a 400. *)
AwaitRejected(r) ==
  /\ Reply(r, IF handler[r].pc = "findProgress" THEN 500 ELSE 400)
  /\ UNCHANGED <<events, rewards, claims, progress, today>>

-----------------------------------------------------------------------------
(* No code in this repository writes progress.  The types of conditions are counts of what
   a user has done (LOGIN_DAYS, INVITE_FRIEND): documents appear, and counts grow. *)
Advance ==
  /\ \E d \in DOMAIN progress, counts \in Counts :
       /\ progress[d] # counts
       /\ progress[d] # NoDoc => \A m \in Measure : counts[m] >= progress[d][m]
       /\ EventExists(d[2])
       /\ progress' = [progress EXCEPT ![d] = counts]
  /\ UNCHANGED <<handler, events, rewards, claims, today>>

NextDay ==
  /\ today < MaxDay
  /\ today' = today + 1
  /\ UNCHANGED <<handler, events, rewards, claims, progress>>

ClaimStep(r) ==
  \/ ClaimBegin(r) \/ ClaimConflict(r) \/ ClaimFindEvent(r) \/ ClaimFindProgress(r)
  \/ ClaimCreate(r) \/ AwaitRejected(r)

Next ==
  \/ \E r \in Request : CatalogStep(r) /\ UNCHANGED <<claims, progress, today>>
  \/ \E r \in Request : ClaimStep(r)
  \/ Restart /\ UNCHANGED <<events, rewards, claims, progress, today>>
  \/ Advance
  \/ NextDay

Spec == Init /\ [][Next]_vars

(* Every await of a handler resolves or rejects; clients, users, the calendar and crashes
   are not fair. *)
Resume(r) ==
  \/ (RewardSave(r) \/ RewardSaveRefused(r)) /\ UNCHANGED <<claims, progress, today>>
  \/ ClaimFindEvent(r) \/ ClaimFindProgress(r) \/ ClaimCreate(r)

FairSpec == Spec /\ \A r \in Request : WF_vars(Resume(r))

-----------------------------------------------------------------------------
(* A user holds at most one claim of a reward of an event, although two requests may both
   pass the look for an earlier claim (create-reward-claim.handler.ts:29 and :92). *)
OneClaimPerKey ==
  \A i, j \in DOMAIN claims : claims[i].key = claims[j].key => i = j

(* What step 2 of execute asks of a claim. *)
Entitled(key) ==
  /\ EventActive(key[2])
  /\ events[key[2]].approvalType = "auto" =>
       \E counts \in ProgressDocs(key[1], key[2]) : Met(events[key[2]].conditions, counts)

(* No claim is stored without its event being active and, for an automatic event, its
   user having met the conditions, however long ago the handler looked at them. *)
ClaimIsEntitled == \A i \in DOMAIN claims : Entitled(claims[i].key)

(* What a handler has read is still so: the event a reward is about to be saved for
   exists, a claim that goes on to the progress holds the conditions of an active
   automatic event, and one that is about to be created is entitled. *)
ClaimHandlerInv(h) ==
  /\ h.pc = "createReward" => EventExists(h.eventId)
  /\ h.pc = "findProgress" =>
       LET e == h.key[2] IN
       EventActive(e) /\ events[e].approvalType = "auto" /\ events[e].conditions = h.conditions
  /\ h.pc = "createClaim" => Entitled(h.key)

(* The inductive invariant: with ClaimHandlerInv, what a handler read before an await may
   be relied upon after it, which is why the safety properties survive the interleaving. *)
IInv == TypeOK /\ RewardHasEvent /\ OneClaimPerKey /\ ClaimIsEntitled
          /\ \A r \in Request : ClaimHandlerInv(handler[r])

(* The four round trips of execute implement one atomic grant. *)
Ledger == INSTANCE ClaimLedger WITH
  entitled <- {key \in Key : Entitled(key)},
  granted  <- [key \in Key |-> Cardinality(ClaimsOf(key))]

ImplementsClaimLedger == Ledger!Spec

(* Every request the server has begun is answered, unless it is restarted. *)
EveryRequestAnswered == \A r \in Request : ~IsFree(r) ~> IsFree(r)

-----------------------------------------------------------------------------
(* event-progress.schema.ts:15: the progress of condition k of an event is kept in the
   document with index k.  A user whose document meets its condition, for every
   condition, is not refused. *)
ConditionMetInItsDocument(key, k) ==
  LET counts == progress[<<key[1], key[2], k - 1>>] IN
  counts # NoDoc /\ ~Stops(events[key[2]].conditions[k], counts)

EachConditionHasItsDocument ==
  [][\A r \in Request :
       LET h == handler[r] IN
       /\ ClaimFindProgress(r)
       /\ h.conditions # <<>>
       /\ \A k \in DOMAIN h.conditions : ConditionMetInItsDocument(h.key, k)
       => ~IsFree(r)']_vars

(* create-reward-claim.handler.ts:49: the event is checked to be in progress.  A claim is
   stored on no day outside the period of its event, if that ends no earlier than it
   starts. *)
ClaimDuringEvent ==
  [][\A r \in Request :
       LET event == events[handler[r].key[2]] IN
       ClaimCreate(r) /\ claims' # claims /\ event.startDate <= event.endDate =>
         event.startDate <= today /\ today <= event.endDate]_vars

=============================================================================
