----------------------------- MODULE EventCatalog -----------------------------
(***************************************************************************)
(* event-server: EventService and RewardService over the collections       *)
(* `events` and `rewards`.  Documents are created and read; no operation   *)
(* changes or deletes one.                                                 *)
(***************************************************************************)
EXTENDS RpcHandlers, Sequences

CONSTANTS EventId, RewardId,   \* ObjectIds the collections can hand out
          NoDoc,               \* where a collection has no document
          NotANumber,          \* a param that does not convert to a number
          Measure,             \* what progress counts: a condition type and a key of its params
          ConditionLists,      \* the condition lists events are created with
          MaxDay               \* bound on dates: days are 0..MaxDay

Day         == 0..MaxDay
EventStatus == {"active", "upcoming", "expired"}
Approval    == {"auto", "manual"}

(***************************************************************************)
(* A condition {type, params} is the sequence of what its params require,  *)
(* in the order of the object's keys; params may be {}, the empty one, and *)
(* their values are of any type, as no DTO looks into them.                *)
(***************************************************************************)
Requirement == [measure : Measure, need : Nat \cup {NotANumber}]
Condition   == Seq(Requirement)

ASSUME CatalogAssumption ==
  /\ ConditionLists \subseteq Seq(Condition)
  /\ MaxDay \in Nat
  /\ NotANumber \notin Nat

EventDoc == [status : EventStatus, approvalType : Approval, conditions : ConditionLists,
             startDate : Day, endDate : Day]

RewardDoc == [eventId : EventId]

ASSUME NoDocAssumption == NoDoc \notin EventDoc /\ NoDoc \notin RewardDoc

VARIABLES events,    \* events[e]: the document with _id e, or NoDoc
          rewards    \* rewards[w]: the document with _id w, or NoDoc

catalog == <<events, rewards>>

EventExists(e)  == events[e] # NoDoc
RewardExists(w) == rewards[w] # NoDoc

(* RewardService.create between its findById and its save. *)
CreatingReward == [pc : {"createReward"}, eventId : EventId]

CatalogTypeOK ==
  /\ events \in [EventId -> EventDoc \cup {NoDoc}]
  /\ rewards \in [RewardId -> RewardDoc \cup {NoDoc}]

CatalogInit ==
  /\ events = [e \in EventId |-> NoDoc]
  /\ rewards = [w \in RewardId |-> NoDoc]

-----------------------------------------------------------------------------
(* Mutant: a document with the same id is replaced. *)
CreateEventUpsert(r) ==
  /\ IsFree(r)
  /\ \E e \in EventId, doc \in EventDoc : events' = [events EXCEPT ![e] = doc]
  /\ Written(r, 400)
  /\ UNCHANGED rewards

(* EventService.create.  A request without status gets the default of the schema, which is
   one of EventStatus, so its document is among those a status is given for. *)
CreateEvent(r) ==
  /\ IsFree(r)
  /\ \E e \in EventId, doc \in EventDoc :
       /\ ~EventExists(e)
       /\ events' = [events EXCEPT ![e] = doc]
  /\ Written(r, 400)
  /\ UNCHANGED rewards

(* A document the schema refuses (no approvalType, an unknown status): every error of
   the save becomes a BadRequestException. *)
CreateEventRefused(r) ==
  /\ IsFree(r)
  /\ Reply(r, 400)
  /\ UNCHANGED catalog

(* Mutant: the result of findById is not looked at. *)
RewardFindNoEvent(r) ==
  /\ IsFree(r)
  /\ \E e \in EventId : Continue(r, [pc |-> "createReward", eventId |-> e])
  /\ UNCHANGED catalog

(* RewardService.create, findById of the event. *)
RewardFindEvent(r) ==
  /\ IsFree(r)
  /\ \E e \in EventId :
       /\ EventExists(e)
       /\ Continue(r, [pc |-> "createReward", eventId |-> e])
  /\ UNCHANGED catalog

(* The NotFoundException is thrown inside the try: a 400 leaves, not a 404. *)
RewardEventUnknown(r) ==
  /\ IsFree(r)
  /\ \E e \in EventId : ~EventExists(e)
  /\ Reply(r, 400)
  /\ UNCHANGED catalog

RewardSave(r) ==
  /\ handler[r].pc = "createReward"
  /\ \E w \in RewardId :
       /\ ~RewardExists(w)
       /\ rewards' = [rewards EXCEPT ![w] = [eventId |-> handler[r].eventId]]
  /\ Written(r, 400)
  /\ UNCHANGED events

(* The schema refuses the reward (quantity below 1, no details), or the save fails. *)
RewardSaveRefused(r) ==
  /\ handler[r].pc = "createReward"
  /\ Reply(r, 400)
  /\ UNCHANGED catalog

CatalogStep(r) ==
  \/ CreateEvent(r) \/ CreateEventRefused(r)
  \/ RewardFindEvent(r) \/ RewardEventUnknown(r) \/ RewardSave(r) \/ RewardSaveRefused(r)

-----------------------------------------------------------------------------
(* A stored reward belongs to a stored event, although RewardService.create looks the
   event up in one round trip and saves in another (reward.service.ts:25). *)
RewardHasEvent == \A w \in RewardId : RewardExists(w) => EventExists(rewards[w].eventId)

=============================================================================
