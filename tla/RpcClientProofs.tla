--------------------------- MODULE RpcClientProofs ---------------------------
(***************************************************************************)
(* For any calls, count of retries and refusals: the invariant of the      *)
(* proxies is inductive, what a client is told is true, and calls with     *)
(* timeouts, retries and lost connections implement CallContract.          *)
(*                                                                         *)
(* The argument: packets never run ahead of their call (SentBefore), so    *)
(* the packet of a retry is new to every part of the system; and exactly   *)
(* the packets waited for have callbacks, so an answer that ends a call    *)
(* is the one of its last attempt.                                         *)
(***************************************************************************)
EXTENDS RpcClient, TLAPS

CallTypeOK == call \in [Call -> Idle \cup Waiting \cup Done \cup Rejected]

(* The packets that have a callback, one by one. *)
WaitedFor(p) == IsWaiting(CallOf(p)) /\ p[2] = call[CallOf(p)].attempt

(* What the type says of a call that waits, and of one that has ended. *)
LEMMA CallTypes ==
  ASSUME CallTypeOK, NEW c \in Call
  PROVE  /\ IsWaiting(c) => /\ call[c].attempt \in Attempt
                            /\ Current(c) \in Packet
         /\ call[c].state = "done" /\ call[c].attempt # 0 =>
              /\ call[c].attempt \in Attempt
              /\ Current(c) \in Packet
              /\ call[c].status \in RpcStatus
         /\ call[c].state \in {"idle", "waiting", "done"}
<1>1. call[c] \in Idle \cup Waiting \cup Done \cup Rejected
  BY DEF CallTypeOK
<1>2. CASE call[c] \in Idle
  BY <1>2 DEF Idle, IsWaiting
<1>3. CASE call[c] \in Waiting
  BY <1>3 DEF Waiting, IsWaiting, Current, Packet
<1>4. CASE call[c] \in Done
  BY <1>4 DEF Done, IsWaiting, Current, Packet
<1>5. CASE call[c] \in Rejected
  BY <1>5 DEF Rejected, IsWaiting
<1>. QED  BY <1>1, <1>2, <1>3, <1>4, <1>5

(* A packet is a call and the number of an attempt. *)
LEMMA PacketParts ==
  ASSUME NEW p \in Packet
  PROVE  CallOf(p) \in Call /\ p[2] \in Attempt /\ p[2] \in Nat \ {0} /\ p = <<CallOf(p), p[2]>>
BY RetryAssumption DEF Packet, CallOf, Attempt

CallbacksExact ==
  routingMap \subseteq Packet /\ \A p \in Packet : p \in routingMap <=> WaitedFor(p)

(* The callbacks match the calls, stated call by call. *)
LEMMA RoutingPointwise == CallTypeOK => (RoutingMatchesCalls <=> CallbacksExact)
<1> SUFFICES ASSUME CallTypeOK  PROVE RoutingMatchesCalls <=> CallbacksExact
  OBVIOUS
<1> DEFINE W == {Current(c) : c \in {x \in Call : IsWaiting(x)}}
<1>1. W \subseteq Packet
  BY CallTypes
<1>2. ASSUME NEW p \in Packet  PROVE p \in W <=> WaitedFor(p)
  BY PacketParts DEF WaitedFor, Current, CallOf
<1>3. ASSUME routingMap \subseteq Packet, \A p \in Packet : p \in routingMap <=> WaitedFor(p)
      PROVE  routingMap = W
  <2>1. \A p \in routingMap : p \in W
    BY <1>2, <1>3
  <2>2. \A p \in W : p \in routingMap
    BY <1>1, <1>2, <1>3
  <2>. QED  BY <2>1, <2>2
<1>. QED  BY <1>1, <1>2, <1>3 DEF RoutingMatchesCalls, CallbacksExact

(* An attempt that fails leaves a call that waits with the next one, or has ended. *)
LEMMA AfterErrorTypes ==
  ASSUME CallTypeOK, NEW c \in Call, IsWaiting(c), NEW status \in RpcStatus
  PROVE  /\ AfterError(c, status) \in Waiting \cup Done
         /\ CanRetry(c) => /\ <<c, call[c].attempt + 1>> \in Packet
                           /\ AfterError(c, status) =
                                [state |-> "waiting", attempt |-> call[c].attempt + 1]
         /\ ~CanRetry(c) => AfterError(c, status) =
                              [state |-> "done", attempt |-> call[c].attempt, status |-> status]
<1>1. call[c].attempt \in Attempt
  BY CallTypes
<1>2. CASE CanRetry(c)
  <2>1. call[c].attempt + 1 \in Attempt
    BY <1>1, <1>2, RetryAssumption DEF CanRetry, Attempt
  <2>. QED  BY <1>2, <2>1 DEF AfterError, Waiting, Packet
<1>3. CASE ~CanRetry(c)
  BY <1>1, <1>3 DEF AfterError, Done
<1>. QED  BY <1>2, <1>3

(* The same after a step. *)
LEMMA RoutingPointwiseNext == CallTypeOK' => (RoutingMatchesCalls' <=> CallbacksExact')
BY RoutingPointwise, PTL

(* Attempts of waiting calls fail: the packets of their retries are new to everyone, and
   every other packet keeps its place. *)
LEMMA FailStep ==
  ASSUME CallTypeOK, RoutingMatchesCalls, NEW C \in SUBSET Call, \A c \in C : IsWaiting(c),
         NEW status \in RpcStatus, AttemptsFail(C, status)
  PROVE  /\ CallTypeOK'
         /\ RoutingMatchesCalls'
         /\ \A c \in Call \ C : call'[c] = call[c]
         /\ \A c \in C : call'[c] = AfterError(c, status)
         /\ \A p \in Packet : SentBefore(p) => SentBefore(p)'
         /\ \A p \in Retried(C) : p \in Packet /\ SentBefore(p)' /\ ~SentBefore(p)
<1>1. call' = [c \in Call |-> IF c \in C THEN AfterError(c, status) ELSE call[c]]
  BY DEF AttemptsFail
<1>2. \A c \in C : AfterError(c, status) \in Waiting \cup Done
  BY AfterErrorTypes
<1>3. CallTypeOK'
  BY <1>1, <1>2 DEF CallTypeOK
<1>4. /\ \A c \in Call \ C : call'[c] = call[c]
      /\ \A c \in C : call'[c] = AfterError(c, status)
  BY <1>1
<1>5. ASSUME NEW c \in C
      PROVE  /\ c \in Call /\ call[c].attempt \in Nat
             /\ CanRetry(c) =>
                  call'[c] = [state |-> "waiting", attempt |-> call[c].attempt + 1]
             /\ ~CanRetry(c) =>
                  /\ call'[c].state = "done"
                  /\ call'[c].attempt = call[c].attempt
                  /\ call'[c].status = status
  <2>1. c \in Call /\ IsWaiting(c)
    OBVIOUS
  <2>2. call[c].attempt \in Nat
    BY <2>1, CallTypes DEF Attempt
  <2>3. CASE CanRetry(c)
    BY <1>4, <2>1, <2>2, <2>3, AfterErrorTypes
  <2>4. CASE ~CanRetry(c)
    <3>1. call'[c] = [state |-> "done", attempt |-> call[c].attempt, status |-> status]
      BY <1>4, <2>1, <2>4, AfterErrorTypes
    <3>. QED  BY <2>1, <2>2, <2>4, <3>1
  <2>. QED  BY <2>3, <2>4
<1>6. ASSUME NEW p \in Retried(C)
      PROVE  /\ p \in Packet /\ CallOf(p) \in C /\ CanRetry(CallOf(p))
             /\ p[2] = call[CallOf(p)].attempt + 1
             /\ SentBefore(p)' /\ ~SentBefore(p)
  <2>1. PICK c \in C : CanRetry(c) /\ p = <<c, call[c].attempt + 1>>
    BY DEF Retried
  <2>2. p \in Packet /\ call'[c] = [state |-> "waiting", attempt |-> call[c].attempt + 1]
    BY <2>1, <1>4, AfterErrorTypes
  <2>3. CallOf(p) = c /\ p[2] = call[c].attempt + 1
    BY <2>1 DEF CallOf
  <2>4. call[c].attempt \in Nat
    BY CallTypes DEF Attempt
  <2>. QED  BY <2>1, <2>2, <2>3, <2>4 DEF SentBefore
<1>7. ASSUME NEW p \in Packet, SentBefore(p)  PROVE SentBefore(p)'
  <2>1. CallOf(p) \in Call /\ p[2] \in Nat
    BY PacketParts
  <2>2. CASE CallOf(p) \notin C
    BY <1>4, <1>7, <2>1, <2>2 DEF SentBefore
  <2>3. CASE CallOf(p) \in C
    <3>1. call[CallOf(p)].attempt \in Nat
      BY <2>3, CallTypes DEF Attempt
    <3>2. /\ call'[CallOf(p)].state # "idle"
          /\ call'[CallOf(p)].attempt \in {call[CallOf(p)].attempt, call[CallOf(p)].attempt + 1}
      <4>1. CASE CanRetry(CallOf(p))
        <5>1. call'[CallOf(p)] = [state |-> "waiting", attempt |-> call[CallOf(p)].attempt + 1]
          BY <1>5, <2>3, <4>1
        <5>. QED  BY <3>1, <5>1
      <4>2. CASE ~CanRetry(CallOf(p))
        BY <1>5, <2>3, <3>1, <4>2
      <4>. QED  BY <4>1, <4>2
    <3>. QED  BY <1>7, <2>1, <3>1, <3>2 DEF SentBefore
  <2>. QED  BY <2>2, <2>3
<1>8. RoutingMatchesCalls'
  <2>1. routingMap' = {p \in routingMap : CallOf(p) \notin C} \cup Retried(C)
    BY DEF AttemptsFail
  <2>2. routingMap \subseteq Packet /\ \A p \in Packet : p \in routingMap <=> WaitedFor(p)
    BY RoutingPointwise DEF CallbacksExact
  <2>3. routingMap' \subseteq Packet
    BY <2>1, <2>2, <1>6
  <2>4. ASSUME NEW p \in Packet  PROVE p \in routingMap' <=> WaitedFor(p)'
    <3>1. CallOf(p) \in Call /\ p[2] \in Nat /\ p = <<CallOf(p), p[2]>>
      BY PacketParts
    <3>2. CASE CallOf(p) \notin C
      BY <3>1, <3>2, <2>1, <2>2, <1>4, <1>6 DEF WaitedFor, IsWaiting
    <3>3. CASE CallOf(p) \in C /\ CanRetry(CallOf(p))
      <4>1. p \in routingMap' <=> p \in Retried(C)
        BY <2>1, <3>3
      <4>2. p \in Retried(C) <=> p[2] = call[CallOf(p)].attempt + 1
        BY <3>1, <3>3, <1>6 DEF Retried
      <4>3. call'[CallOf(p)] = [state |-> "waiting", attempt |-> call[CallOf(p)].attempt + 1]
        BY <3>3, <1>5 DEF CanRetry
      <4>. QED  BY <4>1, <4>2, <4>3 DEF WaitedFor, IsWaiting
    <3>4. CASE CallOf(p) \in C /\ ~CanRetry(CallOf(p))
      <4>1. p \notin routingMap'
        BY <2>1, <3>4, <1>6
      <4>2. call'[CallOf(p)].state = "done"
        BY <3>4, <1>5 DEF CanRetry
      <4>. QED  BY <4>1, <4>2 DEF WaitedFor, IsWaiting
    <3>. QED  BY <3>2, <3>3, <3>4
  <2>. QED  BY <2>3, <2>4, <1>3, RoutingPointwiseNext DEF CallbacksExact
<1>. QED  BY <1>3, <1>4, <1>6, <1>7, <1>8

(* An answer is a packet and a status. *)
LEMMA AnswerParts ==
  ASSUME RpcTypeOK, NEW a \in answers
  PROVE  a.packet \in Packet /\ a.status \in RpcStatus /\ a = [packet |-> a.packet, status |-> a.status]
BY DEF RpcTypeOK, Answer

(* Every way in which attempts fail keeps the invariant: nothing is sent but the retries,
   and a refusal that ends a call left nothing to be performed. *)
LEMMA FailKeepsInv ==
  ASSUME RpcInv, NEW C \in SUBSET Call, \A c \in C : IsWaiting(c),
         NEW status \in RpcStatus \ {200}, AttemptsFail(C, status),
         requests' \subseteq requests \cup Retried(C), running' \subseteq running,
         answers' \subseteq answers, performed' = performed,
         \A c \in C : status \in Refusal => Current(c) \notin performed \cup requests \cup running
  PROVE  RpcInv'
<1>1. CallTypeOK /\ RoutingMatchesCalls /\ RpcTypeOK /\ PacketsInv /\ AnswersInv /\ DefiniteAnswer
  BY DEF RpcInv, RpcTypeOK, CallTypeOK
<1>2. /\ CallTypeOK' /\ RoutingMatchesCalls'
      /\ \A c \in Call \ C : call'[c] = call[c]
      /\ \A c \in C : call'[c] = AfterError(c, status)
      /\ \A p \in Packet : SentBefore(p) => SentBefore(p)'
      /\ \A p \in Retried(C) : p \in Packet /\ SentBefore(p)' /\ ~SentBefore(p)
  BY <1>1, FailStep
<1>3. RpcTypeOK'
  <2>1. routingMap' \subseteq Packet
    BY <1>2, RoutingPointwiseNext DEF CallbacksExact
  <2>. QED  BY <1>1, <1>2, <2>1 DEF RpcTypeOK, CallTypeOK
<1>4. PacketsInv'
  <2>1. \A p \in requests' \cup running' \cup performed' : SentBefore(p)'
    BY <1>1, <1>2 DEF PacketsInv, RpcTypeOK
  <2>2. \A a \in answers' : SentBefore(a.packet)'
    BY <1>1, <1>2, AnswerParts DEF PacketsInv
  <2>3. \A p \in requests' : p \notin running' \cup performed'
    BY <1>1, <1>2 DEF PacketsInv
  <2>4. \A a \in answers' : a.packet \notin requests' \cup running'
    BY <1>1, <1>2 DEF PacketsInv
  <2>5. \A a, b \in answers' : a.packet = b.packet => a = b
    BY <1>1 DEF PacketsInv
  <2>. QED  BY <2>1, <2>2, <2>3, <2>4, <2>5 DEF PacketsInv
<1>5. AnswersInv'
  BY <1>1 DEF AnswersInv
<1>6. DefiniteAnswer'
  <2> SUFFICES ASSUME NEW c \in Call, call'[c].state = "done", call'[c].attempt # 0
               PROVE  /\ call'[c].status = 200 => Current(c)' \in performed'
                      /\ call'[c].status \in Refusal =>
                           Current(c)' \notin performed' \cup running' \cup requests'
    BY DEF DefiniteAnswer
  <2>1. CASE c \notin C
    <3>1. call'[c] = call[c] /\ Current(c)' = Current(c)
      BY <1>2, <2>1 DEF Current
    <3>2. Current(c) \in Packet /\ SentBefore(Current(c))
      <4>1. Current(c) \in Packet /\ call[c].attempt \in Attempt
        BY <1>1, <3>1, CallTypes
      <4>2. CallOf(Current(c)) = c /\ Current(c)[2] = call[c].attempt
        BY DEF CallOf, Current
      <4>. QED  BY <3>1, <4>1, <4>2 DEF SentBefore, Attempt
    <3>3. Current(c) \notin Retried(C)
      BY <1>2, <3>2
    <3>. QED  BY <1>1, <3>1, <3>3 DEF DefiniteAnswer
  <2>2. CASE c \in C
    <3>1. ~CanRetry(c)
      <4>1. CanRetry(c) => call'[c] = [state |-> "waiting", attempt |-> call[c].attempt + 1]
        BY <1>1, <1>2, <2>2, AfterErrorTypes
      <4>. QED  BY <4>1
    <3>2. call'[c] = [state |-> "done", attempt |-> call[c].attempt, status |-> status]
      <4>1. IsWaiting(c) /\ status \in RpcStatus
        BY <2>2
      <4>2. AfterError(c, status) = [state |-> "done", attempt |-> call[c].attempt, status |-> status]
        BY <1>1, <3>1, <4>1, AfterErrorTypes
      <4>. QED  BY <1>2, <2>2, <4>2
    <3>3. call'[c].status = status /\ Current(c)' = Current(c)
      BY <3>2 DEF Current
    <3>4. Current(c) \notin Retried(C)
      <4>1. call[c].attempt \in Nat
        BY <1>1, <2>2, CallTypes DEF Attempt
      <4>2. ASSUME NEW d \in C, Current(c) = <<d, call[d].attempt + 1>>  PROVE FALSE
        BY <4>1, <4>2 DEF Current
      <4>. QED  BY <4>2 DEF Retried
    <3>. QED  BY <2>2, <3>3, <3>4
  <2>. QED  BY <2>1, <2>2
<1>. QED  BY <1>2, <1>3, <1>4, <1>5, <1>6 DEF RpcInv

(* Before any call there is nothing to violate the invariant. *)
LEMMA RpcInvInit == RpcInit => RpcInv
<1> SUFFICES ASSUME RpcInit  PROVE RpcInv
  OBVIOUS
<1> USE DEF RpcInit
<1>1. RpcTypeOK
  BY DEF RpcTypeOK, Idle
<1>2. RoutingMatchesCalls
  BY DEF RoutingMatchesCalls, IsWaiting
<1>3. PacketsInv /\ AnswersInv /\ DefiniteAnswer
  BY DEF PacketsInv, AnswersInv, DefiniteAnswer
<1>. QED  BY <1>1, <1>2, <1>3 DEF RpcInv

(* A call that was idle has no packets anywhere. *)
LEMMA IdleHasNoPackets ==
  ASSUME RpcInv, NEW c \in Call, call[c].state = "idle"
  PROVE  /\ \A p \in requests \cup running \cup performed : CallOf(p) # c
         /\ \A a \in answers : CallOf(a.packet) # c
         /\ \A p \in routingMap : CallOf(p) # c
<1>1. \A p \in requests \cup running \cup performed : CallOf(p) # c
  BY DEF RpcInv, PacketsInv, SentBefore
<1>2. \A a \in answers : CallOf(a.packet) # c
  BY DEF RpcInv, PacketsInv, SentBefore
<1>3. \A p \in routingMap : CallOf(p) # c
  BY DEF RpcInv, RoutingMatchesCalls, CallOf, Current, IsWaiting
<1>. QED  BY <1>1, <1>2, <1>3

(* A step that moves no call, and at most brings a packet further. *)
LEMMA ServiceKeepsInv ==
  ASSUME RpcInv, call' = call, routingMap' = routingMap,
         requests' \subseteq requests, running' \subseteq requests \cup running,
         performed' \subseteq performed \cup running, performed \subseteq performed',
         answers' \in SUBSET Answer,
         \A a \in answers' : a.packet \in running \/ a \in answers,
         \A a \in answers' : a.packet \notin running',
         \A a, b \in answers' : a.packet = b.packet => a = b,
         \A p \in requests' : p \notin running',
         AnswersInv'
  PROVE  RpcInv'
<1>1. RpcTypeOK /\ RoutingMatchesCalls /\ PacketsInv /\ DefiniteAnswer
  BY DEF RpcInv
<1>2. RpcTypeOK'
  BY <1>1 DEF RpcTypeOK
<1>3. RoutingMatchesCalls'
  BY <1>1 DEF RoutingMatchesCalls, IsWaiting, Current
<1>4. PacketsInv'
  <2>1. \A p \in requests' \cup running' \cup performed' : SentBefore(p)'
    BY <1>1 DEF PacketsInv, SentBefore
  <2>2. \A a \in answers' : SentBefore(a.packet)'
    BY <1>1 DEF PacketsInv, SentBefore
  <2>3. \A p \in requests' : p \notin running' \cup performed'
    BY <1>1 DEF PacketsInv
  <2>4. \A a \in answers' : a.packet \notin requests' \cup running'
    BY <1>1 DEF PacketsInv
  <2>. QED  BY <2>1, <2>2, <2>3, <2>4 DEF PacketsInv
<1>5. DefiniteAnswer'
  BY <1>1 DEF DefiniteAnswer, Current, PacketsInv
<1>. QED  BY <1>2, <1>3, <1>4, <1>5 DEF RpcInv

(* Send and Reject: a call that was idle. *)
LEMMA RejectKeepsInv ==
  ASSUME RpcInv, NEW c \in Call, NEW status \in {400, 401, 403}, Reject(c, status)
  PROVE  RpcInv'
<1>1. /\ call[c].state = "idle"
      /\ call' = [call EXCEPT ![c] = [state |-> "done", attempt |-> 0, status |-> status]]
      /\ UNCHANGED <<routingMap, requests, running, answers, performed>>
  BY DEF Reject
<1>2. RpcTypeOK /\ RoutingMatchesCalls /\ PacketsInv /\ AnswersInv /\ DefiniteAnswer
  BY DEF RpcInv
<1>3. \A d \in Call \ {c} : call'[d] = call[d]
  BY <1>1, <1>2 DEF RpcTypeOK
<1>4. call'[c] = [state |-> "done", attempt |-> 0, status |-> status]
  BY <1>1, <1>2 DEF RpcTypeOK
<1>5. RpcTypeOK'
  <2>1. [state |-> "done", attempt |-> 0, status |-> status] \in Rejected
    BY DEF Rejected
  <2>. QED  BY <1>1, <1>2, <2>1 DEF RpcTypeOK
<1>6. RoutingMatchesCalls'
  <2>1. \A d \in Call : IsWaiting(d)' <=> IsWaiting(d)
    BY <1>1, <1>3, <1>4 DEF IsWaiting
  <2>2. \A d \in Call : IsWaiting(d) => Current(d)' = Current(d)
    BY <1>1, <1>3 DEF IsWaiting, Current
  <2>. QED  BY <1>1, <1>2, <2>1, <2>2 DEF RoutingMatchesCalls
<1>7. PacketsInv'
  <2>1. \A p \in Packet : SentBefore(p) => SentBefore(p)'
    BY <1>1, <1>3, PacketParts DEF SentBefore
  <2>. QED  BY <1>1, <1>2, <2>1, AnswerParts DEF PacketsInv, RpcTypeOK
<1>8. AnswersInv' /\ DefiniteAnswer'
  BY <1>1, <1>2, <1>3, <1>4 DEF AnswersInv, DefiniteAnswer, Current
<1>. QED  BY <1>5, <1>6, <1>7, <1>8 DEF RpcInv

(* Send: a first packet, with a callback. *)
LEMMA SendKeepsInv ==
  ASSUME RpcInv, NEW c \in Call, Send(c)
  PROVE  RpcInv'
<1>1. /\ call[c].state = "idle"
      /\ call' = [call EXCEPT ![c] = [state |-> "waiting", attempt |-> 1]]
      /\ routingMap' = routingMap \cup {<<c, 1>>}
      /\ requests' = requests \cup {<<c, 1>>}
      /\ UNCHANGED <<running, answers, performed>>
  BY DEF Send
<1>2. RpcTypeOK /\ RoutingMatchesCalls /\ PacketsInv /\ AnswersInv /\ DefiniteAnswer /\ CallTypeOK
  BY DEF RpcInv, RpcTypeOK, CallTypeOK
<1>3. \A d \in Call \ {c} : call'[d] = call[d]
  BY <1>1, <1>2 DEF RpcTypeOK
<1>4. call'[c] = [state |-> "waiting", attempt |-> 1]
  BY <1>1, <1>2 DEF RpcTypeOK
<1>5. <<c, 1>> \in Packet /\ 1 \in Attempt
  BY RetryAssumption DEF Packet, Attempt
<1>6. RpcTypeOK' /\ CallTypeOK'
  <2>1. [state |-> "waiting", attempt |-> 1] \in Waiting
    BY <1>5 DEF Waiting
  <2>. QED  BY <1>1, <1>2, <1>5, <2>1 DEF RpcTypeOK, CallTypeOK
<1>7. RoutingMatchesCalls'
  <2>1. ASSUME NEW p \in Packet  PROVE p \in routingMap' <=> WaitedFor(p)'
    <3>1. CallOf(p) \in Call /\ p = <<CallOf(p), p[2]>>
      BY PacketParts
    <3>2. CASE CallOf(p) = c
      BY <1>1, <1>4, <3>1, <3>2, IdleHasNoPackets DEF WaitedFor, IsWaiting
    <3>3. CASE CallOf(p) # c
      <4>1. WaitedFor(p)' <=> WaitedFor(p)
        BY <1>3, <3>1, <3>3 DEF WaitedFor, IsWaiting
      <4>2. p # <<c, 1>>
        BY <3>3 DEF CallOf
      <4>. QED  BY <1>1, <1>2, <4>1, <4>2, RoutingPointwise DEF CallbacksExact
    <3>. QED  BY <3>2, <3>3
  <2>2. routingMap' \subseteq Packet
    BY <1>6 DEF RpcTypeOK
  <2>. QED  BY <1>6, <2>1, <2>2, RoutingPointwiseNext DEF CallbacksExact
<1>8. PacketsInv'
  <2>1. \A p \in Packet : SentBefore(p) => SentBefore(p)'
    BY <1>1, <1>3, PacketParts DEF SentBefore
  <2>2. SentBefore(<<c, 1>>)'
    BY <1>4 DEF SentBefore, CallOf
  <2>3. CallOf(<<c, 1>>) = c
    BY DEF CallOf
  <2>4. <<c, 1>> \notin running \cup performed /\ \A a \in answers : a.packet # <<c, 1>>
    BY <1>1, <2>3, IdleHasNoPackets
  <2>. QED  BY <1>1, <1>2, <2>1, <2>2, <2>4, AnswerParts DEF PacketsInv, RpcTypeOK
<1>9. AnswersInv' /\ DefiniteAnswer'
  BY <1>1, <1>2, <1>3, <1>4 DEF AnswersInv, DefiniteAnswer, Current
<1>. QED  BY <1>6, <1>7, <1>8, <1>9 DEF RpcInv

(* Timeout and failed connections: the attempt is given up, perhaps for another. *)
LEMMA TimeoutKeepsInv ==
  ASSUME RpcInv, NEW c \in Call, Timeout(c) \/ ConnectFails(c)
  PROVE  RpcInv'
<1>1. /\ IsWaiting(c) /\ AttemptsFail({c}, 500)
      /\ requests' \subseteq requests \cup Retried({c})
      /\ UNCHANGED <<running, answers, performed>>
  BY DEF Timeout, ConnectFails
<1>2. 500 \in RpcStatus \ {200} /\ 500 \notin Refusal
  BY RefusalAssumption DEF RpcStatus
<1>. QED  BY <1>1, <1>2, FailKeepsInv

(* A socket closes, for any set of calls. *)
LEMMA SocketKeepsInv ==
  ASSUME RpcInv, NEW Over \in SUBSET Call, ConnectionLost(Over) \/ ServiceRestarts(Over)
  PROVE  RpcInv'
<1> DEFINE W == {c \in Over : IsWaiting(c)}
<1>1. /\ AttemptsFail(W, 500)
      /\ requests' \subseteq requests \cup Retried(W)
      /\ answers' \subseteq answers /\ performed' = performed /\ running' \subseteq running
  BY DEF ConnectionLost, ServiceRestarts, SocketCloses
<1>2. 500 \in RpcStatus \ {200} /\ 500 \notin Refusal
  BY RefusalAssumption DEF RpcStatus
<1>3. W \in SUBSET Call /\ \A c \in W : IsWaiting(c)
  OBVIOUS
<1>. HIDE DEF W
<1>. QED  BY <1>1, <1>2, <1>3, FailKeepsInv

(* An answer that has a callback is the one its call waits for. *)
LEMMA AnswerIsCurrent ==
  ASSUME RpcInv, NEW p \in routingMap
  PROVE  p \in Packet /\ CallOf(p) \in Call /\ IsWaiting(CallOf(p)) /\ p = Current(CallOf(p))
<1>1. p \in Packet /\ WaitedFor(p)
  BY RoutingPointwise DEF RpcInv, RpcTypeOK, CallTypeOK, CallbacksExact
<1>. QED  BY <1>1, PacketParts DEF WaitedFor, Current

(* An answer with a callback: it is that of the current attempt. *)
LEMMA DeliverKeepsInv ==
  ASSUME RpcInv, NEW p, NEW status, Deliver(p, status)
  PROVE  RpcInv'
<1> DEFINE c == CallOf(p)
           a == [packet |-> p, status |-> status]
<1>1. a \in answers /\ p \in routingMap /\ answers' = answers \ {a}
      /\ UNCHANGED <<running, performed>>
  BY DEF Deliver, HasCallback
<1>2. p \in Packet /\ c \in Call /\ IsWaiting(c) /\ p = Current(c)
  BY <1>1, AnswerIsCurrent
<1>3. RpcTypeOK /\ RoutingMatchesCalls /\ PacketsInv /\ AnswersInv /\ DefiniteAnswer /\ CallTypeOK
  BY DEF RpcInv, RpcTypeOK, CallTypeOK
<1>4. a.packet = p /\ a.status = status /\ status \in RpcStatus
  BY <1>1, <1>3, AnswerParts
<1>5. p \notin requests \cup running
  BY <1>1, <1>3, <1>4 DEF PacketsInv
<1>6. /\ status = 200 => p \in performed
      /\ status \in Refusal => p \notin performed
  BY <1>1, <1>3, <1>4 DEF AnswersInv
<1>7. CASE status # 200
  <2>1. AttemptsFail({c}, status) /\ requests' = requests \cup Retried({c})
    BY <1>7 DEF Deliver
  <2>. QED  BY <1>1, <1>2, <1>4, <1>5, <1>6, <1>7, <2>1, FailKeepsInv
<1>8. CASE status = 200
  <2>1. /\ call' = [call EXCEPT ![c] = [state |-> "done", attempt |-> @.attempt, status |-> 200]]
        /\ routingMap' = routingMap \ {p}
        /\ UNCHANGED requests
    BY <1>2, <1>8 DEF Deliver
  <2>2. /\ call'[c] = [state |-> "done", attempt |-> call[c].attempt, status |-> 200]
        /\ \A d \in Call \ {c} : call'[d] = call[d]
    BY <1>2, <1>3, <2>1 DEF RpcTypeOK
  <2>3. call[c].attempt \in Attempt /\ Current(c)' = p /\ call[c].state = "waiting"
    BY <1>2, <1>3, <2>2, CallTypes DEF Current, IsWaiting
  <2>4. RpcTypeOK' /\ CallTypeOK'
    <3>1. [state |-> "done", attempt |-> call[c].attempt, status |-> 200] \in Done
      BY <2>3 DEF Done, RpcStatus
    <3>. QED  BY <1>1, <1>3, <2>1, <3>1 DEF RpcTypeOK, CallTypeOK
  <2>5. RoutingMatchesCalls'
    <3>1. ASSUME NEW q \in Packet  PROVE q \in routingMap' <=> WaitedFor(q)'
      <4>1. CallOf(q) \in Call /\ q = <<CallOf(q), q[2]>>
        BY PacketParts
      <4>2. CASE CallOf(q) = c
        <5>1. ~WaitedFor(q)'
          BY <2>2, <4>2 DEF WaitedFor, IsWaiting
        <5>2. q \in routingMap => q = p
          BY <1>2, <4>2, AnswerIsCurrent
        <5>. QED  BY <2>1, <5>1, <5>2
      <4>3. CASE CallOf(q) # c
        <5>1. WaitedFor(q)' <=> WaitedFor(q)
          BY <2>2, <4>1, <4>3 DEF WaitedFor, IsWaiting
        <5>. QED  BY <1>3, <2>1, <4>3, <5>1, RoutingPointwise DEF CallbacksExact
      <4>. QED  BY <4>2, <4>3
    <3>2. routingMap' \subseteq Packet
      BY <2>4 DEF RpcTypeOK
    <3>. QED  BY <2>4, <3>1, <3>2, RoutingPointwiseNext DEF CallbacksExact
  <2>6. PacketsInv'
    <3>1. \A q \in Packet : SentBefore(q) => SentBefore(q)'
      BY <2>2, PacketParts DEF SentBefore
    <3>. QED  BY <1>1, <1>3, <2>1, <3>1, AnswerParts DEF PacketsInv, RpcTypeOK
  <2>7. AnswersInv'
    BY <1>1, <1>3 DEF AnswersInv
  <2>8. DefiniteAnswer'
    <3> SUFFICES ASSUME NEW d \in Call, call'[d].state = "done", call'[d].attempt # 0
                 PROVE  /\ call'[d].status = 200 => Current(d)' \in performed'
                        /\ call'[d].status \in Refusal =>
                             Current(d)' \notin performed' \cup running' \cup requests'
      BY DEF DefiniteAnswer
    <3>1. CASE d = c
      <4>1. call'[d].status = 200 /\ 200 \notin Refusal
        BY <2>2, <3>1, RefusalAssumption
      <4>. QED  BY <1>1, <1>6, <1>8, <2>3, <3>1, <4>1
    <3>2. CASE d # c
      <4>1. call'[d] = call[d] /\ Current(d)' = Current(d)
        BY <2>2, <3>2 DEF Current
      <4>. QED  BY <1>1, <1>3, <2>1, <4>1 DEF DefiniteAnswer
    <3>. QED  BY <3>1, <3>2
  <2>. QED  BY <2>4, <2>5, <2>6, <2>7, <2>8 DEF RpcInv
<1>. QED  BY <1>7, <1>8

(* The service takes up a packet. *)
LEMMA ReceiveKeepsInv ==
  ASSUME RpcInv, NEW p \in requests, Receive(p)
  PROVE  RpcInv'
BY ServiceKeepsInv DEF Receive, RpcInv, RpcTypeOK, PacketsInv, AnswersInv

(* A handler performs its operation. *)
LEMMA PerformKeepsInv ==
  ASSUME RpcInv, NEW p \in running, Perform(p)
  PROVE  RpcInv'
<1>1. /\ performed' = performed \cup {p}
      /\ UNCHANGED <<call, routingMap, requests, running, answers>>
  BY DEF Perform
<1>2. RpcTypeOK /\ PacketsInv /\ AnswersInv
  BY DEF RpcInv
<1>3. AnswersInv'
  BY <1>1, <1>2 DEF AnswersInv, PacketsInv
<1>. QED  BY <1>1, <1>2, <1>3, ServiceKeepsInv DEF PacketsInv, RpcTypeOK

(* A handler answers. *)
LEMMA RespondKeepsInv ==
  ASSUME RpcInv, NEW p \in running, NEW status \in RpcStatus, Respond(p, status)
  PROVE  RpcInv'
<1> DEFINE a == [packet |-> p, status |-> status]
<1>1. /\ running' = running \ {p}
      /\ answers' = answers \cup {a}
      /\ UNCHANGED <<call, routingMap, requests, performed>>
      /\ status = 200 => p \in performed
      /\ status \in Refusal => p \notin performed
  BY DEF Respond
<1>2. RpcTypeOK /\ PacketsInv /\ AnswersInv
  BY DEF RpcInv
<1>3. a \in Answer /\ a.packet = p /\ a.status = status
  BY <1>2 DEF Answer, RpcTypeOK
<1>. HIDE DEF a
<1>4. AnswersInv'
  BY <1>1, <1>2, <1>3 DEF AnswersInv
<1>5. /\ answers' \in SUBSET Answer
      /\ \A x \in answers' : x.packet \in running \/ x \in answers
      /\ \A x \in answers' : x.packet \notin running'
      /\ \A x, y \in answers' : x.packet = y.packet => x = y
      /\ \A x \in requests' : x \notin running'
  BY <1>1, <1>2, <1>3 DEF PacketsInv, RpcTypeOK
<1>. QED  BY <1>1, <1>4, <1>5, ServiceKeepsInv

(* An answer without a callback is dropped. *)
LEMMA DropKeepsInv ==
  ASSUME RpcInv, NEW p, NEW status, DropAnswer(p, status)
  PROVE  RpcInv'
BY ServiceKeepsInv DEF DropAnswer, RpcInv, RpcTypeOK, PacketsInv, AnswersInv

(* The invariant is inductive. *)
LEMMA RpcInvStep == RpcInv /\ [RpcNext]_rpcVars => RpcInv'
<1> SUFFICES ASSUME RpcInv, [RpcNext]_rpcVars  PROVE RpcInv'
  OBVIOUS
<1>1. ASSUME NEW c \in Call, NEW status \in {400, 401, 403}, Reject(c, status)  PROVE RpcInv'
  BY <1>1, RejectKeepsInv
<1>2. ASSUME NEW c \in Call, Send(c)  PROVE RpcInv'
  BY <1>2, SendKeepsInv
<1>3. ASSUME NEW c \in Call, Timeout(c) \/ ConnectFails(c)  PROVE RpcInv'
  BY <1>3, TimeoutKeepsInv
<1>4. ASSUME NEW p \in requests, Receive(p)  PROVE RpcInv'
  BY <1>4, ReceiveKeepsInv
<1>5. ASSUME NEW p \in running, Perform(p)  PROVE RpcInv'
  BY <1>5, PerformKeepsInv
<1>6. ASSUME NEW p \in running, NEW status \in RpcStatus, Respond(p, status)  PROVE RpcInv'
  BY <1>6, RespondKeepsInv
<1>7. ASSUME NEW a \in answers, Deliver(a.packet, a.status)  PROVE RpcInv'
  BY <1>7, DeliverKeepsInv
<1>8. ASSUME NEW a \in answers, DropAnswer(a.packet, a.status)  PROVE RpcInv'
  BY <1>8, DropKeepsInv
<1>9. ASSUME NEW Over \in SUBSET Call, ConnectionLost(Over) \/ ServiceRestarts(Over)
      PROVE  RpcInv'
  BY <1>9, SocketKeepsInv
<1>10. CASE UNCHANGED rpcVars
  BY <1>10 DEF rpcVars, RpcInv, RpcTypeOK, RoutingMatchesCalls, PacketsInv, AnswersInv,
               DefiniteAnswer, IsWaiting, Current, SentBefore
<1>. QED  BY <1>1, <1>2, <1>3, <1>4, <1>5, <1>6, <1>7, <1>8, <1>9, <1>10 DEF RpcNext

(* The invariant of the client proxies, the connection and the service holds throughout
   (client-proxy.provider.ts, sendWithTimeoutAndRetry): callbacks match the calls that wait,
   and every packet is in one place. *)
THEOREM RpcInvariant == RpcSpec => []RpcInv
<1>. QED  BY RpcInvInit, RpcInvStep, PTL DEF RpcSpec

(* Type correctness of the client proxies (client-proxy.provider.ts:57, timeout and retry):
   no attempt beyond the first and RetryCount others. *)
THEOREM RpcTypeCorrect == RpcSpec => []RpcTypeOK
<1>1. RpcInv => RpcTypeOK
  BY DEF RpcInv
<1>. QED  BY <1>1, RpcInvariant, PTL

(* What the client is told is true, for any number of calls and retries
   (client-proxy.provider.ts, sendWithTimeoutAndRetry): a success was performed in the
   attempt it answers, and what a service refused is not performed later. *)
THEOREM AnswersAreDefinite == RpcSpec => []DefiniteAnswer
<1>1. RpcInv => DefiniteAnswer
  BY DEF RpcInv
<1>. QED  BY <1>1, RpcInvariant, PTL

-----------------------------------------------------------------------------
(* The refinement of CallContract. *)
(* Attempts that fail show as the end of the calls that have no retry left. *)
LEMMA OutcomeAfterErrors ==
  ASSUME CallTypeOK, NEW C \in SUBSET Call, \A c \in C : IsWaiting(c),
         NEW status \in RpcStatus, AttemptsFail(C, status)
  PROVE  Outcome' = [c \in Call |->
                       IF c \in C /\ ~CanRetry(c)
                         THEN [state |-> "done", attempt |-> call[c].attempt, status |-> status]
                         ELSE Outcome[c]]
<1>1. call' = [c \in Call |-> IF c \in C THEN AfterError(c, status) ELSE call[c]]
  BY DEF AttemptsFail
<1>2. ASSUME NEW c \in Call
      PROVE  Outcome'[c] = IF c \in C /\ ~CanRetry(c)
                             THEN [state |-> "done", attempt |-> call[c].attempt, status |-> status]
                             ELSE Outcome[c]
  <2>1. CASE c \notin C
    BY <1>1, <2>1 DEF Outcome, IsWaiting
  <2>2. CASE c \in C /\ CanRetry(c)
    <3>1. call'[c].state = "waiting"
      BY <1>1, <2>2 DEF AfterError
    <3>2. IsWaiting(c)
      BY <2>2
    <3>. QED  BY <2>2, <3>1, <3>2 DEF Outcome, IsWaiting
  <2>3. CASE c \in C /\ ~CanRetry(c)
    <3>1. call'[c] = [state |-> "done", attempt |-> call[c].attempt, status |-> status]
      BY <1>1, <2>3 DEF AfterError
    <3>. QED  BY <2>3, <3>1 DEF Outcome, IsWaiting
  <2>. QED  BY <2>1, <2>2, <2>3
<1>. QED  BY <1>2 DEF Outcome

(* Nothing is performed ahead of the attempt that is current. *)
LEMMA PerformedBefore ==
  ASSUME RpcInv, NEW c \in Call, NEW m \in 1..(RetryCount + 1), <<c, m>> \in performed
  PROVE  call[c].state # "idle" /\ m <= call[c].attempt
BY DEF RpcInv, PacketsInv, SentBefore, CallOf

(* A socket that closes ends the calls that retry no more, as Fail does. *)
LEMMA ErrorsImplementFail ==
  ASSUME RpcInv, NEW C \in SUBSET Call, \A c \in C : IsWaiting(c),
         AttemptsFail(C, 500), performed' = performed
  PROVE  Contract!Next
<1> DEFINE D == {c \in C : ~CanRetry(c)}
           last == [c \in D |-> call[c].attempt]
<1>1. CallTypeOK /\ 500 \in RpcStatus
  BY DEF RpcInv, RpcTypeOK, CallTypeOK, RpcStatus
<1>2. D \in SUBSET Call /\ \A c \in D : Outcome[c].state = "waiting"
  BY DEF Outcome
<1>3. last \in [D -> 1..(RetryCount + 1)]
  BY <1>1, CallTypes DEF Attempt
<1>4. \A c \in D, m \in 1..(RetryCount + 1) : <<c, m>> \in performed => m <= last[c]
  BY PerformedBefore
<1>5. Outcome' = [c \in Call |->
                    IF c \in D THEN [state |-> "done", attempt |-> last[c], status |-> 500]
                              ELSE Outcome[c]]
  BY <1>1, OutcomeAfterErrors
<1>. HIDE DEF D, last
<1>6. Contract!Fail(D)
  BY <1>2, <1>3, <1>4, <1>5 DEF Contract!Fail
<1>. QED  BY <1>2, <1>6 DEF Contract!Next

(* A refusal speaks of an attempt that is never performed. *)
LEMMA RefusalIsFinal ==
  ASSUME RpcInv, NEW c \in Call, call[c].state = "done", call[c].attempt # 0
  PROVE  call[c].status \in Refusal => Current(c) \notin running
BY DEF RpcInv, DefiniteAnswer

(* Every step is one of the contract, or a stutter. *)
LEMMA RpcStepRefines == RpcInv /\ [RpcNext]_rpcVars => [Contract!Next]_<<Outcome, performed>>
<1> SUFFICES ASSUME RpcInv, [RpcNext]_rpcVars
             PROVE  Contract!Next \/ UNCHANGED <<Outcome, performed>>
  OBVIOUS
<1>0. CallTypeOK /\ RpcTypeOK
  BY DEF RpcInv, RpcTypeOK, CallTypeOK
<1>1. ASSUME NEW c \in Call, NEW status \in {400, 401, 403}, Reject(c, status)
      PROVE  Contract!Next
  <2>1. /\ call[c].state = "idle"
        /\ call' = [call EXCEPT ![c] = [state |-> "done", attempt |-> 0, status |-> status]]
        /\ UNCHANGED performed
    BY <1>1 DEF Reject
  <2>2. Outcome[c].state = "idle"
    BY <2>1 DEF Outcome, IsWaiting
  <2>3. Outcome' = [Outcome EXCEPT ![c] = [state |-> "done", attempt |-> 0, status |-> status]]
    BY <1>0, <2>1 DEF Outcome, IsWaiting, CallTypeOK
  <2>4. status \in {401, 403} \cup RpcStatus
    BY DEF RpcStatus
  <2>5. Contract!Reject(c, status)
    BY <2>1, <2>2, <2>3 DEF Contract!Reject
  <2>. QED  BY <2>4, <2>5 DEF Contract!Next
<1>2. ASSUME NEW c \in Call, Send(c)  PROVE Contract!Next
  <2>1. /\ call[c].state = "idle"
        /\ call' = [call EXCEPT ![c] = [state |-> "waiting", attempt |-> 1]]
        /\ UNCHANGED performed
    BY <1>2 DEF Send
  <2>2. Outcome[c].state = "idle"
    BY <2>1 DEF Outcome, IsWaiting
  <2>3. Outcome' = [Outcome EXCEPT ![c] = [state |-> "waiting"]]
    BY <1>0, <2>1 DEF Outcome, IsWaiting, CallTypeOK
  <2>4. Contract!Begin(c)
    BY <2>1, <2>2, <2>3 DEF Contract!Begin
  <2>. QED  BY <2>4 DEF Contract!Next
<1>3. ASSUME NEW c \in Call, Timeout(c) \/ ConnectFails(c)  PROVE Contract!Next
  <2>1. {c} \in SUBSET Call /\ (\A d \in {c} : IsWaiting(d)) /\ AttemptsFail({c}, 500)
        /\ performed' = performed
    BY <1>3 DEF Timeout, ConnectFails
  <2>. QED  BY <2>1, ErrorsImplementFail
<1>4. ASSUME NEW Over \in SUBSET Call, ConnectionLost(Over) \/ ServiceRestarts(Over)
      PROVE  Contract!Next
  <2> DEFINE W == {c \in Over : IsWaiting(c)}
  <2>1. W \in SUBSET Call /\ (\A d \in W : IsWaiting(d)) /\ AttemptsFail(W, 500)
        /\ performed' = performed
    BY <1>4 DEF ConnectionLost, ServiceRestarts, SocketCloses
  <2>. HIDE DEF W
  <2>. QED  BY <2>1, ErrorsImplementFail
<1>5. ASSUME NEW p \in running, Perform(p)  PROVE Contract!Next
  <2> DEFINE c == CallOf(p)
             n == p[2]
  <2>1. p \in Packet /\ c \in Call /\ n \in Attempt /\ p = <<c, n>> /\ n \in Nat \ {0}
    BY <1>0, PacketParts DEF RpcTypeOK
  <2>2. call[c].state # "idle" /\ n <= call[c].attempt
    BY DEF RpcInv, PacketsInv, SentBefore
  <2>3. /\ p \notin performed /\ performed' = performed \cup {<<c, n>>}
        /\ call' = call
    BY <1>5, <2>1 DEF Perform
  <2>. HIDE DEF c, n
  <2>4. Contract!MayPerform(c, n)
    <3>1. CASE IsWaiting(c)
      BY <2>1, <3>1 DEF Contract!MayPerform, Outcome
    <3>2. CASE ~IsWaiting(c)
      <4>1. call[c].state = "done" /\ Outcome[c] = call[c]
        BY <1>0, <2>1, <2>2, <3>2, CallTypes DEF Outcome, IsWaiting
      <4>2. ASSUME n = call[c].attempt  PROVE call[c].status \notin Refusal
        <5>1. call[c].attempt # 0 /\ Current(c) = p
          BY <2>1, <4>2 DEF Current
        <5>. QED  BY <2>1, <4>1, <5>1, RefusalIsFinal
      <4>. QED  BY <2>2, <4>1, <4>2 DEF Contract!MayPerform
    <3>. QED  BY <3>1, <3>2
  <2>5. Outcome' = Outcome
    BY <2>3 DEF Outcome, IsWaiting
  <2>6. Contract!Perform(c, n)
    BY <2>1, <2>3, <2>4, <2>5 DEF Contract!Perform
  <2>. QED  BY <2>1, <2>6 DEF Contract!Next, Attempt
<1>6. ASSUME NEW a \in answers, Deliver(a.packet, a.status)
      PROVE  Contract!Next \/ UNCHANGED <<Outcome, performed>>
  <2> DEFINE p == a.packet
             status == a.status
             c == CallOf(p)
  <2>1. p \in routingMap /\ performed' = performed
    BY <1>6 DEF Deliver, HasCallback
  <2>2. p \in Packet /\ c \in Call /\ IsWaiting(c) /\ p = Current(c) /\ status \in RpcStatus
    BY <1>0, <2>1, AnswerIsCurrent, AnswerParts
  <2>3. /\ status = 200 => Current(c) \in performed
        /\ status \in Refusal => Current(c) \notin performed
    BY <2>2 DEF RpcInv, AnswersInv
  <2>4. Outcome[c].state = "waiting" /\ call[c].attempt \in Attempt
    BY <1>0, <2>2, CallTypes DEF Outcome
  <2>5. ASSUME Outcome' = [Outcome EXCEPT ![c] =
                             [state |-> "done", attempt |-> call[c].attempt, status |-> status]]
        PROVE  Contract!Next
    <3>1. \A m \in 1..(RetryCount + 1) : <<c, m>> \in performed => m <= call[c].attempt
      BY <2>2, PerformedBefore
    <3>2. Contract!End(c, call[c].attempt, status)
      BY <2>1, <2>3, <2>4, <2>5, <3>1 DEF Contract!End, Current
    <3>3. c \in Call /\ call[c].attempt \in 1..(RetryCount + 1) /\ status \in {401, 403} \cup RpcStatus
      BY <2>2, <2>4 DEF Attempt
    <3>. QED  BY <3>2, <3>3 DEF Contract!Next
  <2>6. CASE status = 200
    <3>1. call' = [call EXCEPT ![c] = [state |-> "done", attempt |-> @.attempt, status |-> 200]]
      BY <1>6, <2>6 DEF Deliver
    <3>2. Outcome' = [Outcome EXCEPT ![c] =
                        [state |-> "done", attempt |-> call[c].attempt, status |-> status]]
      BY <1>0, <2>2, <2>6, <3>1 DEF Outcome, IsWaiting, CallTypeOK
    <3>. QED  BY <2>5, <3>2
  <2>7. CASE status # 200
    <3>1. AttemptsFail({c}, status)
      BY <1>6, <2>7 DEF Deliver
    <3>2. Outcome' = [x \in Call |->
                        IF x \in {c} /\ ~CanRetry(x)
                          THEN [state |-> "done", attempt |-> call[x].attempt, status |-> status]
                          ELSE Outcome[x]]
      BY <1>0, <2>2, <3>1, OutcomeAfterErrors
    <3>3. CASE CanRetry(c)
      <4>1. Outcome' = Outcome
        BY <3>2, <3>3 DEF Outcome, CanRetry
      <4>. QED  BY <2>1, <4>1
    <3>4. CASE ~CanRetry(c)
      <4>1. Outcome' = [Outcome EXCEPT ![c] =
                          [state |-> "done", attempt |-> call[c].attempt, status |-> status]]
        BY <2>2, <3>2, <3>4 DEF Outcome, CanRetry
      <4>. QED  BY <2>5, <4>1
    <3>. QED  BY <3>3, <3>4
  <2>. QED  BY <2>6, <2>7
<1>7. ASSUME UNCHANGED <<call, performed>>  PROVE UNCHANGED <<Outcome, performed>>
  BY <1>7 DEF Outcome, IsWaiting
<1>8. ASSUME NEW p \in requests, Receive(p)  PROVE UNCHANGED <<call, performed>>
  BY <1>8 DEF Receive
<1>9. ASSUME NEW p \in running, NEW status \in RpcStatus, Respond(p, status)
      PROVE  UNCHANGED <<call, performed>>
  BY <1>9 DEF Respond
<1>10. ASSUME NEW a \in answers, DropAnswer(a.packet, a.status)
       PROVE  UNCHANGED <<call, performed>>
  BY <1>10 DEF DropAnswer
<1>11. CASE UNCHANGED rpcVars
  BY <1>7, <1>11 DEF rpcVars
<1>12. CASE \E p \in requests : Receive(p)
  BY <1>7, <1>8, <1>12
<1>13. CASE \E p \in running : Perform(p) \/ \E status \in RpcStatus : Respond(p, status)
  BY <1>5, <1>7, <1>9, <1>13
<1>14. CASE \E a \in answers : Deliver(a.packet, a.status) \/ DropAnswer(a.packet, a.status)
  BY <1>6, <1>7, <1>10, <1>14
<1>. QED  BY <1>1, <1>2, <1>3, <1>4, <1>11, <1>12, <1>13, <1>14 DEF RpcNext

(* Timeouts, retries, answers that come late and connections that are lost keep what a call
   promises (client-proxy.provider.ts, sendWithTimeoutAndRetry): the proxies implement
   CallContract, for any number of calls and retries. *)
THEOREM ProxiesImplementContract == RpcSpec => ImplementsContract
<1>1. RpcInit => Contract!Init
  BY DEF RpcInit, Contract!Init, Outcome, IsWaiting
<1>. QED  BY <1>1, RpcInvariant, RpcStepRefines, PTL
          DEF RpcSpec, ImplementsContract, Contract!Spec

(* What a client was told stays as it is, whatever arrives or fails later
   (client-proxy.provider.ts, sendWithTimeoutAndRetry): the contract ends each call once. *)
THEOREM AnswersAreFinal == RpcSpec => AnsweredOnce
<1>1. ASSUME Contract!Next, NEW c \in Call, Outcome[c].state = "done"
      PROVE  Outcome'[c] = Outcome[c]
  <2>1. Outcome = [x \in Call |-> Outcome[x]]
    BY DEF Outcome
  <2>2. ASSUME NEW d \in Call, Contract!Begin(d)  PROVE Outcome'[c] = Outcome[c]
    BY <1>1, <2>1, <2>2 DEF Contract!Begin
  <2>3. ASSUME NEW d \in Call, NEW s, Contract!Reject(d, s)  PROVE Outcome'[c] = Outcome[c]
    BY <1>1, <2>1, <2>3 DEF Contract!Reject
  <2>4. ASSUME NEW d \in Call, NEW n, Contract!Perform(d, n)  PROVE Outcome'[c] = Outcome[c]
    BY <2>4 DEF Contract!Perform
  <2>5. ASSUME NEW d \in Call, NEW n, NEW s, Contract!End(d, n, s)  PROVE Outcome'[c] = Outcome[c]
    BY <1>1, <2>1, <2>5 DEF Contract!End
  <2>6. ASSUME NEW C \in SUBSET Call, Contract!Fail(C)  PROVE Outcome'[c] = Outcome[c]
    BY <1>1, <2>6 DEF Contract!Fail
  <2>. QED  BY <1>1, <2>2, <2>3, <2>4, <2>5, <2>6 DEF Contract!Next
<1>2. ASSUME RpcInv, [RpcNext]_rpcVars, NEW c \in Call, call[c].state = "done"
      PROVE  call'[c] = call[c]
  <2>1. Outcome[c] = call[c]
    BY <1>2 DEF Outcome, IsWaiting
  <2>2. Outcome'[c] = Outcome[c]
    BY <1>1, <1>2, <2>1, RpcStepRefines
  <2>3. Outcome'[c].state = "done"
    BY <1>2, <2>1, <2>2
  <2>. QED  BY <2>1, <2>2, <2>3 DEF Outcome, IsWaiting
<1>3. RpcInv /\ [RpcNext]_rpcVars => [\A c \in Call : call[c].state = "done" => call'[c] = call[c]]_rpcVars
  BY <1>2
<1>. QED  BY <1>3, RpcInvariant, PTL DEF RpcSpec, AnsweredOnce

(* Once a call has ended, what the contract says of it holds (sendWithTimeoutAndRetry): a
   success was performed and nothing after it, a refused attempt never is, and a call that
   the gateway answered by itself has no effect at all. *)
THEOREM ContractKept == RpcSpec => []Contract!ContractInv
<1>1. RpcInv => Contract!ContractInv
  <2> SUFFICES ASSUME RpcInv  PROVE Contract!ContractInv
    OBVIOUS
  <2>1. performed \subseteq Call \X Attempt /\ Attempt = 1..(RetryCount + 1)
    BY DEF RpcInv, RpcTypeOK, Packet, Attempt
  <2>2. ASSUME NEW c \in Call, NEW n \in Attempt, <<c, n>> \in performed
        PROVE  call[c].state # "idle" /\ n <= call[c].attempt
    BY <2>2 DEF RpcInv, PacketsInv, SentBefore, CallOf
  <2>3. ASSUME NEW c \in Call
        PROVE  LET o == Outcome[c] IN
               /\ o.state \in {"idle", "waiting", "done"}
               /\ o.state = "idle" => \A n \in Attempt : <<c, n>> \notin performed
               /\ o.state = "done" =>
                    /\ \A n \in Attempt : <<c, n>> \in performed => n <= o.attempt
                    /\ o.attempt # 0 /\ o.status = 200 => <<c, o.attempt>> \in performed
                    /\ o.status \in Refusal => <<c, o.attempt>> \notin performed
    <3>1. call[c] \in Idle \cup Waiting \cup Done \cup Rejected
      BY DEF RpcInv, RpcTypeOK
    <3>2. CASE IsWaiting(c)
      BY <3>2 DEF Outcome
    <3>3. CASE call[c].state = "idle"
      BY <2>2, <3>3 DEF Outcome, IsWaiting
    <3>4. CASE call[c].state = "done"
      <4>1. Outcome[c] = call[c]
        BY <3>4 DEF Outcome, IsWaiting
      <4>2. call[c].attempt = 0 => <<c, call[c].attempt>> \notin performed
        BY <2>1
      <4>. QED  BY <2>2, <3>4, <4>1, <4>2 DEF RpcInv, DefiniteAnswer, Current
    <3>. QED  BY <3>1, <3>2, <3>3, <3>4 DEF Idle, Waiting, Done, Rejected, IsWaiting
  <2>. QED  BY <2>1, <2>3 DEF Contract!ContractInv
<1>. QED  BY <1>1, RpcInvariant, PTL
=============================================================================
