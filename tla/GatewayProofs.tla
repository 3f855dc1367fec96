---------------------------- MODULE GatewayProofs ----------------------------
(***************************************************************************)
(* For any calls, accounts, routes, lifetimes and timeouts: the gateway    *)
(* over auth-server is an instance of RpcClient, GatewayInv is inductive,  *)
(* a role that was taken away works for a bounded time, and with no retry  *)
(* clients are told the truth about their accounts.                        *)
(*                                                                         *)
(* The argument for the bound: a login that may still be answered has an   *)
(* attempt that is current, so it began less than the timeout ago, and the *)
(* role it read was held at the time or later (LoginsInv).  An answer for  *)
(* any other attempt finds no callback.                                    *)
(***************************************************************************)
EXTENDS Gateway, RpcClientProofs

(* How a step may move a call. *)
Begins(c)   == call[c].state = "idle" /\ call'[c].state = "waiting" /\ call'[c].attempt = 1
IsRejected(c) == call[c].state = "idle" /\ call'[c].state = "done" /\ call'[c].attempt = 0
IsRetried(c) ==
  IsWaiting(c) /\ call'[c].state = "waiting" /\ call'[c].attempt = call[c].attempt + 1
Ends(c)     ==
  IsWaiting(c) /\ call'[c].state = "done" /\ call'[c].attempt = call[c].attempt

Moves(c) ==
  call'[c] = call[c] \/ Begins(c) \/ IsRejected(c) \/ IsRetried(c) \/ Ends(c)

(* What failed attempts do to a call: the next attempt, or an end. *)
LEMMA FailMoves ==
  ASSUME CallTypeOK, NEW C \in SUBSET Call, \A c \in C : IsWaiting(c),
         NEW status \in RpcStatus, AttemptsFail(C, status)
  PROVE  \A c \in Call : Moves(c) /\ (~IsWaiting(c) => call'[c] = call[c])
<1>1. call' = [c \in Call |-> IF c \in C THEN AfterError(c, status) ELSE call[c]]
  BY DEF AttemptsFail
<1>2. ASSUME NEW c \in Call  PROVE Moves(c) /\ (~IsWaiting(c) => call'[c] = call[c])
  <2>1. CASE c \notin C
    BY <1>1, <2>1 DEF Moves
  <2>2. CASE c \in C
    <3>1. IsWaiting(c) /\ call'[c] = AfterError(c, status)
      BY <1>1, <2>2
    <3>2. CASE CanRetry(c)
      <4>1. call'[c] = [state |-> "waiting", attempt |-> call[c].attempt + 1]
        BY <3>1, <3>2, AfterErrorTypes
      <4>. QED  BY <3>1, <4>1 DEF Moves, IsRetried
    <3>3. CASE ~CanRetry(c)
      <4>1. call'[c] = [state |-> "done", attempt |-> call[c].attempt, status |-> status]
        BY <3>1, <3>3, AfterErrorTypes
      <4>. QED  BY <3>1, <4>1 DEF Moves, Ends
    <3>. QED  BY <3>2, <3>3
  <2>. QED  BY <2>1, <2>2
<1>. QED  BY <1>2

(* What an answer does to its call. *)
LEMMA DeliverMoves ==
  ASSUME RpcInv, NEW p, NEW status, Deliver(p, status)
  PROVE  \A c \in Call : Moves(c) /\ (~IsWaiting(c) => call'[c] = call[c])
<1> DEFINE c == CallOf(p)
           a == [packet |-> p, status |-> status]
<1>1. a \in answers /\ p \in routingMap
  BY DEF Deliver, HasCallback
<1>2. c \in Call /\ IsWaiting(c) /\ CallTypeOK /\ RpcTypeOK
  BY <1>1, AnswerIsCurrent DEF RpcInv, RpcTypeOK, CallTypeOK
<1>3. status \in RpcStatus
  <2>1. a.status = status
    OBVIOUS
  <2>. QED  BY <1>1, <1>2, <2>1, AnswerParts
<1>4. CASE status # 200
  <2>1. AttemptsFail({c}, status)
    BY <1>4 DEF Deliver
  <2>. QED  BY <1>2, <1>3, <2>1, FailMoves
<1>5. CASE status = 200
  <2>1. call' = [call EXCEPT ![c] = [state |-> "done", attempt |-> @.attempt, status |-> 200]]
    BY <1>5 DEF Deliver
  <2>2. call'[c] = [state |-> "done", attempt |-> call[c].attempt, status |-> 200]
    BY <1>2, <2>1 DEF CallTypeOK
  <2>3. \A x \in Call \ {c} : call'[x] = call[x]
    BY <1>2, <2>1 DEF CallTypeOK
  <2>4. Moves(c)
    BY <1>2, <2>2 DEF Moves, Ends
  <2>. QED  BY <1>2, <2>3, <2>4 DEF Moves
<1>. QED  BY <1>4, <1>5

(* What a rejected request does to its call. *)
LEMMA RejectMoves ==
  ASSUME CallTypeOK, NEW c \in Call, NEW status, Reject(c, status)
  PROVE  /\ \A x \in Call : Moves(x)
         /\ \A x \in Call \ {c} : call'[x] = call[x]
         /\ IsRejected(c)
<1>1. /\ call[c].state = "idle"
      /\ call' = [call EXCEPT ![c] = [state |-> "done", attempt |-> 0, status |-> status]]
  BY DEF Reject
<1>2. call'[c] = [state |-> "done", attempt |-> 0, status |-> status]
  BY <1>1 DEF CallTypeOK
<1>3. \A x \in Call \ {c} : call'[x] = call[x]
  BY <1>1 DEF CallTypeOK
<1>4. IsRejected(c)
  BY <1>1, <1>2 DEF IsRejected
<1>. QED  BY <1>3, <1>4 DEF Moves

(* What a forwarded request does to its call. *)
LEMMA SendMoves ==
  ASSUME CallTypeOK, NEW c \in Call, Send(c)
  PROVE  /\ \A x \in Call : Moves(x)
         /\ \A x \in Call \ {c} : call'[x] = call[x]
         /\ Begins(c)
<1>1. /\ call[c].state = "idle"
      /\ call' = [call EXCEPT ![c] = [state |-> "waiting", attempt |-> 1]]
  BY DEF Send
<1>2. call'[c] = [state |-> "waiting", attempt |-> 1]
  BY <1>1 DEF CallTypeOK
<1>3. \A x \in Call \ {c} : call'[x] = call[x]
  BY <1>1 DEF CallTypeOK
<1>4. Begins(c)
  BY <1>1, <1>2 DEF Begins
<1>. QED  BY <1>3, <1>4 DEF Moves

-----------------------------------------------------------------------------
(* Every step of the gateway is one of the proxies, or leaves them alone. *)
LEMMA RespondIsRpc ==
  ASSUME NEW p, NEW status \in RpcStatus, Respond(p, status)
  PROVE  RpcNext
BY DEF RpcNext, Respond

(* A handler that performs its operation takes a step of RpcNext. *)
LEMMA PerformIsRpc ==
  ASSUME NEW p, Perform(p)
  PROVE  RpcNext
BY DEF RpcNext, Perform

(* The statuses the gateway and the services use. *)
LEMMA StatusTypes == {200, 400, 401, 404, 500} \subseteq RpcStatus
BY GatewayAssumption DEF RpcStatus

(* Every step of the gateway is one of the proxies, or leaves them alone. *)
LEMMA StepIsRpc == Step => [RpcNext]_rpcVars
<1> SUFFICES ASSUME Step  PROVE [RpcNext]_rpcVars
  OBVIOUS
<1>1. ASSUME NEW c \in Call, Unauthorized(c) \/ Forbidden(c) \/ Invalid(c)  PROVE RpcNext
  BY <1>1 DEF Unauthorized, Forbidden, Invalid, RpcNext
<1>2. ASSUME NEW c \in Call, ForwardPublic(c) \/ ForwardAuthenticated(c)  PROVE RpcNext
  BY <1>2 DEF ForwardPublic, ForwardAuthenticated, RpcNext
<1>3. ASSUME NEW c \in Call, CallTimesOut(c) \/ ConnectFails(c)  PROVE RpcNext
  BY <1>3 DEF CallTimesOut, RpcNext
<1>4. ASSUME NEW p \in Packet, Serve(p)  PROVE [RpcNext]_rpcVars
  <2>1. CASE Begin(p)
    BY <2>1 DEF Begin, Receive, RpcNext
  <2>2. CASE LoginVerify(p) \/ UpdateFind(p)
    BY <2>2 DEF LoginVerify, UpdateFind
  <2>3. CASE Register(p) \/ LoginSign(p) \/ UpdateSave(p) \/ Delete(p) \/ PerformOther(p)
    BY <2>3, PerformIsRpc DEF Register, LoginSign, UpdateSave, Delete, PerformOther
  <2>4. CASE LoginRefused(p) \/ NotFound(p) \/ RefreshRefused(p) \/ Succeeds(p) \/ Fails(p)
    BY <2>4, RespondIsRpc, StatusTypes
       DEF LoginRefused, NotFound, RefreshRefused, Succeeds, Fails, Answered
  <2>. QED  BY <1>4, <2>1, <2>2, <2>3, <2>4 DEF Serve
<1>5. ASSUME NEW p \in Packet, NEW status \in RpcStatus, Receives(p, status) \/ DropAnswer(p, status)
      PROVE  RpcNext
  <2> DEFINE a == [packet |-> p, status |-> status]
  <2>1. a \in answers /\ a.packet = p /\ a.status = status
    BY <1>5 DEF Receives, Deliver, DropAnswer
  <2>2. Deliver(a.packet, a.status) \/ DropAnswer(a.packet, a.status)
    BY <1>5, <2>1 DEF Receives
  <2>. HIDE DEF a
  <2>. QED  BY <2>1, <2>2 DEF RpcNext
<1>6. ASSUME NEW service \in {"auth", "event"},
             ConnectionLost(CallsTo(service)) \/ ServiceRestarts(CallsTo(service))
      PROVE  RpcNext
  <2>1. CallsTo(service) \in SUBSET Call
    BY DEF CallsTo
  <2>. QED  BY <1>6, <2>1 DEF RpcNext
<1>7. CASE Tick
  BY <1>7 DEF Tick
<1>. QED  BY <1>1, <1>2, <1>3, <1>4, <1>5, <1>6, <1>7 DEF Step

(* The gateway over its services is an instance of the proxies (createClientProxy,
   client-proxy.provider.ts): what is proved of RpcClient holds of it. *)
THEOREM GatewayImplementsRpc == Spec => RpcSpec
<1>1. Init => RpcInit
  BY DEF Init
<1>2. [Next]_vars => [RpcNext]_rpcVars
  BY StepIsRpc DEF Next, vars
<1>. QED  BY <1>1, <1>2, PTL DEF Spec, RpcSpec

(* The whole gateway, guards, pipe and controllers included, keeps the promises of its client
   proxies: calls end once and as the contract says, a success was performed, a refused
   attempt never is, and a request that a guard or the ValidationPipe answered has no effect
   (auth-proxy.controller.ts, event-proxy.controller.ts). *)
THEOREM GatewayKeepsContract ==
  Spec => /\ ImplementsContract /\ AnsweredOnce
          /\ [](Contract!ContractInv /\ DefiniteAnswer)
BY GatewayImplementsRpc, ProxiesImplementContract, AnswersAreFinal, ContractKept,
   AnswersAreDefinite, PTL

-----------------------------------------------------------------------------
(* The steps that leave accounts, tokens and locals alone. *)
Quiet ==
  /\ UNCHANGED gwVars
  /\ \A c \in Call : Moves(c) /\ ~Begins(c)
  /\ performed \subseteq performed'
  /\ \A p \in performed' \ performed : RequestOf(p).route # "login"

QuietStep ==
  \/ \E c \in Call :
       \/ Unauthorized(c) \/ Forbidden(c) \/ Invalid(c) \/ CallTimesOut(c)
       \/ ConnectFails(c) /\ UNCHANGED gwVars
  \/ \E p \in Packet :
       \/ Begin(p) \/ LoginRefused(p) \/ NotFound(p) \/ RefreshRefused(p)
       \/ PerformOther(p) \/ Succeeds(p) \/ Fails(p)
       \/ \E status \in RpcStatus : DropAnswer(p, status) /\ UNCHANGED gwVars
  \/ \E service \in {"auth", "event"} :
       /\ ConnectionLost(CallsTo(service)) \/ ServiceRestarts(CallsTo(service))
       /\ UNCHANGED gwVars

(* The others. *)
AccountStep(p) ==
  Register(p) \/ LoginVerify(p) \/ LoginSign(p) \/ UpdateFind(p) \/ UpdateSave(p) \/ Delete(p)

(* The steps by what they may change: accounts, locals, tokens, requests, the clock. *)
LEMMA StepKinds ==
  ASSUME Step
  PROVE  \/ QuietStep
         \/ \E c \in Call : ForwardPublic(c) \/ ForwardAuthenticated(c)
         \/ \E p \in Packet : AccountStep(p)
         \/ \E p \in Packet, status \in RpcStatus : Receives(p, status)
         \/ Tick
BY DEF Step, Serve, QuietStep, AccountStep

(* The steps of which the invariant need only know that no call begins. *)
LEMMA QuietSteps ==
  ASSUME RpcInv, QuietStep
  PROVE  Quiet
<1>0. CallTypeOK /\ RpcTypeOK /\ 500 \in RpcStatus
  BY DEF RpcInv, RpcTypeOK, CallTypeOK, RpcStatus
<1>1. ASSUME NEW c \in Call, NEW status, Reject(c, status), UNCHANGED gwVars  PROVE Quiet
  <2>1. \A x \in Call : Moves(x) /\ ~Begins(x)
    <3>1. \A x \in Call : Moves(x)
      BY <1>0, <1>1, RejectMoves
    <3>2. \A x \in Call \ {c} : call'[x] = call[x]
      BY <1>0, <1>1, RejectMoves
    <3>3. IsRejected(c)
      BY <1>0, <1>1, RejectMoves
    <3>4. \A x \in Call : ~Begins(x)
      BY <3>2, <3>3 DEF IsRejected, Begins
    <3>. QED  BY <3>1, <3>4
  <2>. QED  BY <1>1, <2>1 DEF Quiet, Reject
<1>2. ASSUME NEW C \in SUBSET Call, \A c \in C : IsWaiting(c), AttemptsFail(C, 500),
             performed' = performed, UNCHANGED gwVars
      PROVE  Quiet
  <2>1. \A c \in Call : Moves(c) /\ (~IsWaiting(c) => call'[c] = call[c])
    BY <1>0, <1>2, FailMoves
  <2>2. \A c \in Call : ~Begins(c)
    BY <2>1 DEF Begins, IsWaiting
  <2>. QED  BY <1>2, <2>1, <2>2 DEF Quiet
<1>3. ASSUME call' = call, UNCHANGED gwVars, performed \subseteq performed',
             \A p \in performed' \ performed : RequestOf(p).route # "login"
      PROVE  Quiet
  <2>1. \A c \in Call : Moves(c) /\ ~Begins(c)
    BY <1>3 DEF Moves, Begins
  <2>. QED  BY <1>3, <2>1 DEF Quiet
<1>4. ASSUME NEW c \in Call, Unauthorized(c) \/ Forbidden(c) \/ Invalid(c)  PROVE Quiet
  BY <1>1, <1>4 DEF Unauthorized, Forbidden, Invalid
<1>5. ASSUME NEW c \in Call, CallTimesOut(c) \/ (ConnectFails(c) /\ UNCHANGED gwVars)
      PROVE  Quiet
  <2>1. /\ {c} \in SUBSET Call /\ (\A x \in {c} : IsWaiting(x)) /\ AttemptsFail({c}, 500)
        /\ performed' = performed /\ UNCHANGED gwVars
    BY <1>5 DEF CallTimesOut, Timeout, ConnectFails
  <2>. QED  BY <1>2, <2>1
<1>6. ASSUME NEW p \in Packet,
             \/ Begin(p) \/ LoginRefused(p) \/ NotFound(p) \/ RefreshRefused(p)
             \/ Succeeds(p) \/ Fails(p)
             \/ \E status \in RpcStatus : DropAnswer(p, status) /\ UNCHANGED gwVars
      PROVE  Quiet
  <2>1. call' = call /\ performed' = performed /\ UNCHANGED gwVars
    BY <1>6 DEF Begin, LoginRefused, NotFound, RefreshRefused, Succeeds, Fails, Answered,
                Receive, Respond, DropAnswer
  <2>. QED  BY <1>3, <2>1
<1>7. ASSUME NEW p \in Packet, PerformOther(p)  PROVE Quiet
  <2>1. call' = call /\ performed' = performed \cup {p} /\ UNCHANGED gwVars
    BY <1>7 DEF PerformOther, Perform
  <2>2. RequestOf(p).route # "login"
    BY <1>7 DEF PerformOther, OtherRoute
  <2>. QED  BY <1>3, <2>1, <2>2
<1>8. ASSUME NEW service \in {"auth", "event"}, UNCHANGED gwVars,
             ConnectionLost(CallsTo(service)) \/ ServiceRestarts(CallsTo(service))
      PROVE  Quiet
  <2> DEFINE W == {c \in CallsTo(service) : IsWaiting(c)}
  <2>1. W \in SUBSET Call /\ (\A c \in W : IsWaiting(c)) /\ AttemptsFail(W, 500)
        /\ performed' = performed
    BY <1>8 DEF ConnectionLost, ServiceRestarts, SocketCloses, CallsTo
  <2>. HIDE DEF W
  <2>. QED  BY <1>2, <1>8, <2>1
<1>. QED  BY <1>4, <1>5, <1>6, <1>7, <1>8 DEF QuietStep

-----------------------------------------------------------------------------
(* What a move keeps. *)
LEMMA SentStays ==
  ASSUME CallTypeOK, NEW c \in Call, Moves(c)
  PROVE  /\ Sent(c) => Sent(c)'
         /\ Sent(c)' => Sent(c) \/ Begins(c)
<1>1. CASE call'[c] = call[c]
  BY <1>1 DEF Sent
<1>2. CASE Begins(c)
  BY <1>2 DEF Begins, Sent
<1>3. CASE IsRejected(c)
  BY <1>3 DEF IsRejected, Sent
<1>4. CASE IsRetried(c) \/ Ends(c)
  <2>1. IsWaiting(c) /\ call[c].attempt \in Nat \ {0}
    BY <1>4, CallTypes, RetryAssumption DEF IsRetried, Ends, Attempt
  <2>. QED  BY <1>4, <2>1 DEF IsRetried, Ends, Sent, IsWaiting
<1>. QED  BY <1>1, <1>2, <1>3, <1>4 DEF Moves

(* A packet that was sent stays so. *)
LEMMA SentBeforeStays ==
  ASSUME CallTypeOK, NEW p \in Packet, Moves(CallOf(p)), SentBefore(p)
  PROVE  SentBefore(p)'
<1> DEFINE c == CallOf(p)
<1>1. c \in Call /\ p[2] \in Nat /\ call[c].state # "idle" /\ p[2] <= call[c].attempt
  BY PacketParts DEF SentBefore
<1>2. CASE call'[c] = call[c]
  BY <1>1, <1>2 DEF SentBefore
<1>3. CASE IsRetried(c) \/ Ends(c)
  <2>1. call[c].attempt \in Nat
    BY <1>1, <1>3, CallTypes DEF IsRetried, Ends, Attempt
  <2>2. call'[c].state # "idle" /\ call'[c].attempt \in {call[c].attempt, call[c].attempt + 1}
    BY <1>3 DEF IsRetried, Ends
  <2>. QED  BY <1>1, <2>1, <2>2 DEF SentBefore
<1>. QED  BY <1>1, <1>2, <1>3 DEF Moves, Begins, IsRejected

(* The packet a call waits for is the one it waited for before, or new. *)
LEMMA CurrentBefore ==
  ASSUME CallTypeOK, NEW p \in Packet, Moves(CallOf(p)), IsCurrent(p)'
  PROVE  \/ IsCurrent(p) /\ call'[CallOf(p)] = call[CallOf(p)]
         \/ ~SentBefore(p)
<1> DEFINE c == CallOf(p)
<1>1. c \in Call /\ p[2] \in Nat /\ p = <<c, p[2]>>
  BY PacketParts
<1>2. call'[c].state = "waiting" /\ p[2] = call'[c].attempt
  BY <1>1 DEF IsCurrent, IsWaiting, Current
<1>3. CASE call'[c] = call[c]
  BY <1>1, <1>2, <1>3 DEF IsCurrent, IsWaiting, Current
<1>4. CASE Begins(c)
  BY <1>4 DEF Begins, SentBefore
<1>5. CASE IsRetried(c)
  <2>1. call[c].attempt \in Nat
    BY <1>1, <1>5, CallTypes DEF IsRetried, Attempt
  <2>. QED  BY <1>2, <1>5, <2>1 DEF IsRetried, SentBefore
<1>. QED  BY <1>2, <1>3, <1>4, <1>5 DEF Moves, IsRejected, Ends

(* What the clock and the history say after a step. *)
LEMMA StampStep ==
  ASSUME GatewayTypeOK, HeldInv, Stamp, now' \in Time, now <= now'
  PROVE  /\ timer' \in [Call -> 0..(MaxTime + CallTimeout)]
         /\ lastHeld' \in [UserId \X Role -> 0..MaxTime]
         /\ HeldInv'
         /\ \A u \in UserId, r \in Role :
              /\ lastHeld[<<u, r>>] \in Nat /\ lastHeld'[<<u, r>>] \in Nat
              /\ lastHeld[<<u, r>>] <= lastHeld'[<<u, r>>]
         /\ \A c \in Call : call'[c] = call[c] => timer'[c] = timer[c]
         /\ \A c \in Call : call'[c] # call[c] /\ call'[c].state = "waiting" =>
                              timer'[c] = now + CallTimeout
<1>1. /\ timer \in [Call -> 0..(MaxTime + CallTimeout)]
      /\ lastHeld \in [UserId \X Role -> 0..MaxTime]
      /\ now \in 1..MaxTime /\ now' \in 1..MaxTime
      /\ CallTimeout \in Nat /\ MaxTime \in Nat
  BY GatewayAssumption DEF GatewayTypeOK, Time
<1>2. timer' = [c \in Call |-> IF call'[c] = call[c] THEN timer[c]
                               ELSE IF call'[c].state = "waiting" THEN now + CallTimeout ELSE 0]
  BY DEF Stamp
<1>3. lastHeld' = [x \in UserId \X Role |->
                     IF x[2] \in {users[x[1]], users'[x[1]]} THEN now' ELSE lastHeld[x]]
  BY DEF Stamp
<1>4. timer' \in [Call -> 0..(MaxTime + CallTimeout)]
  BY <1>1, <1>2
<1>5. lastHeld' \in [UserId \X Role -> 0..MaxTime]
  BY <1>1, <1>3
<1>6. ASSUME NEW u \in UserId, NEW r \in Role
      PROVE  /\ lastHeld[<<u, r>>] \in Nat /\ lastHeld'[<<u, r>>] \in Nat
             /\ lastHeld[<<u, r>>] <= lastHeld'[<<u, r>>]
             /\ lastHeld'[<<u, r>>] <= now'
             /\ users'[u] = r => lastHeld'[<<u, r>>] = now'
  <2>1. lastHeld'[<<u, r>>] = IF r \in {users[u], users'[u]} THEN now' ELSE lastHeld[<<u, r>>]
    BY <1>3
  <2>2. lastHeld[<<u, r>>] \in 0..MaxTime /\ lastHeld[<<u, r>>] <= now
    BY <1>1 DEF HeldInv
  <2>. QED  BY <1>1, <2>1, <2>2
<1>7. HeldInv'
  BY <1>6 DEF HeldInv
<1>. QED  BY <1>2, <1>4, <1>5, <1>6, <1>7

(* While the clock stands, every new attempt has its full time. *)
LEMMA TimersKept ==
  ASSUME GatewayTypeOK, HeldInv, TimersInv, Stamp, now' = now,
         \A c \in Call : IsWaiting(c)' /\ call'[c] = call[c] => IsWaiting(c)
  PROVE  TimersInv'
<1>1. now \in Nat /\ CallTimeout \in Nat /\ now' \in Time /\ now <= now'
  BY GatewayAssumption DEF GatewayTypeOK, Time
<1>2. ASSUME NEW c \in Call, IsWaiting(c)'
      PROVE  now' <= timer'[c] /\ timer'[c] <= now' + CallTimeout
  <2>1. CASE call'[c] = call[c]
    BY <1>1, <1>2, <2>1, StampStep DEF TimersInv
  <2>2. CASE call'[c] # call[c]
    <3>1. timer'[c] = now + CallTimeout
      BY <1>1, <1>2, <2>2, StampStep DEF IsWaiting
    <3>. QED  BY <1>1, <3>1
  <2>. QED  BY <2>1, <2>2
<1>. QED  BY <1>2 DEF TimersInv

-----------------------------------------------------------------------------
(* What the invariant says of a packet that was sent, and of a token. *)
LEMMA SentPacket ==
  ASSUME GatewayInv, NEW p \in Packet, SentBefore(p)
  PROVE  /\ CallOf(p) \in Call /\ Sent(CallOf(p))
         /\ RequestOf(p) \in Forwarded
         /\ RequestOf(p).user \in UserId
         /\ RequestOf(p).newRole \in Role \cup {Unset}
         /\ RequestOf(p).route \in Route
         /\ RequestOf(p).route = "register" => RequestOf(p).newRole \in Role
<1>1. CallOf(p) \in Call /\ p[2] \in Nat \ {0}
  BY PacketParts
<1>2. Sent(CallOf(p))
  <2>1. call[CallOf(p)].state # "idle" /\ p[2] <= call[CallOf(p)].attempt
    BY DEF SentBefore
  <2>2. call[CallOf(p)].attempt # 0
    BY <1>1, <2>1
  <2>. QED  BY <2>1, <2>2 DEF Sent
<1>3. /\ RequestOf(p) \in Forwarded
      /\ RequestOf(p).route = "register" => RequestOf(p).newRole \in Role
  BY <1>1, <1>2 DEF GatewayInv, RequestsInv, RequestOf
<1>. QED  BY <1>1, <1>2, <1>3 DEF Forwarded

(* An access token has an account, a role and a time. *)
LEMMA TokenParts ==
  ASSUME NEW t \in AccessToken
  PROVE  t.userID \in UserId /\ t.role \in Role /\ t.iat \in Time /\ t.iat \in Nat
BY GatewayAssumption DEF AccessToken, Time

(* The locals of a handler, by its pc. *)
LEMMA LocalParts ==
  ASSUME GatewayTypeOK, NEW p \in Packet
  PROVE  /\ local[p] \in Locals
         /\ local[p].pc \in {"verified", "found"} => local[p].role \in Role
         /\ local[p].pc = "signed" => local[p].token \in AccessToken
<1>1. local[p] \in Locals
  BY DEF GatewayTypeOK
<1>. QED  BY <1>1 DEF Locals, Begun, Verified, Signed, Found

(* A packet whose handler runs, or has performed its operation, was sent. *)
LEMMA ServedIsSent ==
  ASSUME GatewayInv, NEW p \in running \cup performed
  PROVE  p \in Packet /\ SentBefore(p)
BY DEF GatewayInv, RpcInv, RpcTypeOK, PacketsInv

(* A packet that is waited for was sent. *)
LEMMA CurrentIsSent ==
  ASSUME CallTypeOK, NEW p \in Packet, IsCurrent(p)
  PROVE  SentBefore(p)
<1>1. CallOf(p) \in Call /\ p[2] \in Nat /\ p = <<CallOf(p), p[2]>>
  BY PacketParts
<1>. QED  BY <1>1 DEF IsCurrent, IsWaiting, Current, SentBefore

(* Tokens: those a client had are as old as before, a new one is of a login. *)
LEMMA TokensKept ==
  ASSUME GatewayInv, Stamp, now' \in Time, now <= now',
         \A t \in tokens' : \/ t \in tokens
                            \/ t \in AccessToken /\ t.iat <= lastHeld[<<t.userID, t.role>>] + CallTimeout
  PROVE  tokens' \subseteq AccessToken /\ TokensInv'
<1>1. GatewayTypeOK /\ HeldInv /\ TokensInv /\ CallTimeout \in Nat
  BY GatewayAssumption DEF GatewayInv
<1>2. ASSUME NEW t \in tokens'
      PROVE  t \in AccessToken /\ t.iat <= lastHeld'[<<t.userID, t.role>>] + CallTimeout
  <2>1. t \in AccessToken /\ t.iat <= lastHeld[<<t.userID, t.role>>] + CallTimeout
    BY <1>1 DEF GatewayTypeOK, TokensInv
  <2>2. t.userID \in UserId /\ t.role \in Role /\ t.iat \in Nat
    BY <2>1, TokenParts
  <2>3. LET x == <<t.userID, t.role>> IN
        lastHeld[x] \in Nat /\ lastHeld'[x] \in Nat /\ lastHeld[x] <= lastHeld'[x]
    BY <1>1, <2>2, StampStep
  <2>. QED  BY <1>1, <2>1, <2>2, <2>3
<1>. QED  BY <1>2 DEF TokensInv

(* Removals: the packet that removed an account keeps its request. *)
LEMMA RemovedKept ==
  ASSUME GatewayInv, performed \subseteq performed',
         \A c \in Call : http'[c] = http[c] \/ call[c].state = "idle",
         \A u \in UserId : users'[u] = "removed" =>
           \/ users[u] = "removed"
           \/ \E p \in performed' : http'[CallOf(p)].route = "delete" /\ http'[CallOf(p)].user = u
  PROVE  RemovedInv'
<1> SUFFICES ASSUME NEW u \in UserId, users'[u] = "removed"
             PROVE  \E p \in performed' : /\ http'[CallOf(p)].route = "delete"
                                          /\ http'[CallOf(p)].user = u
  BY DEF RemovedInv, RequestOf
<1>1. CASE users[u] = "removed"
  <2>1. PICK p \in performed : RequestOf(p).route = "delete" /\ RequestOf(p).user = u
    BY <1>1 DEF GatewayInv, RemovedInv
  <2>2. CallOf(p) \in Call /\ call[CallOf(p)].state # "idle"
    BY ServedIsSent, SentPacket DEF SentBefore
  <2>. QED  BY <2>1, <2>2 DEF RequestOf
<1>. QED  BY <1>1

(* Locals that do not change keep what is said of them. *)
LEMMA LocalsKept ==
  ASSUME GatewayInv, \A c \in Call : Moves(c),
         \A c \in Call : http'[c] = http[c] \/ call[c].state = "idle",
         local' = local,
         \A p \in performed' : p \in performed \/ http'[CallOf(p)].route # "login",
         Stamp, now' \in Time, now <= now'
  PROVE  LocalsInv' /\ LoginsInv'
<1>1. /\ CallTypeOK /\ GatewayTypeOK /\ HeldInv /\ LocalsInv /\ LoginsInv
      /\ CallTimeout \in Nat /\ now \in Nat /\ now' \in Nat
  BY GatewayAssumption DEF GatewayInv, GatewayTypeOK, RpcTypeOK, CallTypeOK, Time
<1>2. ASSUME NEW p \in Packet  PROVE CallOf(p) \in Call /\ Moves(CallOf(p))
  BY PacketParts
<1>3. ASSUME NEW p \in Packet, SentBefore(p)  PROVE http'[CallOf(p)] = RequestOf(p)
  BY <1>2, <1>3 DEF SentBefore, RequestOf
<1>4. ASSUME NEW p \in Packet
      PROVE  /\ ~SentBefore(p)' => local'[p].pc = "begun"
             /\ local'[p].pc \in {"verified", "signed"} => http'[CallOf(p)].route = "login"
             /\ local'[p].pc = "found" => http'[CallOf(p)].route = "update"
             /\ p \in performed' /\ http'[CallOf(p)].route = "login" => local'[p].pc = "signed"
  <2>1. CASE ~SentBefore(p)
    <3>1. local[p].pc = "begun" /\ p \notin performed
      BY <1>1, <2>1, ServedIsSent DEF LocalsInv
    <3>. QED  BY <3>1
  <2>2. CASE SentBefore(p)
    <3>1. SentBefore(p)' /\ http'[CallOf(p)] = RequestOf(p)
      BY <1>1, <1>2, <1>3, <2>2, SentBeforeStays
    <3>. QED  BY <1>1, <3>1 DEF LocalsInv
  <2>. QED  BY <2>1, <2>2
<1>5. LocalsInv'
  BY <1>4 DEF LocalsInv, RequestOf
<1>6. ASSUME NEW p \in Packet, IsCurrent(p)'
      PROVE  /\ local'[p].pc = "verified" =>
                  timer'[CallOf(p)] <=
                    lastHeld'[<<http'[CallOf(p)].user, local'[p].role>>] + CallTimeout
             /\ local'[p].pc = "signed" =>
                  LET t == local'[p].token IN
                  /\ t.iat <= now'
                  /\ timer'[CallOf(p)] <= lastHeld'[<<t.userID, t.role>>] + CallTimeout
  <2>1. CASE ~SentBefore(p)
    BY <1>1, <2>1 DEF LocalsInv
  <2>2. CASE SentBefore(p)
    <3>1. IsCurrent(p) /\ call'[CallOf(p)] = call[CallOf(p)]
      BY <1>1, <1>2, <1>6, <2>2, CurrentBefore
    <3>2. /\ timer'[CallOf(p)] = timer[CallOf(p)] /\ timer[CallOf(p)] \in Nat
          /\ http'[CallOf(p)] = RequestOf(p) /\ RequestOf(p).user \in UserId
      BY <1>1, <1>2, <1>3, <2>2, <3>1, StampStep, SentPacket DEF GatewayTypeOK
    <3>3. ASSUME local[p].pc = "verified"
          PROVE  timer'[CallOf(p)] <= lastHeld'[<<RequestOf(p).user, local[p].role>>] + CallTimeout
      <4>1. local[p].role \in Role
        BY <1>1, <3>3, LocalParts
      <4>2. LET x == <<RequestOf(p).user, local[p].role>> IN
            lastHeld[x] \in Nat /\ lastHeld'[x] \in Nat /\ lastHeld[x] <= lastHeld'[x]
        BY <1>1, <3>2, <4>1, StampStep
      <4>3. timer[CallOf(p)] <= lastHeld[<<RequestOf(p).user, local[p].role>>] + CallTimeout
        BY <1>1, <3>1, <3>3 DEF LoginsInv
      <4>. QED  BY <1>1, <3>2, <4>2, <4>3
    <3>4. ASSUME local[p].pc = "signed"
          PROVE  LET t == local[p].token IN
                 /\ t.iat <= now'
                 /\ timer'[CallOf(p)] <= lastHeld'[<<t.userID, t.role>>] + CallTimeout
      <4> DEFINE t == local[p].token
      <4>1. t \in AccessToken
        BY <1>1, <3>4, LocalParts
      <4>2. t.userID \in UserId /\ t.role \in Role /\ t.iat \in Nat
        BY <4>1, TokenParts
      <4>3. t.iat <= now /\ timer[CallOf(p)] <= lastHeld[<<t.userID, t.role>>] + CallTimeout
        BY <1>1, <3>1, <3>4 DEF LoginsInv
      <4>. HIDE DEF t
      <4>4. LET x == <<t.userID, t.role>> IN
            lastHeld[x] \in Nat /\ lastHeld'[x] \in Nat /\ lastHeld[x] <= lastHeld'[x]
        BY <1>1, <4>2, StampStep
      <4>5. t.iat <= now' /\ timer'[CallOf(p)] <= lastHeld'[<<t.userID, t.role>>] + CallTimeout
        BY <1>1, <3>2, <4>2, <4>3, <4>4
      <4>. QED  BY <4>5 DEF t
    <3>. QED  BY <3>2, <3>3, <3>4
  <2>. QED  BY <2>1, <2>2
<1>7. LoginsInv'
  BY <1>6 DEF LoginsInv, RequestOf
<1>. QED  BY <1>5, <1>7

-----------------------------------------------------------------------------
(* The steps, one kind at a time. *)
LEMMA QuietKeepsInv ==
  ASSUME GatewayInv, Quiet, Stamp, RpcInv'
  PROVE  GatewayInv'
<1>1. /\ CallTypeOK /\ GatewayTypeOK /\ HeldInv /\ TimersInv /\ RequestsInv
      /\ now' = now /\ http' = http /\ users' = users /\ tokens' = tokens /\ local' = local
      /\ now \in Time /\ now \in Nat /\ CallTimeout \in Nat
      /\ \A c \in Call : Moves(c) /\ ~Begins(c)
  BY GatewayAssumption DEF GatewayInv, GatewayTypeOK, RpcTypeOK, CallTypeOK, Quiet, gwVars, Time
<1>2. now' \in Time /\ now <= now'
  BY <1>1
<1>3. GatewayTypeOK' /\ HeldInv'
  BY <1>1, <1>2, StampStep DEF GatewayTypeOK, RpcInv
<1>4. TimersInv'
  BY <1>1, TimersKept DEF IsWaiting
<1>5. RequestsInv'
  <2>1. \A c \in Call : Sent(c)' => Sent(c)
    BY <1>1, SentStays
  <2>. QED  BY <1>1, <2>1 DEF RequestsInv
<1>6. LocalsInv' /\ LoginsInv'
  BY <1>1, <1>2, LocalsKept DEF Quiet, RequestOf
<1>7. TokensInv'
  BY <1>1, <1>2, TokensKept
<1>8. RemovedInv'
  BY <1>1, RemovedKept DEF Quiet
<1>. QED  BY <1>3, <1>4, <1>5, <1>6, <1>7, <1>8 DEF GatewayInv

(* A forwarded request: a new timer, and no locals yet. *)
LEMMA ForwardKeepsInv ==
  ASSUME GatewayInv, NEW c \in Call, Send(c), NEW h \in Forwarded,
         h.route = "register" => h.newRole \in Role,
         http' = [http EXCEPT ![c] = h],
         UNCHANGED <<users, tokens, local, now>>, Stamp, RpcInv'
  PROVE  GatewayInv'
<1>1. /\ CallTypeOK /\ GatewayTypeOK /\ HeldInv /\ TimersInv /\ RequestsInv
      /\ now' = now /\ users' = users /\ tokens' = tokens /\ local' = local
      /\ performed' = performed
      /\ now \in Time /\ now \in Nat /\ CallTimeout \in Nat
  BY GatewayAssumption DEF GatewayInv, GatewayTypeOK, RpcTypeOK, CallTypeOK, Send, Time
<1>2. now' \in Time /\ now <= now'
  BY <1>1
<1>3. /\ \A x \in Call : Moves(x)
      /\ \A x \in Call \ {c} : call'[x] = call[x]
      /\ Begins(c)
  BY <1>1, SendMoves
<1>4. /\ http'[c] = h /\ \A x \in Call \ {c} : http'[x] = http[x]
      /\ http' \in [Call -> Forwarded \cup NoRequest]
      /\ \A x \in Call : http'[x] = http[x] \/ call[x].state = "idle"
  BY <1>1, <1>3 DEF GatewayTypeOK, Begins
<1>5. GatewayTypeOK' /\ HeldInv'
  BY <1>1, <1>2, <1>4, StampStep DEF GatewayTypeOK, RpcInv
<1>6. TimersInv'
  BY <1>1, TimersKept DEF IsWaiting
<1>7. RequestsInv'
  <2>1. ASSUME NEW x \in Call, Sent(x)'
        PROVE  http'[x] \in Forwarded /\ (http'[x].route = "register" => http'[x].newRole \in Role)
    <3>1. CASE x = c
      BY <1>4, <3>1
    <3>2. CASE x # c
      <4>1. Sent(x)
        BY <1>1, <1>3, <2>1, <3>2, SentStays DEF Begins
      <4>. QED  BY <1>1, <1>4, <3>2, <4>1 DEF RequestsInv
    <3>. QED  BY <3>1, <3>2
  <2>. QED  BY <2>1 DEF RequestsInv
<1>8. LocalsInv' /\ LoginsInv'
  BY <1>1, <1>2, <1>3, <1>4, LocalsKept
<1>9. TokensInv'
  BY <1>1, <1>2, TokensKept
<1>10. RemovedInv'
  BY <1>1, <1>4, RemovedKept
<1>. QED  BY <1>5, <1>6, <1>7, <1>8, <1>9, <1>10 DEF GatewayInv

(* A login that is answered was signed, and its attempt is current: the role of the new token
   was held while the call waited. *)
LEMMA ReceivesKeepsInv ==
  ASSUME GatewayInv, NEW p \in Packet, NEW status \in RpcStatus, Receives(p, status), Stamp, RpcInv'
  PROVE  GatewayInv'
<1> DEFINE a == [packet |-> p, status |-> status]
<1>1. /\ CallTypeOK /\ GatewayTypeOK /\ RpcInv /\ HeldInv /\ TimersInv /\ RequestsInv
      /\ now' = now /\ users' = users /\ http' = http /\ local' = local
      /\ performed' = performed
      /\ now \in Time /\ now \in Nat /\ CallTimeout \in Nat
  BY GatewayAssumption
     DEF GatewayInv, GatewayTypeOK, RpcTypeOK, CallTypeOK, Receives, Deliver, Time
<1>2. now' \in Time /\ now <= now'
  BY <1>1
<1>3. Deliver(p, status) /\ a \in answers /\ p \in routingMap
  BY DEF Receives, Deliver, HasCallback
<1>4. \A x \in Call : Moves(x) /\ (~IsWaiting(x) => call'[x] = call[x])
  BY <1>1, <1>3, DeliverMoves
<1>5. \A x \in Call : ~Begins(x)
  BY <1>4 DEF Begins, IsWaiting
<1>6. ASSUME NEW t \in tokens'
      PROVE  \/ t \in tokens
             \/ t \in AccessToken /\ t.iat <= lastHeld[<<t.userID, t.role>>] + CallTimeout
  <2>1. CASE t \in tokens
    BY <2>1
  <2>2. CASE t \notin tokens
    <3>1. RequestOf(p).route = "login" /\ status = 200 /\ t = local[p].token
      BY <1>6, <2>2 DEF Receives
    <3>2. p \in performed
      <4>1. a.status = 200 /\ a.packet = p
        BY <3>1
      <4>. QED  BY <1>1, <1>3, <4>1 DEF RpcInv, AnswersInv
    <3>3. local[p].pc = "signed"
      BY <3>1, <3>2 DEF GatewayInv, LocalsInv
    <3>4. t \in AccessToken
      BY <1>1, <3>1, <3>3, LocalParts
    <3>5. IsCurrent(p) /\ CallOf(p) \in Call
      BY <1>1, <1>3, AnswerIsCurrent DEF IsCurrent
    <3>6. t.iat <= now /\ timer[CallOf(p)] <= lastHeld[<<t.userID, t.role>>] + CallTimeout
      BY <3>1, <3>3, <3>5 DEF GatewayInv, LoginsInv
    <3>7. now <= timer[CallOf(p)]
      BY <1>1, <3>5 DEF TimersInv, IsCurrent
    <3>8. t.iat \in Nat /\ timer[CallOf(p)] \in Nat /\ lastHeld[<<t.userID, t.role>>] \in Nat
      BY <1>1, <3>4, <3>5, TokenParts, GatewayAssumption DEF GatewayTypeOK
    <3>. QED  BY <1>1, <3>4, <3>6, <3>7, <3>8
  <2>. QED  BY <2>1, <2>2
<1>7. tokens' \subseteq AccessToken /\ TokensInv'
  BY <1>1, <1>2, <1>6, TokensKept
<1>8. GatewayTypeOK' /\ HeldInv'
  BY <1>1, <1>2, <1>7, StampStep DEF GatewayTypeOK, RpcInv
<1>9. TimersInv'
  BY <1>1, TimersKept DEF IsWaiting
<1>10. RequestsInv'
  <2>1. \A x \in Call : Sent(x)' => Sent(x)
    BY <1>1, <1>4, <1>5, SentStays
  <2>. QED  BY <1>1, <2>1 DEF RequestsInv
<1>11. LocalsInv' /\ LoginsInv'
  BY <1>1, <1>2, <1>4, LocalsKept
<1>12. RemovedInv'
  BY <1>1, RemovedKept
<1>. QED  BY <1>7, <1>8, <1>9, <1>10, <1>11, <1>12 DEF GatewayInv

(* The clock: no timer is overdue when it moves. *)
LEMMA TickKeepsInv ==
  ASSUME GatewayInv, Tick, Stamp, RpcInv'
  PROVE  GatewayInv'
<1>1. /\ CallTypeOK /\ GatewayTypeOK /\ HeldInv /\ TimersInv /\ RequestsInv
      /\ now' = now + 1 /\ users' = users /\ http' = http /\ tokens' = tokens /\ local' = local
      /\ call' = call /\ performed' = performed
      /\ now \in Time /\ now \in Nat /\ CallTimeout \in Nat
      /\ now < MaxTime /\ MaxTime \in Nat
      /\ \A c \in Call : IsWaiting(c) => ~Overdue(c)
  BY GatewayAssumption
     DEF GatewayInv, GatewayTypeOK, RpcTypeOK, CallTypeOK, Tick, rpcVars, Time
<1>2. now' \in Time /\ now <= now'
  BY <1>1 DEF Time
<1>3. GatewayTypeOK' /\ HeldInv'
  BY <1>1, <1>2, StampStep DEF GatewayTypeOK, RpcInv
<1>4. TimersInv'
  <2>1. ASSUME NEW c \in Call, IsWaiting(c)
        PROVE  now' <= timer'[c] /\ timer'[c] <= now' + CallTimeout
    <3>1. timer'[c] = timer[c] /\ timer[c] \in Nat
      BY <1>1, <1>2, StampStep, GatewayAssumption DEF GatewayTypeOK
    <3>. QED  BY <1>1, <2>1, <3>1 DEF TimersInv, Overdue
  <2>. QED  BY <1>1, <2>1 DEF TimersInv, IsWaiting
<1>5. RequestsInv'
  BY <1>1 DEF RequestsInv, Sent
<1>6. LocalsInv' /\ LoginsInv'
  BY <1>1, <1>2, LocalsKept DEF Moves
<1>7. TokensInv'
  BY <1>1, <1>2, TokensKept
<1>8. RemovedInv'
  BY <1>1, RemovedKept
<1>. QED  BY <1>3, <1>4, <1>5, <1>6, <1>7, <1>8 DEF GatewayInv

(* A handler goes on: its locals, and what it performs. *)
LoginHolds(q, l) ==
  /\ l.pc = "verified" =>
       timer[CallOf(q)] <= lastHeld[<<RequestOf(q).user, l.role>>] + CallTimeout
  /\ l.pc = "signed" =>
       /\ l.token.iat <= now
       /\ timer[CallOf(q)] <= lastHeld[<<l.token.userID, l.token.role>>] + CallTimeout

(* A step of a handler, given what its locals and the accounts are afterwards. *)
LEMMA HandlerKeepsInv ==
  ASSUME GatewayInv, NEW q \in running, NEW l \in Locals, Stamp, RpcInv',
         UNCHANGED <<call, http, tokens, now>>,
         local' = [local EXCEPT ![q] = l],
         performed \subseteq performed', performed' \subseteq performed \cup {q},
         users' \in [UserId -> Role \cup {"absent", "removed"}],
         l.pc \in {"verified", "signed"} => RequestOf(q).route = "login",
         l.pc = "found" => RequestOf(q).route = "update",
         q \in performed' /\ RequestOf(q).route = "login" => l.pc = "signed",
         IsCurrent(q) => LoginHolds(q, l),
         \A u \in UserId : users'[u] = "removed" =>
           \/ users[u] = "removed"
           \/ q \in performed' /\ RequestOf(q).route = "delete" /\ RequestOf(q).user = u
  PROVE  GatewayInv'
<1>1. /\ CallTypeOK /\ GatewayTypeOK /\ HeldInv /\ TimersInv /\ RequestsInv /\ LocalsInv /\ LoginsInv
      /\ now' = now /\ http' = http /\ tokens' = tokens /\ call' = call
      /\ now \in Time /\ now \in Nat /\ CallTimeout \in Nat
  BY GatewayAssumption DEF GatewayInv, GatewayTypeOK, RpcTypeOK, CallTypeOK, Time
<1>2. now' \in Time /\ now <= now'
  BY <1>1
<1>3. q \in Packet /\ SentBefore(q)
  BY ServedIsSent
<1>4. /\ local'[q] = l /\ \A p \in Packet \ {q} : local'[p] = local[p]
      /\ local' \in [Packet -> Locals]
  BY <1>1, <1>3 DEF GatewayTypeOK
<1>5. GatewayTypeOK' /\ HeldInv'
  BY <1>1, <1>2, <1>4, StampStep DEF GatewayTypeOK, RpcInv
<1>6. TimersInv'
  BY <1>1, TimersKept DEF IsWaiting
<1>7. RequestsInv'
  BY <1>1 DEF RequestsInv, Sent
<1>8. LocalsInv'
  <2>1. ASSUME NEW p \in Packet
        PROVE  /\ ~SentBefore(p) => local'[p].pc = "begun"
               /\ local'[p].pc \in {"verified", "signed"} => RequestOf(p).route = "login"
               /\ local'[p].pc = "found" => RequestOf(p).route = "update"
               /\ p \in performed' /\ RequestOf(p).route = "login" => local'[p].pc = "signed"
    <3>1. CASE p = q
      BY <1>3, <1>4, <3>1
    <3>2. CASE p # q
      BY <1>1, <1>4, <3>2 DEF LocalsInv
    <3>. QED  BY <3>1, <3>2
  <2>. QED  BY <1>1, <2>1 DEF LocalsInv, SentBefore, RequestOf
<1>9. LoginsInv'
  <2>1. ASSUME NEW p \in Packet, IsCurrent(p)
        PROVE  LoginHolds(p, local'[p])
    <3>1. CASE p = q
      BY <1>4, <2>1, <3>1
    <3>2. CASE p # q
      <4>1. local'[p] = local[p]
        BY <1>4, <3>2
      <4>. QED  BY <1>1, <2>1, <4>1 DEF LoginsInv, LoginHolds
    <3>. QED  BY <3>1, <3>2
  <2>2. ASSUME NEW p \in Packet, IsCurrent(p)
        PROVE  /\ local'[p].pc = "verified" =>
                    timer'[CallOf(p)] <=
                      lastHeld'[<<http[CallOf(p)].user, local'[p].role>>] + CallTimeout
               /\ local'[p].pc = "signed" =>
                    LET t == local'[p].token IN
                    /\ t.iat <= now
                    /\ timer'[CallOf(p)] <= lastHeld'[<<t.userID, t.role>>] + CallTimeout
    <3>1. CallOf(p) \in Call /\ SentBefore(p) /\ RequestOf(p).user \in UserId
      BY <1>1, <2>2, PacketParts, CurrentIsSent, SentPacket
    <3>2. timer'[CallOf(p)] = timer[CallOf(p)] /\ timer[CallOf(p)] \in Nat
      BY <1>1, <1>2, <3>1, StampStep DEF GatewayTypeOK
    <3>3. LoginHolds(p, local'[p])
      BY <2>1, <2>2
    <3>4. local'[p] \in Locals
      BY <1>4
    <3>5. ASSUME local'[p].pc = "verified"
          PROVE  timer'[CallOf(p)] <=
                   lastHeld'[<<RequestOf(p).user, local'[p].role>>] + CallTimeout
      <4>1. local'[p].role \in Role
        BY <3>4, <3>5 DEF Locals, Begun, Verified, Signed, Found
      <4>2. LET x == <<RequestOf(p).user, local'[p].role>> IN
            lastHeld[x] \in Nat /\ lastHeld'[x] \in Nat /\ lastHeld[x] <= lastHeld'[x]
        BY <1>1, <1>2, <3>1, <4>1, StampStep
      <4>3. timer[CallOf(p)] <= lastHeld[<<RequestOf(p).user, local'[p].role>>] + CallTimeout
        BY <3>3, <3>5 DEF LoginHolds
      <4>. QED  BY <1>1, <3>2, <4>2, <4>3
    <3>6. ASSUME local'[p].pc = "signed"
          PROVE  LET t == local'[p].token IN
                 /\ t.iat <= now
                 /\ timer'[CallOf(p)] <= lastHeld'[<<t.userID, t.role>>] + CallTimeout
      <4> DEFINE t == local'[p].token
      <4>1. t \in AccessToken
        BY <3>4, <3>6 DEF Locals, Begun, Verified, Signed, Found
      <4>2. t.userID \in UserId /\ t.role \in Role /\ t.iat \in Nat
        BY <4>1, TokenParts
      <4>3. t.iat <= now /\ timer[CallOf(p)] <= lastHeld[<<t.userID, t.role>>] + CallTimeout
        BY <3>3, <3>6 DEF LoginHolds
      <4>. HIDE DEF t
      <4>4. LET x == <<t.userID, t.role>> IN
            lastHeld[x] \in Nat /\ lastHeld'[x] \in Nat /\ lastHeld[x] <= lastHeld'[x]
        BY <1>1, <1>2, <4>2, StampStep
      <4>5. t.iat <= now /\ timer'[CallOf(p)] <= lastHeld'[<<t.userID, t.role>>] + CallTimeout
        BY <1>1, <3>2, <4>3, <4>4
      <4>. QED  BY <4>5 DEF t
    <3>. QED  BY <3>5, <3>6 DEF RequestOf
  <2>. QED  BY <1>1, <2>2 DEF LoginsInv, RequestOf, IsCurrent, IsWaiting, Current
<1>10. TokensInv'
  BY <1>1, <1>2, TokensKept
<1>11. RemovedInv'
  <2>1. ASSUME NEW u \in UserId, users'[u] = "removed"
        PROVE  \/ users[u] = "removed"
               \/ \E p \in performed' : http'[CallOf(p)].route = "delete" /\ http'[CallOf(p)].user = u
    BY <1>1, <2>1 DEF RequestOf
  <2>. QED  BY <1>1, <2>1, RemovedKept
<1>. QED  BY <1>5, <1>6, <1>7, <1>8, <1>9, <1>10, <1>11 DEF GatewayInv

(* Steps of handlers that change an account. *)
LEMMA AccountStepKeepsInv ==
  ASSUME GatewayInv, NEW q \in Packet, AccountStep(q), Stamp, RpcInv'
  PROVE  GatewayInv'
<1> DEFINE h == RequestOf(q)
           u == h.user
<1>1. /\ GatewayTypeOK /\ HeldInv /\ TimersInv /\ LocalsInv /\ LoginsInv
      /\ now \in Time /\ now \in Nat /\ CallTimeout \in Nat /\ Unset \notin Role
  BY GatewayAssumption DEF GatewayInv, GatewayTypeOK, Time
<1>2. q \in running /\ UNCHANGED <<call, http, tokens, now>>
  BY DEF AccountStep, Register, LoginVerify, LoginSign, UpdateFind, UpdateSave, Delete,
         IsBegun, Perform, rpcVars
<1>3. /\ SentBefore(q) /\ u \in UserId /\ h.newRole \in Role \cup {Unset}
      /\ h.route = "register" => h.newRole \in Role
  BY <1>2, ServedIsSent, SentPacket
<1>4. local[q] \in Locals /\ local = [local EXCEPT ![q] = local[q]]
  BY <1>1 DEF GatewayTypeOK
<1>5. IsCurrent(q) => LoginHolds(q, local[q])
  BY <1>1 DEF LoginsInv, LoginHolds
<1>6. ASSUME local' = local, performed' = performed \cup {q}, h.route # "login",
             users' \in [UserId -> Role \cup {"absent", "removed"}],
             \A x \in UserId : users'[x] = "removed" =>
                                 users[x] = "removed" \/ (h.route = "delete" /\ u = x)
      PROVE  GatewayInv'
  <2>1. local' = [local EXCEPT ![q] = local[q]]
    BY <1>4, <1>6
  <2>2. /\ local[q].pc \in {"verified", "signed"} => h.route = "login"
        /\ local[q].pc = "found" => h.route = "update"
    BY <1>1 DEF LocalsInv
  <2>. QED  BY <1>2, <1>4, <1>5, <1>6, <2>1, <2>2, HandlerKeepsInv
<1>7. CASE Register(q)
  <2>1. h.route = "register" /\ performed' = performed \cup {q} /\ local' = local
        /\ users' = [users EXCEPT ![u] = h.newRole]
    BY <1>7 DEF Register, IsBegun, Perform
  <2>2. users' \in [UserId -> Role \cup {"absent", "removed"}]
    BY <1>1, <1>3, <2>1 DEF GatewayTypeOK
  <2>3. \A x \in UserId : users'[x] = "removed" => users[x] = "removed"
    <3>1. h.newRole # "removed"
      BY <1>3, <2>1 DEF Role
    <3>. QED  BY <1>1, <1>3, <2>1, <3>1 DEF GatewayTypeOK
  <2>. QED  BY <1>6, <2>1, <2>2, <2>3
<1>8. CASE UpdateSave(q)
  <2>1. /\ local[q].pc = "found" /\ Exists(u)
        /\ performed' = performed \cup {q} /\ local' = local
        /\ users' = [users EXCEPT ![u] = IF h.newRole \in {Unset, local[q].role} THEN @ ELSE h.newRole]
    BY <1>8 DEF UpdateSave, Perform
  <2>2. h.route = "update"
    BY <1>1, <2>1 DEF LocalsInv
  <2>3. users'[u] \in Role /\ \A x \in UserId \ {u} : users'[x] = users[x]
    BY <1>1, <1>3, <2>1 DEF GatewayTypeOK, Exists
  <2>4. users' \in [UserId -> Role \cup {"absent", "removed"}]
    BY <1>1, <1>3, <2>1 DEF GatewayTypeOK
  <2>5. \A x \in UserId : users'[x] = "removed" => users[x] = "removed"
    BY <2>3 DEF Role
  <2>. QED  BY <1>6, <2>1, <2>2, <2>4, <2>5
<1>9. CASE Delete(q)
  <2>1. h.route = "delete" /\ performed' = performed \cup {q} /\ local' = local
        /\ users' = [users EXCEPT ![u] = "removed"]
    BY <1>9 DEF Delete, IsBegun, Perform
  <2>2. users' \in [UserId -> Role \cup {"absent", "removed"}]
    BY <1>1, <1>3, <2>1 DEF GatewayTypeOK
  <2>3. \A x \in UserId : users'[x] = "removed" => users[x] = "removed" \/ u = x
    BY <1>1, <1>3, <2>1 DEF GatewayTypeOK
  <2>. QED  BY <1>6, <2>1, <2>2, <2>3
<1>10. CASE LoginVerify(q)
  <2> DEFINE l == [pc |-> "verified", role |-> users[u]]
  <2>1. /\ h.route = "login" /\ local[q].pc = "begun" /\ users[u] \in Role
        /\ local' = [local EXCEPT ![q] = l]
        /\ performed' = performed /\ users' = users
    BY <1>10 DEF LoginVerify, IsBegun, Exists, rpcVars
  <2>2. l \in Locals /\ l.pc = "verified" /\ l.role = users[u]
    BY <2>1 DEF Locals, Verified
  <2>3. IsCurrent(q) => timer[CallOf(q)] <= lastHeld[<<u, l.role>>] + CallTimeout
    <3>1. lastHeld[<<u, users[u]>>] = now
      BY <1>1, <1>3, <2>1 DEF HeldInv
    <3>2. IsCurrent(q) => timer[CallOf(q)] <= now + CallTimeout
      BY <1>1, PacketParts DEF IsCurrent, TimersInv
    <3>. QED  BY <3>1, <3>2
  <2>. HIDE DEF l
  <2>4. IsCurrent(q) => LoginHolds(q, l)
    BY <2>2, <2>3 DEF LoginHolds
  <2>5. q \notin performed
    BY <1>1, <2>1 DEF LocalsInv
  <2>6. users' \in [UserId -> Role \cup {"absent", "removed"}]
    BY <1>1, <2>1 DEF GatewayTypeOK
  <2>. QED  BY <1>2, <2>1, <2>2, <2>4, <2>5, <2>6, HandlerKeepsInv
<1>11. CASE LoginSign(q)
  <2> DEFINE t == [userID |-> u, role |-> local[q].role, iat |-> now]
             l == [pc |-> "signed", token |-> t]
  <2>1. /\ local[q].pc = "verified"
        /\ local' = [local EXCEPT ![q] = l]
        /\ performed' = performed \cup {q} /\ users' = users
    BY <1>11 DEF LoginSign, Perform
  <2>2. h.route = "login" /\ local[q].role \in Role
    BY <1>1, <2>1, LocalParts DEF LocalsInv
  <2>3. t \in AccessToken /\ t.iat = now /\ t.userID = u /\ t.role = local[q].role
    BY <1>1, <1>3, <2>2 DEF AccessToken
  <2>4. IsCurrent(q) => timer[CallOf(q)] <= lastHeld[<<t.userID, t.role>>] + CallTimeout
    BY <1>1, <2>1, <2>3 DEF LoginsInv
  <2>. HIDE DEF t
  <2>5. l \in Locals /\ l.pc = "signed" /\ l.token = t
    BY <2>3 DEF Locals, Signed
  <2>. HIDE DEF l
  <2>6. IsCurrent(q) => LoginHolds(q, l)
    BY <1>1, <2>3, <2>4, <2>5 DEF LoginHolds
  <2>7. users' \in [UserId -> Role \cup {"absent", "removed"}]
    BY <1>1, <2>1 DEF GatewayTypeOK
  <2>. QED  BY <1>2, <2>1, <2>2, <2>5, <2>6, <2>7, HandlerKeepsInv
<1>12. CASE UpdateFind(q)
  <2> DEFINE l == [pc |-> "found", role |-> users[u]]
  <2>1. /\ h.route = "update" /\ users[u] \in Role
        /\ local' = [local EXCEPT ![q] = l]
        /\ performed' = performed /\ users' = users
    BY <1>12 DEF UpdateFind, IsBegun, Exists, rpcVars
  <2>2. l \in Locals /\ l.pc = "found"
    BY <2>1 DEF Locals, Found
  <2>. HIDE DEF l
  <2>3. LoginHolds(q, l)
    BY <2>2 DEF LoginHolds
  <2>4. users' \in [UserId -> Role \cup {"absent", "removed"}]
    BY <1>1, <2>1 DEF GatewayTypeOK
  <2>. QED  BY <1>2, <2>1, <2>2, <2>3, <2>4, HandlerKeepsInv
<1>. QED  BY <1>7, <1>8, <1>9, <1>10, <1>11, <1>12 DEF AccountStep

-----------------------------------------------------------------------------
(* The invariant is inductive. *)
LEMMA ForwardTypes ==
  ASSUME GatewayTypeOK, NEW c \in Call, ForwardPublic(c) \/ ForwardAuthenticated(c)
  PROVE  \E h \in Forwarded : /\ h.route = "register" => h.newRole \in Role
                              /\ http' = [http EXCEPT ![c] = h]
<1>1. CASE ForwardPublic(c)
  <2>1. PICK route \in RouteInUse \cap PublicRoute, u \in UserId, role \in RoleInUse :
          http' = [http EXCEPT ![c] = [route |-> route, user |-> u,
                                       newRole |-> IF route = "register" THEN role ELSE Unset]]
    BY <1>1 DEF ForwardPublic
  <2> DEFINE h == [route |-> route, user |-> u,
                   newRole |-> IF route = "register" THEN role ELSE Unset]
  <2>2. route \in Route /\ role \in Role
    BY GatewayAssumption
  <2>3. h \in Forwarded
    BY <2>2 DEF Forwarded
  <2>4. h.route = "register" => h.newRole \in Role
    BY <2>2
  <2>. QED  BY <2>1, <2>3, <2>4
<1>2. CASE ForwardAuthenticated(c)
  <2>1. PICK route \in RouteInUse \ PublicRoute, t \in tokens, role \in RoleInUse \cup {Unset} :
          http' = [http EXCEPT ![c] = [route |-> route, user |-> t.userID,
                                       newRole |-> IF route = "update" THEN role ELSE Unset]]
    BY <1>2 DEF ForwardAuthenticated
  <2> DEFINE h == [route |-> route, user |-> t.userID,
                   newRole |-> IF route = "update" THEN role ELSE Unset]
  <2>2. route \in Route /\ role \in Role \cup {Unset} /\ route # "register"
    BY GatewayAssumption DEF PublicRoute
  <2>3. t.userID \in UserId
    BY TokenParts DEF GatewayTypeOK
  <2>4. h \in Forwarded
    BY <2>2, <2>3 DEF Forwarded
  <2>5. h.route # "register"
    BY <2>2
  <2>. QED  BY <2>1, <2>4, <2>5
<1>. QED  BY <1>1, <1>2

(* The accounts that exist at first are held at first. *)
LEMMA GatewayInvInit == Init => GatewayInv
<1> SUFFICES ASSUME Init  PROVE GatewayInv
  OBVIOUS
<1>1. /\ now = 1 /\ 1 \in Time /\ MaxTime \in Nat \ {0} /\ CallTimeout \in Nat
      /\ RoleInUse \subseteq Role
  BY GatewayAssumption DEF Init, Time
<1>2. RpcInv /\ RpcTypeOK
  BY RpcInvInit DEF Init, RpcInv
<1>3. /\ call = [c \in Call |-> [state |-> "idle"]] /\ performed = {}
      /\ http = [c \in Call |-> [route |-> "none"]]
      /\ users \in [UserId -> RoleInUse \cup {"absent"}]
      /\ tokens = {t \in AccessToken : users[t.userID] = t.role /\ t.iat = now}
      /\ local = [p \in Packet |-> [pc |-> "begun"]]
      /\ timer = [c \in Call |-> 0]
      /\ lastHeld = [x \in UserId \X Role |-> IF users[x[1]] = x[2] THEN 1 ELSE 0]
  BY DEF Init, RpcInit
<1>4. GatewayTypeOK
  <2>1. http \in [Call -> Forwarded \cup NoRequest]
    BY <1>3 DEF NoRequest
  <2>2. users \in [UserId -> Role \cup {"absent", "removed"}]
    BY <1>1, <1>3
  <2>3. local \in [Packet -> Locals]
    BY <1>3 DEF Locals, Begun
  <2>4. timer \in [Call -> 0..(MaxTime + CallTimeout)]
    BY <1>1, <1>3
  <2>5. lastHeld \in [UserId \X Role -> 0..MaxTime]
    BY <1>1, <1>3
  <2>6. tokens \subseteq AccessToken /\ now \in Time
    BY <1>1, <1>3
  <2>. QED  BY <1>2, <2>1, <2>2, <2>3, <2>4, <2>5, <2>6 DEF GatewayTypeOK
<1>5. \A c \in Call : ~Sent(c) /\ ~IsWaiting(c)
  BY <1>3 DEF Sent, IsWaiting
<1>6. RequestsInv /\ TimersInv
  BY <1>5 DEF RequestsInv, TimersInv
<1>7. HeldInv
  BY <1>1, <1>3 DEF HeldInv
<1>8. LocalsInv /\ LoginsInv
  BY <1>3 DEF LocalsInv, LoginsInv
<1>9. TokensInv
  <2>1. ASSUME NEW t \in tokens  PROVE t.iat <= lastHeld[<<t.userID, t.role>>] + CallTimeout
    <3>1. t.userID \in UserId /\ t.role \in Role /\ users[t.userID] = t.role /\ t.iat = 1
      BY <1>1, <1>3, TokenParts
    <3>2. lastHeld[<<t.userID, t.role>>] = 1
      BY <1>3, <3>1
    <3>. QED  BY <1>1, <3>1, <3>2
  <2>. QED  BY <2>1 DEF TokensInv
<1>10. RemovedInv
  BY <1>1, <1>3 DEF RemovedInv, Role
<1>. QED  BY <1>2, <1>4, <1>6, <1>7, <1>8, <1>9, <1>10 DEF GatewayInv

(* The invariant is inductive. *)
LEMMA GatewayInvStep == GatewayInv /\ [Next]_vars => GatewayInv'
<1> SUFFICES ASSUME GatewayInv, [Next]_vars  PROVE GatewayInv'
  OBVIOUS
<1>0. RpcInv /\ GatewayTypeOK
  BY DEF GatewayInv
<1>1. CASE Next
  <2>1. Step /\ Stamp
    BY <1>1 DEF Next
  <2>2. RpcInv'
    BY <1>0, <2>1, StepIsRpc, RpcInvStep
  <2>3. CASE QuietStep
    BY <1>0, <2>1, <2>2, <2>3, QuietSteps, QuietKeepsInv
  <2>4. ASSUME NEW c \in Call, ForwardPublic(c) \/ ForwardAuthenticated(c)  PROVE GatewayInv'
    <3>1. Send(c) /\ UNCHANGED <<users, tokens, local, now>>
      BY <2>4 DEF ForwardPublic, ForwardAuthenticated
    <3>2. PICK h \in Forwarded : /\ h.route = "register" => h.newRole \in Role
                                 /\ http' = [http EXCEPT ![c] = h]
      BY <1>0, <2>4, ForwardTypes
    <3>. QED  BY <2>1, <2>2, <3>1, <3>2, ForwardKeepsInv
  <2>5. ASSUME NEW p \in Packet, AccountStep(p)  PROVE GatewayInv'
    BY <2>1, <2>2, <2>5, AccountStepKeepsInv
  <2>6. ASSUME NEW p \in Packet, NEW status \in RpcStatus, Receives(p, status)  PROVE GatewayInv'
    BY <2>1, <2>2, <2>6, ReceivesKeepsInv
  <2>7. CASE Tick
    BY <2>1, <2>2, <2>7, TickKeepsInv
  <2>. QED  BY <2>1, <2>3, <2>4, <2>5, <2>6, <2>7, StepKinds
<1>2. CASE UNCHANGED vars
  BY <1>2 DEF vars, rpcVars, gwVars, GatewayInv, GatewayTypeOK, RpcInv, RpcTypeOK,
              RoutingMatchesCalls, PacketsInv, AnswersInv, DefiniteAnswer, RequestsInv, TimersInv,
              HeldInv, LocalsInv, LoginsInv, TokensInv, RemovedInv, IsWaiting, Current, SentBefore,
              Sent, IsCurrent, RequestOf
<1>. QED  BY <1>1, <1>2

(* The invariant of the gateway, the proxies and the accounts holds throughout
   (role.guard.ts, client-proxy.provider.ts): in particular a login that may still be answered
   read a role that was held while the call waited. *)
THEOREM GatewayInvariant == Spec => []GatewayInv
<1>. QED  BY GatewayInvInit, GatewayInvStep, PTL DEF Spec

(* Type correctness of the gateway (auth-proxy.controller.ts, event-proxy.controller.ts): an
   account that exists always has a role. *)
THEOREM GatewayTypeCorrect == Spec => []GatewayTypeOK
<1>1. GatewayInv => GatewayTypeOK
  BY DEF GatewayInv
<1>. QED  BY <1>1, GatewayInvariant, PTL

(* Whoever is let through with a token had its role less than AccessTTL + CallTimeout seconds
   before (role.guard.ts:44): the lifetime of a token and the timeout of a call bound how long
   a role works that was taken away. *)
THEOREM StalenessIsBounded == Spec => []BoundedStaleness
<1>1. GatewayInv => BoundedStaleness
  <2> SUFFICES ASSUME GatewayInv, NEW t \in tokens, NEW route \in Route, LetThrough(t, route)
               PROVE  now < lastHeld[<<t.userID, t.role>>] + AccessTTL + CallTimeout
    BY DEF BoundedStaleness
  <2>1. t.userID \in UserId /\ t.role \in Role /\ t.iat \in Nat
    BY TokenParts DEF GatewayInv, GatewayTypeOK
  <2>2. /\ lastHeld[<<t.userID, t.role>>] \in Nat /\ now \in Nat
        /\ AccessTTL \in Nat /\ CallTimeout \in Nat
    BY <2>1, GatewayAssumption DEF GatewayInv, GatewayTypeOK, Time
  <2>3. t.iat <= lastHeld[<<t.userID, t.role>>] + CallTimeout
    BY DEF GatewayInv, TokensInv
  <2>4. ~(now >= t.iat + AccessTTL)
    BY DEF LetThrough, Expired
  <2>. QED  BY <2>1, <2>2, <2>3, <2>4
<1>. QED  BY <1>1, GatewayInvariant, PTL

-----------------------------------------------------------------------------
(* Without retries a call has one packet. *)
LEMMA OnePacket ==
  ASSUME GatewayInv, RetryCount = 0, NEW p \in Packet, SentBefore(p)
  PROVE  /\ CallOf(p) \in Call /\ p = Current(CallOf(p))
         /\ call[CallOf(p)].state = "done" =>
              /\ call[CallOf(p)].attempt # 0
              /\ call[CallOf(p)].status \in {200, 400, 500} \cup Refusal
<1> DEFINE c == CallOf(p)
<1>1. c \in Call /\ p = <<c, p[2]>> /\ p[2] \in 1..1 /\ CallTypeOK
  BY PacketParts DEF Attempt, GatewayInv, RpcInv, RpcTypeOK, CallTypeOK
<1>2. call[c].state # "idle" /\ 1 <= call[c].attempt
  BY <1>1 DEF SentBefore
<1>3. call[c].attempt # 0
  BY <1>2
<1>4. call[c].attempt \in 1..1
  <2>1. call[c].attempt \in Attempt
    BY <1>1, <1>2, <1>3, CallTypes DEF IsWaiting
  <2>. QED  BY <2>1 DEF Attempt
<1>. QED  BY <1>1, <1>3, <1>4, CallTypes DEF Current, RpcStatus

(* With no retry, whoever removed an account is told so, or that something went wrong
   (users.service.ts:36, client-proxy.provider.ts:58): not all removals of a removed account
   are answered with "not found". *)
THEOREM RemovalsAreReported == Spec => []RemovalIsReported
<1>1. GatewayInv => RemovalIsReported
  <2> SUFFICES ASSUME GatewayInv, RetryCount = 0, NEW u \in UserId, users[u] = "removed"
               PROVE  \E c \in Call : /\ http[c].route = "delete" /\ http[c].user = u
                                      /\ call[c].state = "done" => call[c].status \in {200, 400, 500}
    BY DEF RemovalIsReported
  <2>1. PICK p \in performed : RequestOf(p).route = "delete" /\ RequestOf(p).user = u
    BY DEF GatewayInv, RemovedInv
  <2>2. p \in Packet /\ SentBefore(p)
    BY ServedIsSent
  <2>3. call[CallOf(p)].state = "done" => call[CallOf(p)].status \notin Refusal
    BY <2>2, OnePacket DEF GatewayInv, RpcInv, DefiniteAnswer
  <2>4. /\ CallOf(p) \in Call
        /\ call[CallOf(p)].state = "done" => call[CallOf(p)].status \in {200, 400, 500}
    BY <2>2, <2>3, OnePacket
  <2>. QED  BY <2>1, <2>4 DEF RequestOf
<1>. QED  BY <1>1, GatewayInvariant, PTL

(* With no retry, an account does not change on behalf of a request that was answered with a
   success or a refusal (client-proxy.provider.ts:57): a late effect belongs to a call that
   still waits, or ended with a 400 or a 500. *)
THEOREM EffectsPrecedeAnswers == Spec => NoEffectAfterAnswer
<1> DEFINE Effects ==
             RetryCount = 0 =>
               \A u \in UserId : users'[u] # users[u] =>
                 \E c \in Call : http[c].route # "none" /\ http[c].user = u
                                   /\ ~Definite(c) /\ Current(c) \in performed' \ performed
<1>1. GatewayInv /\ [Next]_vars => [Effects]_vars
  <2> SUFFICES ASSUME GatewayInv, Next, RetryCount = 0, NEW u \in UserId, users'[u] # users[u]
               PROVE  \E c \in Call : http[c].route # "none" /\ http[c].user = u
                                        /\ ~Definite(c) /\ Current(c) \in performed' \ performed
    OBVIOUS
  <2>0. GatewayTypeOK /\ LocalsInv /\ RpcInv
    BY DEF GatewayInv
  <2>1. PICK q \in Packet : Register(q) \/ UpdateSave(q) \/ Delete(q)
    <3>1. Step
      BY DEF Next
    <3>2. QuietStep => users' = users
      BY <2>0, QuietSteps DEF Quiet, gwVars
    <3>. QED  BY <3>1, <3>2, StepKinds
         DEF ForwardPublic, ForwardAuthenticated, AccountStep, LoginVerify, LoginSign, UpdateFind,
             Receives, Tick
  <2>2. q \in running /\ q \notin performed /\ performed' = performed \cup {q}
    BY <2>1 DEF Register, UpdateSave, Delete, Perform
  <2>3. RequestOf(q).route # "none"
    BY <2>0, <2>1 DEF Register, UpdateSave, Delete, IsBegun, LocalsInv
  <2>4. RequestOf(q).user = u
    BY <2>0, <2>1 DEF Register, UpdateSave, Delete, GatewayTypeOK
  <2>5. SentBefore(q)
    BY <2>2, ServedIsSent
  <2>6. /\ CallOf(q) \in Call /\ q = Current(CallOf(q))
        /\ call[CallOf(q)].state = "done" =>
             /\ call[CallOf(q)].attempt # 0
             /\ call[CallOf(q)].status \in {200, 400, 500} \cup Refusal
    BY <2>5, OnePacket
  <2>7. call[CallOf(q)].state = "done" =>
          call[CallOf(q)].status # 200 /\ call[CallOf(q)].status \notin Refusal
    BY <2>0, <2>2, <2>6 DEF RpcInv, DefiniteAnswer
  <2>8. ~Definite(CallOf(q))
    BY <2>6, <2>7 DEF Definite
  <2>. QED  BY <2>2, <2>3, <2>4, <2>6, <2>8 DEF RequestOf
<1>. QED  BY <1>1, GatewayInvariant, PTL DEF Spec, NoEffectAfterAnswer
=============================================================================
