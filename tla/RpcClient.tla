------------------------------ MODULE RpcClient ------------------------------
(***************************************************************************)
(* The client proxies of the gateway: sendWithTimeoutAndRetry around the   *)
(* ClientProxy of NestJS, and the connection to one service.  Each call    *)
(* of send is an attempt with a packet of its own; the proxy keeps a       *)
(* callback for the packet it waits for, and drops answers to any other.   *)
(* The service does not learn that an attempt was given up.                *)
(***************************************************************************)
EXTENDS Naturals

CONSTANTS Call,         \* the calls that are made, each one HTTP request
          RetryCount,   \* GATEWAY_SERVICE_RETRY_COUNT
          Refusal       \* statuses by which a service says that it has done nothing

ASSUME RetryAssumption == RetryCount \in Nat
ASSUME RefusalAssumption == Refusal \subseteq {401, 403, 404}

VARIABLES call,         \* call[c]: the Observable that the controller awaits
          routingMap,   \* packets whose answer has a callback (ClientTCP)
          requests,     \* packets sent, or waiting for the connection
          running,      \* packets whose handler runs in the service
          answers,      \* answers on their way back
          performed     \* history: packets whose operation was performed

rpcVars == <<call, routingMap, requests, running, answers, performed>>

Attempt == 1..(RetryCount + 1)
Packet  == Call \X Attempt
CallOf(p) == p[1]

(* 400 and 500 leave it open whether the operation was performed: event-server answers 400
   to every error of a save, and a timeout of the gateway is a 500. *)
RpcStatus == {200, 400, 500} \cup Refusal
Answer    == [packet : Packet, status : RpcStatus]

Idle    == [state : {"idle"}]
Waiting == [state : {"waiting"}, attempt : Attempt]
Done    == [state : {"done"}, attempt : Attempt, status : RpcStatus]
(* A call that the gateway answered by itself. *)
Rejected == [state : {"done"}, attempt : {0}, status : {400, 401, 403}]

IsWaiting(c) == call[c].state = "waiting"

(* The packet whose answer c waits for. *)
Current(c) == <<c, call[c].attempt>>

RpcTypeOK ==
  /\ call \in [Call -> Idle \cup Waiting \cup Done \cup Rejected]
  /\ routingMap \subseteq Packet
  /\ requests \subseteq Packet
  /\ running \subseteq Packet
  /\ performed \subseteq Packet
  /\ answers \subseteq Answer

RpcInit ==
  /\ call = [c \in Call |-> [state |-> "idle"]]
  /\ routingMap = {}
  /\ requests = {}
  /\ running = {}
  /\ answers = {}
  /\ performed = {}

-----------------------------------------------------------------------------
(* A request that the gateway answers by itself makes no call. *)
Reject(c, status) ==
  /\ call[c].state = "idle"
  /\ call' = [call EXCEPT ![c] = [state |-> "done", attempt |-> 0, status |-> status]]
  /\ UNCHANGED <<routingMap, requests, running, answers, performed>>

Send(c) ==
  /\ call[c].state = "idle"
  /\ call' = [call EXCEPT ![c] = [state |-> "waiting", attempt |-> 1]]
  /\ routingMap' = routingMap \cup {<<c, 1>>}
  /\ requests' = requests \cup {<<c, 1>>}
  /\ UNCHANGED <<running, answers, performed>>

(* Mutant: the count is that of the attempts made, the first one not among them. *)
CanRetryOnceMore(c) == call[c].attempt <= RetryCount + 1

CanRetry(c) == call[c].attempt <= RetryCount

(***************************************************************************)
(* The current attempts of the calls in C end with an error.  The retry    *)
(* operator subscribes again, which sends a new packet; when the count is  *)
(* used up, catchError makes the error an HttpException.  Unsubscribing    *)
(* deletes the callback.                                                   *)
(***************************************************************************)
Retried(C) == {<<c, call[c].attempt + 1>> : c \in {x \in C : CanRetry(x)}}

AfterError(c, status) ==
  IF CanRetry(c) THEN [state |-> "waiting", attempt |-> call[c].attempt + 1]
                 ELSE [state |-> "done", attempt |-> call[c].attempt, status |-> status]

(* Mutant: the packet of the attempt that failed keeps its callback. *)
AttemptsFailSubscribed(C, status) ==
  /\ call' = [c \in Call |-> IF c \in C THEN AfterError(c, status) ELSE call[c]]
  /\ routingMap' = routingMap \cup Retried(C)

AttemptsFail(C, status) ==
  /\ call' = [c \in Call |-> IF c \in C THEN AfterError(c, status) ELSE call[c]]
  /\ routingMap' = {p \in routingMap : CallOf(p) \notin C} \cup Retried(C)

(* Mutant: the timer stops when the service has the packet. *)
TimeoutUnsent(c) ==
  /\ IsWaiting(c)
  /\ Current(c) \in requests
  /\ AttemptsFail({c}, 500)
  /\ requests' = requests \cup Retried({c})
  /\ UNCHANGED <<running, answers, performed>>

(* No answer in time.  The packet is on its way or being handled all the same, unless the
   connection was not up yet. *)
Timeout(c) ==
  /\ IsWaiting(c)
  /\ AttemptsFail({c}, 500)
  /\ \/ requests' = requests \cup Retried({c})
     \/ /\ Current(c) \in requests
        /\ requests' = (requests \ {Current(c)}) \cup Retried({c})
  /\ UNCHANGED <<running, answers, performed>>

(* The service cannot be reached. *)
ConnectFails(c) ==
  /\ IsWaiting(c)
  /\ Current(c) \in requests
  /\ AttemptsFail({c}, 500)
  /\ requests' = (requests \ {Current(c)}) \cup Retried({c})
  /\ UNCHANGED <<running, answers, performed>>

(* Mutant: an answer goes to its call, whatever packet that waits for. *)
HasCall(p) == CallOf(p) \in Call

(* The proxy has a callback for this packet. *)
HasCallback(p) == p \in routingMap

(* An answer arrives.  The first value ends the call; an error of the service is retried
   like any other. *)
Deliver(p, status) ==
  /\ [packet |-> p, status |-> status] \in answers
  /\ HasCallback(p)
  /\ answers' = answers \ {[packet |-> p, status |-> status]}
  /\ LET c == CallOf(p) IN
     \/ /\ status = 200
        /\ call' = [call EXCEPT ![c] = [state |-> "done", attempt |-> @.attempt, status |-> 200]]
        /\ routingMap' = routingMap \ {Current(c)}
        /\ UNCHANGED requests
     \/ /\ status # 200
        /\ AttemptsFail({c}, status)
        /\ requests' = requests \cup Retried({c})
  /\ UNCHANGED <<running, performed>>

(* It comes too late. *)
DropAnswer(p, status) ==
  /\ [packet |-> p, status |-> status] \in answers
  /\ ~HasCallback(p)
  /\ answers' = answers \ {[packet |-> p, status |-> status]}
  /\ UNCHANGED <<call, routingMap, requests, running, performed>>

(* A socket closes, and every call of it that waits gets an error at once.  What was under
   way is lost.  Each of the two services has a socket: Over are the calls that use it. *)
SocketCloses(Over) ==
  LET W == {c \in Over : IsWaiting(c)} IN
  /\ AttemptsFail(W, 500)
  /\ requests' = {p \in requests : CallOf(p) \notin Over} \cup Retried(W)
  /\ answers' = {a \in answers : CallOf(a.packet) \notin Over}
  /\ UNCHANGED performed

(* Handlers that run go on. *)
ConnectionLost(Over) == SocketCloses(Over) /\ UNCHANGED running

(* The service dies, and its handlers with it (restart: always). *)
ServiceRestarts(Over) ==
  SocketCloses(Over) /\ running' = {p \in running : CallOf(p) \notin Over}

-----------------------------------------------------------------------------
(* The service: a handler begins, performs its operation or does not, and answers. *)
Receive(p) ==
  /\ p \in requests
  /\ requests' = requests \ {p}
  /\ running' = running \cup {p}
  /\ UNCHANGED <<call, routingMap, answers, performed>>

Perform(p) ==
  /\ p \in running
  /\ p \notin performed
  /\ performed' = performed \cup {p}
  /\ UNCHANGED <<call, routingMap, requests, running, answers>>

(* Mutant: the handler answers before what it awaits has ended. *)
RespondUnawaited(p, status) ==
  /\ p \in running
  /\ answers' = answers \cup {[packet |-> p, status |-> status]}
  /\ UNCHANGED <<call, routingMap, requests, running, performed>>

Respond(p, status) ==
  /\ p \in running
  /\ status = 200 => p \in performed
  /\ status \in Refusal => p \notin performed
  /\ running' = running \ {p}
  /\ answers' = answers \cup {[packet |-> p, status |-> status]}
  /\ UNCHANGED <<call, routingMap, requests, performed>>

-----------------------------------------------------------------------------
RpcNext ==
  \/ \E c \in Call :
       \/ \E status \in {400, 401, 403} : Reject(c, status)
       \/ Send(c) \/ Timeout(c) \/ ConnectFails(c)
  \/ \E p \in requests : Receive(p)
  \/ \E p \in running : Perform(p) \/ \E status \in RpcStatus : Respond(p, status)
  \/ \E a \in answers : Deliver(a.packet, a.status) \/ DropAnswer(a.packet, a.status)
  \/ \E Over \in SUBSET Call : ConnectionLost(Over) \/ ServiceRestarts(Over)

RpcSpec == RpcInit /\ [][RpcNext]_rpcVars

(* Only the timer of the gateway is fair: no service owes it an answer. *)
RpcFairSpec == RpcSpec /\ \A c \in Call : WF_rpcVars(Timeout(c))

-----------------------------------------------------------------------------
(* Exactly the packets that calls wait for have a callback: an ended attempt leaves none
   behind, whose answer could end a later attempt, and no call waits without one. *)
RoutingMatchesCalls == routingMap = {Current(c) : c \in {x \in Call : IsWaiting(x)}}

(* What the client is told is true: a success was performed in the attempt it is the
   answer of, and what a service refused is not performed later either. *)
DefiniteAnswer ==
  \A c \in Call : call[c].state = "done" /\ call[c].attempt # 0 =>
    /\ call[c].status = 200 => Current(c) \in performed
    /\ call[c].status \in Refusal => Current(c) \notin performed \cup running \cup requests

(* A call is answered once: what its client was told is not changed by an answer that comes
   late, a timer that was not stopped or a connection that closes (client-proxy.provider.ts:56,
   where catchError makes the last error the answer). *)
AnsweredOnce ==
  [][\A c \in Call : call[c].state = "done" => call'[c] = call[c]]_rpcVars

(* Every call ends, although a service may be down for good, hang or lose requests: the
   timeout of the last attempt ends it (client-proxy.provider.ts:57). *)
EveryCallEnds == \A c \in Call : IsWaiting(c) ~> call[c].state = "done"

-----------------------------------------------------------------------------
(* No packet runs ahead of its call, and each is in one place. *)
SentBefore(p) == call[CallOf(p)].state # "idle" /\ p[2] <= call[CallOf(p)].attempt

PacketsInv ==
  /\ \A p \in requests \cup running \cup performed : SentBefore(p)
  /\ \A a \in answers : SentBefore(a.packet)
  /\ \A p \in requests : p \notin running \cup performed
  /\ \A a \in answers : a.packet \notin requests \cup running
  /\ \A a, b \in answers : a.packet = b.packet => a = b

AnswersInv ==
  \A a \in answers :
    /\ a.status = 200 => a.packet \in performed
    /\ a.status \in Refusal => a.packet \notin performed

(* The inductive invariant of the proxies, the connection and the service. *)
RpcInv == RpcTypeOK /\ RoutingMatchesCalls /\ PacketsInv /\ AnswersInv /\ DefiniteAnswer

-----------------------------------------------------------------------------
(* The calls seen as the contract: packets, callbacks and connections are hidden. *)
Outcome == [c \in Call |-> IF IsWaiting(c) THEN [state |-> "waiting"] ELSE call[c]]

Contract == INSTANCE CallContract WITH
  Bound <- RetryCount + 1, Status <- {401, 403} \cup RpcStatus,
  outcome <- Outcome, effects <- performed

(* Timeouts, retries, late answers and lost connections keep what a call promises. *)
ImplementsContract == Contract!Spec

=============================================================================
