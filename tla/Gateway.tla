------------------------------- MODULE Gateway -------------------------------
(***************************************************************************)
(* gateway-server: JwtAuthGuard, RolesGuard, the ValidationPipe and the    *)
(* proxy controllers, over the client proxies of RpcClient.  A request is  *)
(* let through on the role its access token carries; the roles of accounts *)
(* change meanwhile in auth-server, of which this module keeps what the    *)
(* gateway's requests do to them.  AuthServer models that service closely. *)
(* Time is counted in seconds, the resolution of iat and exp.              *)
(***************************************************************************)
EXTENDS RpcClient

CONSTANTS UserId,        \* ObjectIds of accounts
          RoleInUse,     \* the roles that accounts have and are given
          RouteInUse,    \* the routes that requests take
          Unset,         \* a field that a request leaves out
          AccessTTL,     \* JWT_EXPIRATION_TIME
          CallTimeout,   \* GATEWAY_SERVICE_TIMEOUT
          MaxTime        \* bound: the clock stops here

VARIABLES http,      \* http[c]: the request that call c forwards
          users,     \* users[u]: the role of account u, or its absence
          tokens,    \* access tokens that clients have received
          local,     \* local[p]: the locals of the handler of packet p
          timer,     \* timer[c]: when the timer of the current attempt of c fires, or 0
          lastHeld,  \* history: lastHeld[<<u, r>>] is the last second u had role r, or 0
          now

gwVars == <<http, users, tokens, local, now>>
vars   == <<rpcVars, gwVars, timer, lastHeld>>

Role == {"USER", "OPERATOR", "AUDITOR", "ADMIN"}
Time == 1..MaxTime

-----------------------------------------------------------------------------
(* The routes, their decorators and what the controllers forward. *)
PublicRoute == {"register", "login", "findAllEvents"}
OwnRoute    == {"logout", "refresh", "update", "delete"}
EventRoute  == {"createEvent", "findOneEvent", "createReward", "findOneReward"}
Route       == PublicRoute \cup OwnRoute \cup EventRoute

(* The decorators @Roles of the two controllers, and what the guard finds where there is
   none. *)
UpdateRoles == {"ADMIN", "OPERATOR", "AUDITOR"}
EventRoles  == {"ADMIN", "OPERATOR"}

RequiredRoles(route) ==
  CASE route = "update" -> UpdateRoles
    [] route \in EventRoute -> EventRoles
    [] OTHER -> {}

(* Routes with a DTO, which the ValidationPipe may refuse. *)
AuthDto   == {"register", "login", "refresh", "update"}
EventDto  == {"createEvent", "findAllEvents", "createReward"}
Validated == AuthDto \cup EventDto

ASSUME GatewayAssumption ==
  /\ RoleInUse \subseteq Role
  /\ RouteInUse \subseteq Route
  /\ Unset \notin Role
  /\ {401, 404} \subseteq Refusal
  /\ AccessTTL \in Nat /\ CallTimeout \in Nat /\ MaxTime \in Nat \ {0}

AccessToken == [userID : UserId, role : Role, iat : Time]

(* Mutant: ignoreExpiration. *)
NeverExpired(t) == FALSE

(* JwtStrategy, ignoreExpiration false; exp is iat plus the lifetime.  The account is not
   looked up. *)
Expired(t) == now >= t.iat + AccessTTL

(* RolesGuard: one of the required roles is in the string of the token. *)
RoleAllowed(role, route) == RequiredRoles(route) = {} \/ role \in RequiredRoles(route)

(* JwtAuthGuard and RolesGuard. *)
LetThrough(t, route) == ~Expired(t) /\ RoleAllowed(t.role, route)

(* A forwarded request: whose account it is about, and the role that its DTO gives. *)
Forwarded == [route : Route, user : UserId, newRole : Role \cup {Unset}]
NoRequest == [route : {"none"}]

Exists(u) == users[u] \in Role

(* Handlers of auth-server between two awaits. *)
Begun     == [pc : {"begun"}]
Verified  == [pc : {"verified"}, role : Role]       \* login, before generateTokens
Signed    == [pc : {"signed"}, token : AccessToken] \* login, after it
Found     == [pc : {"found"}, role : Role]          \* update, before save
Locals    == Begun \cup Verified \cup Signed \cup Found

GatewayTypeOK ==
  /\ RpcTypeOK
  /\ http \in [Call -> Forwarded \cup NoRequest]
  /\ users \in [UserId -> Role \cup {"absent", "removed"}]
  /\ tokens \subseteq AccessToken
  /\ local \in [Packet -> Locals]
  /\ timer \in [Call -> 0..(MaxTime + CallTimeout)]
  /\ lastHeld \in [UserId \X Role -> 0..MaxTime]
  /\ now \in Time

(* The accounts that exist have just signed in. *)
Init ==
  /\ RpcInit
  /\ now = 1
  /\ http = [c \in Call |-> [route |-> "none"]]
  /\ users \in [UserId -> RoleInUse \cup {"absent"}]
  /\ tokens = {t \in AccessToken : users[t.userID] = t.role /\ t.iat = now}
  /\ local = [p \in Packet |-> [pc |-> "begun"]]
  /\ timer = [c \in Call |-> 0]
  /\ lastHeld = [x \in UserId \X Role |-> IF users[x[1]] = x[2] THEN 1 ELSE 0]

-----------------------------------------------------------------------------
(* A request arrives.  The guards decide first, then the pipe, then it is forwarded. *)

(* JwtAuthGuard: no token, or one that has expired. *)
Unauthorized(c) ==
  /\ RouteInUse \ PublicRoute # {}
  /\ Reject(c, 401)
  /\ UNCHANGED gwVars

Forbidden(c) ==
  /\ \E route \in RouteInUse, t \in tokens : ~Expired(t) /\ ~RoleAllowed(t.role, route)
  /\ Reject(c, 403)
  /\ UNCHANGED gwVars

Invalid(c) ==
  /\ \E route \in RouteInUse \cap Validated :
       \/ route \in PublicRoute
       \/ \E t \in tokens : LetThrough(t, route)
  /\ Reject(c, 400)
  /\ UNCHANGED gwVars

ForwardPublic(c) ==
  /\ Send(c)
  /\ \E route \in RouteInUse \cap PublicRoute, u \in UserId, role \in RoleInUse :
       http' = [http EXCEPT ![c] = [route |-> route, user |-> u,
                                    newRole |-> IF route = "register" THEN role ELSE Unset]]
  /\ UNCHANGED <<users, tokens, local, now>>

ForwardAuthenticated(c) ==
  /\ Send(c)
  /\ \E route \in RouteInUse \ PublicRoute, t \in tokens, role \in RoleInUse \cup {Unset} :
       /\ LetThrough(t, route)
       /\ http' = [http EXCEPT ![c] = [route |-> route, user |-> t.userID,
                                       newRole |-> IF route = "update" THEN role ELSE Unset]]
  /\ UNCHANGED <<users, tokens, local, now>>

-----------------------------------------------------------------------------
(* The services.  Every handler may also fail, with its operation performed or not. *)
RequestOf(p) == http[CallOf(p)]
IsBegun(p, route) == p \in running /\ RequestOf(p).route = route /\ local[p].pc = "begun"

Begin(p) == Receive(p) /\ UNCHANGED gwVars

Answered(p, status) == Respond(p, status) /\ UNCHANGED gwVars

Fails(p) ==
  \/ Answered(p, 500)
  \/ RequestOf(p).route \in EventRoute /\ Answered(p, 400)

(* users.register: the unique index refuses a name that is taken (Fails). *)
Register(p) ==
  LET h == RequestOf(p) IN
  /\ IsBegun(p, "register")
  /\ users[h.user] = "absent"
  /\ users' = [users EXCEPT ![h.user] = h.newRole]
  /\ Perform(p)
  /\ UNCHANGED <<http, tokens, local, now>>

(* auth.login: verifyUser, then generateTokens with the role that was read. *)
LoginVerify(p) ==
  LET u == RequestOf(p).user IN
  /\ IsBegun(p, "login")
  /\ Exists(u)
  /\ local' = [local EXCEPT ![p] = [pc |-> "verified", role |-> users[u]]]
  /\ UNCHANGED <<rpcVars, http, users, tokens, now>>

LoginRefused(p) == IsBegun(p, "login") /\ Answered(p, 401)

LoginSign(p) ==
  /\ p \in running
  /\ local[p].pc = "verified"
  /\ local' = [local EXCEPT ![p] =
                 [pc |-> "signed",
                  token |-> [userID |-> RequestOf(p).user, role |-> local[p].role, iat |-> now]]]
  /\ Perform(p)
  /\ UNCHANGED <<http, users, tokens, now>>

(* Mutant: a field the DTO leaves out is written, too. *)
UpdateSaveWhole(p) ==
  LET h == RequestOf(p) IN
  /\ p \in running
  /\ local[p].pc = "found"
  /\ Exists(h.user)
  /\ users' = [users EXCEPT ![h.user] = h.newRole]
  /\ Perform(p)
  /\ UNCHANGED <<http, tokens, local, now>>

(* users.update: findById, then save, which writes the role if it differs from the loaded
   one; a document that is gone is a 500 (Fails). *)
UpdateFind(p) ==
  LET u == RequestOf(p).user IN
  /\ IsBegun(p, "update")
  /\ Exists(u)
  /\ local' = [local EXCEPT ![p] = [pc |-> "found", role |-> users[u]]]
  /\ UNCHANGED <<rpcVars, http, users, tokens, now>>

UpdateSave(p) ==
  LET h == RequestOf(p) IN
  /\ p \in running
  /\ local[p].pc = "found"
  /\ Exists(h.user)
  /\ users' = [users EXCEPT ![h.user] = IF h.newRole \in {Unset, local[p].role} THEN @ ELSE h.newRole]
  /\ Perform(p)
  /\ UNCHANGED <<http, tokens, local, now>>

(* Mutant: removes, and then looks whether there was such an account. *)
DeleteThenFind(p) ==
  LET u == RequestOf(p).user IN
  /\ IsBegun(p, "delete")
  /\ Exists(u)
  /\ users' = [users EXCEPT ![u] = "removed"]
  /\ UNCHANGED <<rpcVars, http, tokens, local, now>>

(* users.delete: findByIdAndDelete. *)
Delete(p) ==
  LET u == RequestOf(p).user IN
  /\ IsBegun(p, "delete")
  /\ Exists(u)
  /\ users' = [users EXCEPT ![u] = "removed"]
  /\ Perform(p)
  /\ UNCHANGED <<http, tokens, local, now>>

NotFound(p) ==
  /\ IsBegun(p, "update") \/ IsBegun(p, "delete")
  /\ ~Exists(RequestOf(p).user)
  /\ Answered(p, 404)

(* The gateway forwards `refreshtoken`, auth.controller.ts reads `refreshToken`: whatever
   was sent, the service verifies undefined. *)
RefreshRefused(p) == IsBegun(p, "refresh") /\ Answered(p, 401)

(* Operations that leave accounts alone.  createEvent is not among them: the shared DTO has no
   approvalType, which the schema of event-server requires, so it only fails. *)
OtherRoute == {"findAllEvents", "logout", "findOneEvent", "createReward", "findOneReward"}

PerformOther(p) ==
  /\ RequestOf(p).route \in OtherRoute
  /\ Perform(p)
  /\ UNCHANGED gwVars

(* Mutant: update answers before save has ended. *)
SucceedsUnawaited(p) ==
  /\ p \in running
  /\ p \in performed \/ local[p].pc = "found"
  /\ answers' = answers \cup {[packet |-> p, status |-> 200]}
  /\ UNCHANGED <<call, routingMap, requests, running, performed, gwVars>>

Succeeds(p) == Answered(p, 200)

Serve(p) ==
  \/ Begin(p) \/ Register(p) \/ LoginVerify(p) \/ LoginRefused(p) \/ LoginSign(p)
  \/ UpdateFind(p) \/ UpdateSave(p) \/ Delete(p) \/ NotFound(p)
  \/ RefreshRefused(p) \/ PerformOther(p) \/ Succeeds(p) \/ Fails(p)

-----------------------------------------------------------------------------
(* Each service has a client proxy, and that a connection. *)
ServiceOf(route) == IF route \in EventRoute \cup {"findAllEvents"} THEN "event" ELSE "auth"

CallsTo(service) == {c \in Call : http[c].route # "none" /\ ServiceOf(http[c].route) = service}

(* The answer of a login brings the client its token. *)
Receives(p, status) ==
  /\ Deliver(p, status)
  /\ tokens' = IF RequestOf(p).route = "login" /\ status = 200
                 THEN tokens \cup {local[p].token} ELSE tokens
  /\ UNCHANGED <<http, users, local, now>>

(* Mutant: the call is made without a timeout. *)
NeverOverdue(c) == FALSE

(* The timer of an attempt fires when its time is over, within that second. *)
Overdue(c) == now >= timer[c]

CallTimesOut(c) == Overdue(c) /\ Timeout(c) /\ UNCHANGED gwVars

Tick ==
  /\ now < MaxTime
  /\ \A c \in Call : IsWaiting(c) => ~Overdue(c)
  /\ now' = now + 1
  /\ UNCHANGED <<rpcVars, http, users, tokens, local>>

(* Every attempt starts a timer, and roles are timed while they are held. *)
Stamp ==
  /\ timer' = [c \in Call |-> IF call'[c] = call[c] THEN timer[c]
                              ELSE IF call'[c].state = "waiting" THEN now + CallTimeout ELSE 0]
  /\ lastHeld' = [x \in UserId \X Role |->
                    IF x[2] \in {users[x[1]], users'[x[1]]} THEN now' ELSE lastHeld[x]]

Step ==
  \/ \E c \in Call :
       \/ Unauthorized(c) \/ Forbidden(c) \/ Invalid(c)
       \/ ForwardPublic(c) \/ ForwardAuthenticated(c)
       \/ CallTimesOut(c)
       \/ ConnectFails(c) /\ UNCHANGED gwVars
  \/ \E p \in Packet :
       \/ Serve(p)
       \/ \E status \in RpcStatus : Receives(p, status)
       \/ \E status \in RpcStatus : DropAnswer(p, status) /\ UNCHANGED gwVars
  \/ \E service \in {"auth", "event"} :
       /\ ConnectionLost(CallsTo(service)) \/ ServiceRestarts(CallsTo(service))
       /\ UNCHANGED gwVars
  \/ Tick

Next == Step /\ Stamp

Spec == Init /\ [][Next]_vars

-----------------------------------------------------------------------------
(* How stale a role may be (role.guard.ts:44, client-proxy.provider.ts:57): whoever is let
   through with a token had its role less than AccessTTL + CallTimeout seconds before.  The
   lifetime of the token bounds it from the signature on; that the role was not much older
   than the signature is due to the timeout, which lets no late login reach the client. *)
BoundedStaleness ==
  \A t \in tokens, route \in Route :
    LetThrough(t, route) => now < lastHeld[<<t.userID, t.role>>] + AccessTTL + CallTimeout

(* With no retry, whoever removed an account is told so, or that something went wrong: it
   does not happen that all removals of an account are answered with "not found". *)
RemovalIsReported ==
  RetryCount = 0 =>
    \A u \in UserId : users[u] = "removed" =>
      \E c \in Call :
        /\ http[c].route = "delete" /\ http[c].user = u
        /\ call[c].state = "done" => call[c].status \in {200, 400, 500}

(* With no retry, an account does not change on behalf of a request that was answered with
   a success or a refusal: what the client knows is not undone by its own request. *)
Definite(c) == call[c].state = "done" /\ call[c].status \notin {400, 500}

NoEffectAfterAnswer ==
  [][RetryCount = 0 =>
       \A u \in UserId : users'[u] # users[u] =>
         \E c \in Call : http[c].route # "none" /\ http[c].user = u
                           /\ ~Definite(c) /\ Current(c) \in performed' \ performed]_vars

-----------------------------------------------------------------------------
(* The inductive invariant: what the locals of a login, the timers and the tokens that
   clients have say of the past. *)
Sent(c) == call[c].state # "idle" /\ call[c].attempt # 0

IsCurrent(p) == IsWaiting(CallOf(p)) /\ p = Current(CallOf(p))

RequestsInv ==
  \A c \in Call : Sent(c) =>
    http[c] \in Forwarded /\ (http[c].route = "register" => http[c].newRole \in Role)

TimersInv == \A c \in Call : IsWaiting(c) => now <= timer[c] /\ timer[c] <= now + CallTimeout

HeldInv ==
  \A u \in UserId, r \in Role :
    /\ lastHeld[<<u, r>>] <= now
    /\ users[u] = r => lastHeld[<<u, r>>] = now

(* The routes whose handlers keep locals, and when. *)
LocalsInv ==
  \A p \in Packet :
    /\ ~SentBefore(p) => local[p].pc = "begun"
    /\ local[p].pc \in {"verified", "signed"} => RequestOf(p).route = "login"
    /\ local[p].pc = "found" => RequestOf(p).route = "update"
    /\ p \in performed /\ RequestOf(p).route = "login" => local[p].pc = "signed"

(* The role of a login that may still be answered was held when the call was sent, at the
   earliest. *)
LoginsInv ==
  \A p \in Packet : IsCurrent(p) =>
    /\ local[p].pc = "verified" =>
         timer[CallOf(p)] <= lastHeld[<<RequestOf(p).user, local[p].role>>] + CallTimeout
    /\ local[p].pc = "signed" =>
         LET t == local[p].token IN
         t.iat <= now /\ timer[CallOf(p)] <= lastHeld[<<t.userID, t.role>>] + CallTimeout

TokensInv == \A t \in tokens : t.iat <= lastHeld[<<t.userID, t.role>>] + CallTimeout

RemovedInv ==
  \A u \in UserId : users[u] = "removed" =>
    \E p \in performed : RequestOf(p).route = "delete" /\ RequestOf(p).user = u

GatewayInv ==
  /\ GatewayTypeOK /\ RpcInv
  /\ RequestsInv /\ TimersInv /\ HeldInv /\ LocalsInv /\ LoginsInv /\ TokensInv /\ RemovedInv

=============================================================================
