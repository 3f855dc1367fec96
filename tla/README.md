# TLA+ verification of NestJS_MSA

The program is a small event platform of three NestJS services over MongoDB. Clients talk
HTTP to `gateway-server`; the gateway sends messages over TCP to `auth-server` (accounts,
access and refresh tokens) and to `event-server` (events, rewards, claims of rewards). This
directory holds TLA+ modules translated from `src/apps`, configurations that check them with
TLC on small instances, and theorems about them checked by TLAPS.

The common difficulty of the code is that **every handler is a chain of awaits, and no chain
is a transaction**. Between two awaits other handlers of the same service run, the container
may be restarted, and a write may be applied although its caller sees an error. The code
relies on three unique indexes, on the atomicity of single MongoDB operations and on the
order of its steps. In front of this stands a gateway that gives up a call after a timeout
while the service goes on, and that judges a request by the role its token carries. The
modules ask whether all this suffices, and for what.

## 1. Inventory

| component | state it keeps | operations that change state | where it is hard |
|---|---|---|---|
| **AuthService** (`auth-server/src/auth`) | collection `refreshtokens`: token, userID, isRevoked | `login`, `refreshToken`, `logout` (with `generateTokens`, `saveRefreshToken`) | four awaits in a refresh; tokens are equal if signed in the same second; the updateOne of a logout |
| **UsersService** (`auth-server/src/users`) | collection `users`; unique index on `username` | `create`, `update`, `remove`; pre-save hook | find-then-save update; the hook's `isModified` test |
| **EventService, RewardService** (`event-server/src/event`, `reward`) | collections `events`, `rewards` | `create` of each; the paged list `findAll` reads | pages are cut by skip from a result that changes between them |
| **Claims** (`event-server/src/reward-claim`) | collection `reward_claims`, unique index on (userId, eventId, rewardId) | `CreateRewardClaimHandler.execute` | four round trips; two claims of one key; a lost acknowledgement |
| **Progress** (`event-progress.schema.ts`) | collection `user_event_progresses`, unique index on (userId, eventId, eventConditionIndex) | none in this repository; only read | several documents for one user and event |
| **Exception filters, handler lifetime** | none | every exception becomes an answer; `restart: always` | handlers lost in a restart |
| **Gateway guards, validation, proxies** (`gateway-server/src/common`, `modules`) | none; clients hold access tokens | eleven routes | the role is the one in the access token, not in the database |
| **Gateway client proxies** (`client-proxy.provider.ts`) | calls in flight, the callbacks of `ClientTCP` | send, timeout, retry | a late answer; a retry of what was already done; a lost connection |
| **Shared DTOs, schema copies** (`libs/shared`) | none | none | shapes that differ from those of the services |
| **Configuration, database, modules** | none | none | – |

How they interact: the gateway verifies the access token, takes the user id from it and sends
`{cmd: ...}` messages; services share no database collection, and refer to each other's
documents by id only (a claim holds a userId, an eventId and a rewardId, none checked by the
database). Within event-server, the claim handler calls `EventService.findOne`.

What makes each component correct:

* AuthService: stored tokens are distinct; a token is revoked before its successor is issued,
  so the two are never both usable; a token is exchanged no more often than there are handlers
  to do it at one time; a revoked token stays so; a refresh stays in its session; a request ends nobody
  else's session.
* UsersService: two updates do not lose each other's fields; nothing hashes a hash; a removed
  user does not come back.
* Catalog: a reward belongs to a stored event.
* Claims: one claim for a key, and only where the key is entitled; both in spite of reads that
  are several round trips old.
* The list of events: a walk through its pages skips no event that was there when it began,
  and repeats only what was pushed on.
* All handlers: every request is answered.
* Client proxies: an answer ends the call it belongs to and no other; what a client is told is
  true; a call is performed once for each attempt at most; every call ends.
* Gateway: a role that was taken away stops working after a known time; what a client was told
  of its account is not contradicted by its own request later.

`PROJECT.json` lists the hazards one by one, each at its line and with the properties that
would catch it.

## 2. Modules

```
 RpcHandlers                 slots, locals, answers, lost acknowledgements, restarts
   |-- Users                 UsersService
   |     `-- AuthServer      AuthService, composed with Users     --> TokenLedger (abstract)
   |           |-- MCAuthServer
   |           `-- AuthServerProofs
   `-- EventCatalog          EventService.create, RewardService.create
         `-- RewardClaim     CreateRewardClaimHandler, composed  --> ClaimLedger (abstract)
               |-- MCRewardClaim
               `-- RewardClaimProofs
 EventPages                  EventService.findAll, walked by a client
   |-- MCEventPages
   `-- EventPagesProofs

 RpcClient                   sendWithTimeoutAndRetry, ClientTCP, sockets --> CallContract (abstract)
   |-- RpcClientProofs
   `-- Gateway               guards, pipe, controllers, composed with RpcClient
         `-- GatewayProofs   extends RpcClientProofs as well

 LedgerProofs                what the three abstract specifications imply
```

**RpcHandlers.** A slot of `Request` is one async handler: free, or suspended at an await
with exactly the local variables that the rest of the method reads. Every step from one await
to the next is one action. `Reply` is the end of a handler; the status is what
`AllRpcExceptionsFilter` makes of the exception (an `HttpException` keeps its status, all else
is 500). `Written` is the end of a write: the database applied it, and the acknowledgement
arrives or is lost. `AwaitFails` is an await that rejects with nothing done. `Restart` drops
all handlers of the service, and keeps the database, which is a container of its own.

**Users.** `users[u]` is the document with `_id` u; ids are not reused, hence `removed` beside
`absent`. `UpdateFind`/`UpdateSave` are the two round trips of `update`: mongoose writes only
the paths that differ from what was *loaded*, which is why the handler keeps `loadedRole`;
`PasswordModified` is always true for a given password, a plain text never being equal to the
loaded hash. `Hash` is a record constructor: distinct from every plain text and injective
(the salt is left out, since only `compare` reads a hash). Emails are values already
normalised (`lowercase`, `trim`). A field the gateway leaves out of its JSON is `Unset`.

**AuthServer.** `refreshTokens` is the collection in insertion order; a document also carries
`from`, a history variable naming the document whose token was exchanged for this one. A token
is `[userID, role, iat]`: the JWT is a function of these and of the secret, so two that agree
*are* the same string. `LoginVerify` is `verifyUser` (findOne by email, compare), `Sign`
is `generateTokens`, `Save` is `saveRefreshToken`, and a refresh is `RefreshFind`,
`RevokeOld`, `Sign`, `Save`. `LogoutRevoke` is `updateOne({userID})`: MongoDB may pick any
matching document, so the action does. The access tokens are not kept: no service stores
them.

**EventCatalog, RewardClaim.** Events and rewards are created and read, never changed. A
condition is the sequence of its `params`, of which `execute` compares the first entry only; `params` without an
entry makes the destructuring throw, a 500 (`RefusalStatus`), and a value that is no number (`NotANumber`,
the DTO allows any) makes the comparison false, so that the condition counts as met (`IsBelow`). `ClaimBegin`, `ClaimFindEvent`,
`ClaimFindProgress` and `ClaimCreate` are the four round trips. `ClaimFindProgress` picks any
document of the user and event, as `findOne({userId, eventId})` may. The paths that answer
400 and 500 are kept apart: only the read of the progress stands outside each `try`.

Two things the model takes from outside the code. No code in the repository writes progress:
`Advance` is an environment action, with the assumption that documents are not deleted and counts do not
fall (the types are `LOGIN_DAYS` and `INVITE_FRIEND`). And `RewardClaimModule` is not imported
in `event-server/src/app.module.ts`, its handlers are not provided and the gateway has no
route to it: the module models `execute` as written, as if it were wired.

**EventPages.** `findAll` sends two queries at once, `find` with sort, skip and limit, and
`countDocuments`; each is an action, in either order, and events are created in between. The
client asks for page 1, 2, ... and ends with a page that is not full, or by the `total` it was
given. Documents with equal sort keys come in any order, a new one for every page. Dates and
fields are numbers, as only their order is used.

**RpcClient.** A call is the Observable a controller awaits. Each subscription is an attempt
with a packet of its own, as the `id` of a packet is generated for each; `routingMap` is
`ClientTCP`'s map of callbacks, from which a packet is deleted when its attempt is unsubscribed.
`Timeout`, `ConnectFails`, an error answer and a closed socket all end in `AttemptsFail`: the
`retry` operator subscribes again, or `catchError` makes an exception of it. `retry` does not
look at the error, so answers of the service are retried as well. A timeout tells the service nothing:
the packet is handled all the same, and its answer finds no callback (`DropAnswer`). Only a
packet that waits for a connection may vanish with its attempt. Of the service, the module
keeps that a handler performs its operation or does not, and answers: 200 says performed,
`Refusal` says not performed, 400 and 500 leave it open (event-server answers 400 to any error of
a save). The wait for the connection, the routing map and `rxjs` are external: they are modelled
by what the proxies rely on.

**Gateway.** One action per way a request may go: `Unauthorized`, `Forbidden`, `Invalid`,
`ForwardPublic`, `ForwardAuthenticated`, in the order guards, pipe, controller.
`UpdateRoles` and `EventRoles` are the decorators of the controllers, `RequiredRoles` what the guard
finds of them, `AuthDto` and `EventDto` the routes whose body or query has a DTO. The token is verified by its signature
and `exp` only (`JwtStrategy`), so `LetThrough` reads nothing of the account. Below the
proxies stand the handlers of auth-server as far as the gateway's requests reach accounts:
login reads the role (`LoginVerify`) and signs it later (`LoginSign`), update is find and
save, delete is one operation. The rest of their detail is in `AuthServer`, and operations
that leave accounts alone are one action (`PerformOther`). `Stamp` is part of every step: an
attempt starts its timer, and the history `lastHeld` notes until when an account held a role.
`Tick` does not pass a timer that is due, so that timers fire within their second.
`RoleAllowed` is equality where the guard calls `includes` on the string of the token: no
name of a role contains another.

**TokenLedger, ClaimLedger** are the abstract specifications: granting, exchanging and
revoking a token, and granting a key, as single atomic steps with no handlers, collections or
clock. `AuthServer!ImplementsLedger` and `RewardClaim!ImplementsClaimLedger` are the
refinements, with the mappings at the end of each module. **CallContract** is the third: a
call begins, its attempts may be performed, perhaps after its end, and it ends once, with a
status that is true of what was performed. `RpcClient!ImplementsContract` hides packets,
callbacks and sockets.

## 3. Runs

The passing runs:

| run | question | instance |
|---|---|---|
| `AuthSessions` | logins, refreshes and logouts in every interleaving, with crashes and rejected awaits: are tokens distinct, revoked before they are replaced, revoked for good? How often can one token be exchanged? Is the ledger implemented? Is `IInv` invariant? | 2 handlers, 1 account, clock 0..3, TTL 2, 4 documents and more |
| `AuthOneClient` | with one request at a time, is a refresh token exchanged at most once? Does a session keep the role it began with when the role of the account changes? Does nobody end another's session? | 1 handler, 2 accounts that share an email, 2 roles, clock 0..2, TTL 2, chains of 4 documents, up to permutation of ids and usernames |
| `AuthAccounts` | updates against updates, against the removal and beside logins, refreshes and logouts; is every request answered? | 2 handlers, 1 account, 2 roles, 2 passwords, 2 documents |
| `ClaimGrants` | is there one claim per key, and only where the key is entitled? Do the four round trips implement one atomic grant? Does a reward have its event, and is every request answered? | 2 handlers, 1 event, 1 reward, 2 condition indexes, all shapes of condition lists, 2 days |
| `EventPages` | does a walk through the list skip nothing, repeat only what was pushed on, and yield the sorted list when nothing happens? Is `PagesInv` invariant? | 4 events, 2 statuses, 3 sort keys, 2 per page, up to permutation of events |
| `RpcCalls` | are clients told the truth, and told it once, does every call end, and do packets and callbacks implement the contract of a call? | 2 calls, 1 retry, one status of refusal |
| `GatewayRoles` | for how long does a role work that was taken away? Is a removal reported, and does nothing change behind a request that was answered? | 2 requests, all eleven routes, 3 roles, 1 account, token lifetime 2, timeout 1, clock 1..4 |

TLC's search for deadlocks says nothing here. In the runs of `AuthServer` and `RewardClaim` it
is on but cannot fail, since a request may always arrive and fail at its first await
(`AwaitFails`, `AwaitRejected`); that no handler waits in vain is `EveryRequestAnswered`, whose
fairness does not include these failures. `RpcCalls`, `GatewayRoles` and `EventPages` turn it off because
what they model ends: every call is done once, the clock reaches its bound, the client has its list.

The runs that end in a violation, each of one statement the repository makes about itself and
the code does not keep (quoted in `PROJECT.json`, `findings`):

| run | what TLC shows |
|---|---|
| `AuthRaceSingleUse` | two refreshes with one token both read it as not revoked; both issue a successor (the theorem `OneHandlerExchangesOnce` shows that it takes two requests at once, and `ExchangesAreBounded` that *n* make *n* exchanges at most) |
| `AuthRotation` | a refresh in the second its token was signed in signs the same string; the index refuses it after the old token was revoked, so the session is lost with a 500 |
| `AuthLogout` | after a refresh a user has two documents; logout may mark the one that is revoked already |
| `ClaimProgressDocuments` | both conditions are met, each in its own document, and the claim is refused |
| `ClaimPeriod` | a claim is stored on a day before its event starts |

Seven more disagreements need no run, as they are visible in a line of the code: `email` has
no unique index (`users.schema.ts:23`) although the Postman collection says emails may not
repeat; `execute` creates the claim of an automatic event without a status, so that it waits
for an administrator like a manual one (`create-reward-claim.handler.ts:92`, against
`reward-claim.schema.ts:6-7`); and it never looks up the `rewardId` that `README.md:266` calls
a reference to a reward. At the gateway: the shared `refresh-token.dto.ts:11` names its field
`refreshtoken`, while `auth.controller.ts:79` reads `refreshToken`, so that every refresh through the
gateway ends with 401 (`RefreshRefused`); the shared `create-event.dto.ts` has no
`approvalType`, the pipe refuses unknown fields and `event.schema.ts:56-61` requires one, so
that `createEvent` only fails; `client-proxy.provider.ts:94` calls the default of the retries
1 where it is 0; and `event-proxy.controller.ts:59` opens a route to any user who is logged in
that the decorator at line 61 keeps for `ADMIN` and `OPERATOR`. The models do what the code
does in all seven.

**Bounds.** `Request` bounds the handlers in flight; the races here are of two handlers (a
check by one, the write of another), and each handler that ends makes its slot free for the
next request, so two slots give sequences of any number of requests. `MaxTime` bounds the
clock and `RefreshTTL` is chosen below it, so that tokens expire in the middle of a refresh.
`MaxTokens` bounds only when a login or a refresh may *begin*, never what it does once begun:
with two slots the collection may exceed it by one, and no path of a handler is cut off.
`MaxProgress` is one, which gives a before and an after; `MaxDay` is one where days matter and
zero elsewhere. A call of `RpcClient` is made once, so `Call` is also the number of requests of
a behaviour; two are enough for the races of this part, between the two attempts of a call, a
call and a late answer, and two requests about one account. `GatewayRoles` has no retry, which
is the default, `RpcCalls` has one; a second only multiplies the packets. In `GatewayRoles`, `AccessTTL + CallTimeout` is 3
and the clock ends at 4, so the bound of `BoundedStaleness` is reached; the mutants that lift
the expiry or the timeout violate it. Four events and pages of two give a full last page, a
short one and an empty one, and one more creation than the pages in between. `AuthAccounts` follows the account: its clock stands still, and its refreshes run into the
unique index. The theorems below hold for every value of these constants.

**Fairness.** `FairSpec` gives weak fairness to `Resume(r)` of each slot: an await of a
handler, once begun, resolves or rejects, since MongoDB answers or its driver times out, and
Node runs the continuation. A single fairness condition on the disjunction suffices, each
handler being at one await at a time. Not fair: what clients send, the clock, the progress of
users, failures and crashes. `EveryRequestAnswered` is what the one service owes if the awaits
of its handler resolve. What the *client* receives is `EveryCallEnds`, and `RpcFairSpec` asks
much less for it: `WF(Timeout(c))`, the gateway's own timer. No service owes an answer, or
even a connection. With the retries bounded, each timeout brings a call nearer to its end.

**How far the properties reach.** `RemovalIsReported` and `NoEffectAfterAnswer` are stated for
`RetryCount = 0`, the default. With one retry neither holds: the first attempt removes the
account and times out, the second is answered with 404. `DefiniteAnswer` and
`AnsweredOnce` hold for any number. How often a call may be performed is in the types: each
attempt at most once, and no attempt beyond `RetryCount + 1` (`RpcTypeOK`, and the mutant
`CanRetryOnceMore`). `NothingSkipped` excepts events that share their sort
key, whose order MongoDB may change from page to page, and the client that goes by `total`
after an event was created between the count and the find of one page (`overtaken`): the page
then holds an event the total does not count, and the client stops one event short.

## 4. Proofs

`tlapm` checks every theorem of `AuthServerProofs`, `RewardClaimProofs`, `RpcClientProofs`,
`GatewayProofs`, `EventPagesProofs` and `LedgerProofs` without parameters fixed: any set of
handlers, users, roles, events, rewards and calls, any sort keys and page sizes, any TTL,
timeout, number of retries and any bound. The assumptions are those the modules name: `UnsetAssumption` (a field that is left
out is no role and no password), `BoundsAssumption`, `CatalogAssumption`, `ClaimAssumption`
(the bounds are natural numbers, the condition lists are lists), `NoDocAssumption` (no
document is the absence of one), `RetryAssumption`, `RefusalAssumption` (a refusal is a 401,
403 or 404), `GatewayAssumption` (roles and routes are among those of the code) and
`PagesAssumption` (sort keys are natural numbers, a page has 1 to 100 items, as the DTO
asks). TLC evaluates them in every run. The theorems that count handlers assume in addition that
`Request` is finite, as the requests in flight of one process are.

**AuthServer.** The inductive invariant is
`IInv == TypeOK /\ HistoryInv /\ HandlersInv /\ UniqueToken /\ SuccessorOfRevoked /\ SuccessorContinuesSession`.
The last three are the safety properties. They are not inductive alone:

* `HandlersInv` says what a handler carries over an await: the position it is about to revoke
  is that of a stored document, the token it is about to store has the user and role of the
  one it replaces and is not older. Without it, `Save` could store anything.
* `HistoryInv` says documents refer to earlier ones (so `Append` disturbs no `from`) and no
  token is signed in the future.
* `SuccessorContinuesSession` claims *strictly* later `iat`, while `Sign` only gives `<=`:
  the unique index does the rest, an equal `iat` making the token equal to a stored one, which
  `Save` refuses. So this property rests on `IsStored` too.
* `SuccessorOfRevoked` has a conjunct for handlers in flight: from `RevokeOld` until `Save`
  the old token is revoked and stays so, no step resetting `isRevoked`.

From it: `TypeCorrect`, `TokensUnique`, `ExchangedTokensRevoked`, `SessionsContinue`, the
action properties `RevocationIsFinal`, `SessionsAreSeparate`, `RemovalIsFinal`,
`UpdatesAreKept`, and `ServerImplementsLedger`. In the last, `RevokeOld` and `LogoutRevoke`
map to `Revoke`, or to a stutter where the document was revoked already; `Save` to `Grant` or
`Exchange` (the token being fresh by the index, the old one revoked by `SuccessorOfRevoked`);
everything else stutters. `LedgerProofs!TokensKeptApart` states what the ledger then gives.

`ExchangesAreBounded` counts. A document's `Holders` are the handlers that may still issue
something in exchange for it: they have found it and not yet revoked it, or have revoked it
and not yet stored the new token. `ExchangesBounded` says that exchanges and holders together are never more
than `Request`. It is not inductive alone, since a `RefreshFind` adds a holder; what makes it so is that a
document that is not revoked has no exchange yet (`SuccessorOfRevoked`), so that all there is
to count are holders, and once it is revoked no handler can become one: then a `Save` turns
a holder into an exchange, and every other end of a handler loses one. The race of
`AuthRaceSingleUse` is therefore bounded by the handlers that were in the window at once.
With one handler the bound is one, and `OneHandlerExchangesOnce` is `SingleUse`.

**RewardClaim.** `IInv == TypeOK /\ RewardHasEvent /\ OneClaimPerKey /\ ClaimIsEntitled /\ \A r \in Request : ClaimHandlerInv(handler[r])`.
`ClaimHandlerInv` says that what a handler read before an await is still so after it. That is
the heart of the matter, and it holds because the facts it reads are *stable*: events are
created and never changed, and progress grows, so a condition that was met stays met
(lemma `EntitledStays`, used in every step that touches the catalog or the progress). A code
change that lets an event be closed or a progress be reset breaks the lemma, and with it
`ClaimIsEntitled`. `OneClaimPerKey` rests on the unique index alone and not on the look for an
earlier claim, which two handlers may both pass. From it: `TypeCorrect`, `ClaimsAreUnique`,
`ClaimsAreEntitled`, `RewardsHaveEvents`, `ClaimsImplementLedger` and, for the ledger,
`LedgerProofs!KeysGrantedOnce`.

**RpcClient.** `RpcInv == RpcTypeOK /\ RoutingMatchesCalls /\ PacketsInv /\ AnswersInv /\ DefiniteAnswer`.
That an answer with a callback is one of the *current* attempt is `RoutingMatchesCalls`, which
rests on the deletion of the callback in every way an attempt may fail; `PacketsInv` says that no packet
runs ahead of its call and each is in one place, so that a handler that refused cannot perform
later. `DefiniteAnswer` alone is not inductive: it speaks of calls that are done, and
`AnswersInv` is the same fact on its way back. From it: `RpcInvariant`, `RpcTypeCorrect`,
`AnswersAreDefinite`, and `ProxiesImplementContract`, where a retry is a stutter, a last error is
`End`, and a socket that closes is one `Fail` of all its calls. `AnswersAreFinal` is an action
property: no answer, timer or socket changes the answer of a call that has ended, because its
callback is gone. `LedgerProofs!EndedCallsAreKnown` proves the invariant of the contract of
the contract itself, and `ContractKept` carries it over to the proxies, through the
refinement.

**Gateway.** `GatewayImplementsRpc` shows that the gateway is one of the environments
`RpcClient` allows, with `Reject` and `Send` taken where guards and pipe say so, and
`GatewayKeepsContract` draws the conclusion: the chain from the routes over the proxies down to
`CallContract` holds, and with it what the contract promises, for the whole gateway. `GatewayInv`
adds to `RpcInv` what `BoundedStaleness` needs. That a token is honoured for `AccessTTL`
seconds is its expiry. That the role in it was held at most `CallTimeout` seconds before the
signature counts is the harder half, as `login` reads the role and signs it any time later: a
login that may still be answered has a current attempt (`RoutingMatchesCalls`), so its timer
has not fired (`TimersInv`), so it was sent less than a timeout ago, and what it has read
since was held then (`LoginsInv`, by `HeldInv`). A login that is older may sign what it likes:
its answer is dropped. `TokensInv` is what remains when the answer has arrived. `LocalsInv`
says which handlers keep such locals, `RequestsInv` that a registration has a role to give,
and `RemovedInv` that a removed account was removed for a request. From it: `StalenessIsBounded`,
`RemovalsAreReported`, `EffectsPrecedeAnswers`. The proof of the step sorts the actions by
what they may change (lemma `StepKinds`), so that most of them are covered by one lemma.

**EventPages.** `PagesInv == TypeOK /\ WalkInv /\ FindInv /\ CountInv /\ NothingSkipped`. The
pages of a walk are cut from lists that differ from page to page, and no recursive definition
relates them; what does is the *rank* of an event, the number of matches that sort before it.
In a sorted result an event without ties stands right after those (lemma `SortedPositions`), so
its rank says which page it is on (`PageIsPiece`). Events are created and never removed, so
ranks only grow (`RanksGrow`). `WalkInv` says what the pages received so far mean in these
terms: an old event that is on none of them has a rank beyond them (`Follows`), so it is
still to come; and an event on page *p* cannot have been further down when the walk began
(`PageHolds`), nor elsewhere if only old events precede it. `FindInv` is the same for the
page that was found and not yet answered, and `CountInv` is what `total` says: it counts no
fewer than the events there were at the start, and unless an event was created between count
and find (`overtaken`), it announces another page as long as an old event is missing. From it: `WalkSkipsNothing`, `RepeatsWerePushed` (the
second page an event is on says that something not there at the start precedes it) and
`QuietWalksAreLists` (nothing new precedes anything, so every event stands at its rank). The
proofs show where the exceptions in these properties are needed: `Untied` is used for every rank, `overtaken` only
for a walk that ends by the total. If events could be deleted, or their sort field changed, `RanksGrow`
would fail and `NothingSkipped` with it.

**Only model-checked.** `EveryRequestAnswered` of both services and `EveryCallEnds`: liveness
under fairness is out of the prover's reach. Every invariant and every action property of the
passing runs has its theorem. The violations are counterexamples
of TLC and need no proof.

## 5. Not modelled

Not modelled: database configuration, module wiring, logging and documentation decorators (no
behaviour of their own); `validate-config.ts`, `validation-options.ts`, the `jwt.strategy.ts`
of auth-server and the schema copies of `libs/shared` (used by no handler); the lengths and
formats that DTOs ask of fields (only which routes have a DTO that may refuse); bcrypt and JWT
cryptography (external, modelled by what callers see); `GetRewardClaim` and `findAll` of
rewards, each one read that returns what it read; the restart of the gateway, which keeps
nothing and drops the connections of its clients with their calls.

`Gateway` is not composed with `AuthServer` itself. It keeps of accounts what its routes do to
them, in the same steps (find, then save; read, then sign); the product of the two would check
no further property, since no refresh gets through the gateway (the 401 of section 3) and the
service does not keep access tokens. `AuthServer` models the refresh as written, for a caller
that sends the field the service reads.

What could follow: a bound on how much later than its call an operation may still be
performed. The code has none, so that would be a change of the program first.
