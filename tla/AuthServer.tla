------------------------------ MODULE AuthServer ------------------------------
(***************************************************************************)
(* auth-server: AuthService over the collections `users` and               *)
(* `refreshtokens`.  A refresh token is a JWT {userID, role, iat} signed   *)
(* with the refresh secret: two tokens signed for the same user and role   *)
(* in the same second are the same string.  Login and refresh end in the   *)
(* same two private methods, generateTokens (Sign) and saveRefreshToken    *)
(* (Save).  Time is counted in seconds, the resolution of iat.             *)
(***************************************************************************)
EXTENDS Users, Sequences, FiniteSets

CONSTANTS RefreshTTL,   \* JWT_REFRESH_EXPIRATION_TIME, in seconds
          MaxTime,      \* bound: the clock stops here
          MaxTokens     \* bound: logins and refreshes start below this many documents

ASSUME BoundsAssumption == RefreshTTL \in Nat /\ MaxTime \in Nat /\ MaxTokens \in Nat

VARIABLES refreshTokens,   \* the collection, in insertion order; never deleted from
          now

vars == <<handler, users, refreshTokens, now>>

Time == 0..MaxTime

Token == [userID : UserId, role : Role, iat : Time]

(* A stored document.  `from` is history, not a field of the schema: the position of
   the document whose token was exchanged for this one, 0 for a login. *)
RefreshTokenDoc == [token : Token, isRevoked : BOOLEAN, from : Nat]

Docs == DOMAIN refreshTokens

(* Handlers between two awaits. *)
Revoking   == [pc : {"revoke"}, doc : Nat]                                  \* refreshToken, step 3
Signing    == [pc : {"sign"}, user : UserId, role : Role, from : Nat]       \* generateTokens
Saving     == [pc : {"save"}, token : Token, from : Nat]                    \* saveRefreshToken
LoggingOut == [pc : {"logout"}, user : UserId]                              \* logout, updateOne

HandlerState ==
  FreeSlot \cup Updating \cup Revoking \cup Signing \cup Saving \cup LoggingOut

TypeOK ==
  /\ users \in [UserId -> UserDoc \cup NoUserDoc]
  /\ handler \in [Request -> HandlerState]
  /\ refreshTokens \in Seq(RefreshTokenDoc)
  /\ now \in Time

Init ==
  /\ InitHandlers
  /\ UsersInit
  /\ refreshTokens = <<>>
  /\ now = 0

-----------------------------------------------------------------------------
(* Login.  findOne by email (not unique: any match), then bcrypt.compare on the copy. *)
WithEmail(email) == {u \in Live : users[u].email = email}

LoginVerify(r) ==
  /\ IsFree(r)
  /\ Len(refreshTokens) < MaxTokens
  /\ \E email \in Email, password \in Password : \E u \in WithEmail(email) :
       /\ users[u].password = Hash(password)
       /\ Continue(r, [pc |-> "sign", user |-> u, role |-> users[u].role, from |-> 0])
  /\ UNCHANGED <<users, refreshTokens, now>>

LoginRefused(r) ==
  /\ IsFree(r)
  /\ \E email \in Email, password \in Password :
       \/ WithEmail(email) = {}
       \/ \E u \in WithEmail(email) : users[u].password # Hash(password)
  /\ Reply(r, 401)
  /\ UNCHANGED <<users, refreshTokens, now>>

(* generateTokens: iat is the second of the signature. *)
Sign(r) ==
  LET h == handler[r] IN
  /\ h.pc = "sign"
  /\ Continue(r, [pc |-> "save", from |-> h.from,
                  token |-> [userID |-> h.user, role |-> h.role, iat |-> now]])
  /\ UNCHANGED <<users, refreshTokens, now>>

(* saveRefreshToken: the unique index on token refuses a token that is already stored. *)
IsStored(t) == \E i \in Docs : refreshTokens[i].token = t

(* Mutant: no unique index on token. *)
SaveUnindexed(r) ==
  LET h == handler[r] IN
  /\ h.pc = "save"
  /\ refreshTokens' = Append(refreshTokens,
                             [token |-> h.token, isRevoked |-> FALSE, from |-> h.from])
  /\ Written(r, 500)
  /\ UNCHANGED <<users, now>>

(* Mutant: an upsert by token, which makes a revoked token usable again. *)
SaveUpsert(r) ==
  LET h == handler[r]
      doc == [token |-> h.token, isRevoked |-> FALSE, from |-> h.from] IN
  /\ h.pc = "save"
  /\ refreshTokens' = IF IsStored(h.token)
                        THEN [i \in Docs |-> IF refreshTokens[i].token = h.token
                                               THEN doc ELSE refreshTokens[i]]
                        ELSE Append(refreshTokens, doc)
  /\ Written(r, 500)
  /\ UNCHANGED <<users, now>>

(* Mutant: a refused token is signed again, in the same second as likely as not. *)
SaveRetrying(r) ==
  LET h == handler[r] IN
  /\ h.pc = "save"
  /\ \/ /\ ~IsStored(h.token)
        /\ refreshTokens' = Append(refreshTokens,
                                   [token |-> h.token, isRevoked |-> FALSE, from |-> h.from])
        /\ Written(r, 500)
     \/ /\ IsStored(h.token)
        /\ Continue(r, [pc |-> "sign", user |-> h.token.userID, role |-> h.token.role,
                        from |-> h.from])
        /\ UNCHANGED refreshTokens
  /\ UNCHANGED <<users, now>>

Save(r) ==
  LET h == handler[r] IN
  /\ h.pc = "save"
  /\ \/ /\ ~IsStored(h.token)
        /\ refreshTokens' = Append(refreshTokens,
                                   [token |-> h.token, isRevoked |-> FALSE, from |-> h.from])
        /\ Written(r, 500)
     \/ /\ IsStored(h.token)
        /\ Reply(r, 500)
        /\ UNCHANGED refreshTokens
  /\ UNCHANGED <<users, now>>

-----------------------------------------------------------------------------
(* Refresh.  Steps 1 and 2 of refreshToken: verify the JWT, find its document.  Any
   token the server ever stored may be presented, as often as a client likes. *)
Expired(t) == now >= t.iat + RefreshTTL

(* Mutant: the document is found and its isRevoked not looked at. *)
RefreshFindRevoked(r) ==
  /\ IsFree(r)
  /\ Len(refreshTokens) < MaxTokens
  /\ \E i \in Docs :
       /\ ~Expired(refreshTokens[i].token)
       /\ Continue(r, [pc |-> "revoke", doc |-> i])
  /\ UNCHANGED <<users, refreshTokens, now>>

RefreshFind(r) ==
  /\ IsFree(r)
  /\ Len(refreshTokens) < MaxTokens
  /\ \E i \in Docs :
       /\ ~Expired(refreshTokens[i].token)
       /\ ~refreshTokens[i].isRevoked
       /\ Continue(r, [pc |-> "revoke", doc |-> i])
  /\ UNCHANGED <<users, refreshTokens, now>>

(* An expired or revoked token; a string that is no token of ours ends the same way. *)
RefreshRefused(r) ==
  /\ IsFree(r)
  /\ \E i \in Docs : Expired(refreshTokens[i].token) \/ refreshTokens[i].isRevoked
  /\ Reply(r, 401)
  /\ UNCHANGED <<users, refreshTokens, now>>

(* Mutant: step 3 is forgotten. *)
RevokeNothing(r) ==
  LET i == handler[r].doc
      t == refreshTokens[i].token IN
  /\ handler[r].pc = "revoke"
  /\ Continue(r, [pc |-> "sign", user |-> t.userID, role |-> t.role, from |-> i])
  /\ UNCHANGED <<users, refreshTokens, now>>

(* Step 3, updateOne by _id; the payload of the old token goes into the new one.  Where the
   acknowledgement is lost, the token is revoked and the client has no new one. *)
RevokeOld(r) ==
  LET i == handler[r].doc
      t == refreshTokens[i].token IN
  /\ handler[r].pc = "revoke"
  /\ refreshTokens' = [refreshTokens EXCEPT ![i].isRevoked = TRUE]
  /\ \/ Continue(r, [pc |-> "sign", user |-> t.userID, role |-> t.role, from |-> i])
     \/ Reply(r, 500)
  /\ UNCHANGED <<users, now>>

-----------------------------------------------------------------------------
(* Logout.  The request carries the userID of the access token and no refresh token. *)
LogoutFind(r) ==
  /\ IsFree(r)
  /\ \E u \in Live : Continue(r, [pc |-> "logout", user |-> u])
  /\ UNCHANGED <<users, refreshTokens, now>>

LogoutUnknown(r) ==
  /\ IsFree(r)
  /\ \E u \in UserId : users[u].state = "removed"
  /\ Reply(r, 200)
  /\ UNCHANGED <<users, refreshTokens, now>>

(* updateOne({userID}): one document of the user, revoked already or not; MongoDB
   promises no order, so any of them. *)
DocsOf(u) == {i \in Docs : refreshTokens[i].token.userID = u}

(* Mutant: the userID is undefined, and mongoose drops it from the filter. *)
LogoutRevokeAnyone(r) ==
  /\ handler[r].pc = "logout"
  /\ \/ \E i \in Docs : refreshTokens' = [refreshTokens EXCEPT ![i].isRevoked = TRUE]
     \/ /\ Docs = {}
        /\ UNCHANGED refreshTokens
  /\ Written(r, 500)
  /\ UNCHANGED <<users, now>>

LogoutRevoke(r) ==
  /\ handler[r].pc = "logout"
  /\ \/ \E i \in DocsOf(handler[r].user) :
          refreshTokens' = [refreshTokens EXCEPT ![i].isRevoked = TRUE]
     \/ /\ DocsOf(handler[r].user) = {}
        /\ UNCHANGED refreshTokens
  /\ Written(r, 500)
  /\ UNCHANGED <<users, now>>

-----------------------------------------------------------------------------
Tick ==
  /\ now < MaxTime
  /\ now' = now + 1
  /\ UNCHANGED <<handler, users, refreshTokens>>

SessionStep(r) ==
  \/ LoginVerify(r) \/ LoginRefused(r) \/ Sign(r) \/ Save(r)
  \/ RefreshFind(r) \/ RefreshRefused(r) \/ RevokeOld(r)
  \/ LogoutFind(r) \/ LogoutUnknown(r) \/ LogoutRevoke(r)

Next ==
  \/ \E r \in Request : UsersStep(r) /\ UNCHANGED <<refreshTokens, now>>
  \/ \E r \in Request : SessionStep(r)
  \/ \E r \in Request : AwaitFails(r) /\ UNCHANGED <<users, refreshTokens, now>>
  \/ Restart /\ UNCHANGED <<users, refreshTokens, now>>
  \/ Tick

Spec == Init /\ [][Next]_vars

(* Every await resolves: the database answers, and Node runs the continuation.  What
   clients send, the clock and crashes are not fair. *)
Resume(r) ==
  \/ UpdateSave(r) /\ UNCHANGED <<refreshTokens, now>>
  \/ Sign(r) \/ Save(r) \/ RevokeOld(r) \/ LogoutRevoke(r)

FairSpec == Spec /\ \A r \in Request : WF_vars(Resume(r))

-----------------------------------------------------------------------------
(* Two stored documents never hold the same token, whatever logins and refreshes of one
   user coincide (saveRefreshToken, the unique index on token). *)
UniqueToken ==
  \A i, j \in Docs : refreshTokens[i].token = refreshTokens[j].token => i = j

(* A handler that is about to issue a token in exchange for the one of document h.from. *)
Issuing(h) == h.pc \in {"sign", "save"} /\ h.from # 0

(* A token is exchanged only after it is revoked: at no moment are a token and the one
   issued for it both usable, crashes between the steps of refreshToken included. *)
SuccessorOfRevoked ==
  /\ \A i \in Docs : refreshTokens[i].from # 0 => refreshTokens[refreshTokens[i].from].isRevoked
  /\ \A r \in Request : Issuing(handler[r]) => refreshTokens[handler[r].from].isRevoked

(* A refresh continues the session it was given: same user and role, and strictly later
   iat, so that a chain of n exchanges takes at least n seconds (refreshToken, which
   copies the payload and refuses a token that is already stored). *)
SuccessorContinuesSession ==
  \A i \in Docs : refreshTokens[i].from # 0 =>
    LET old == refreshTokens[refreshTokens[i].from].token
        new == refreshTokens[i].token IN
    old.userID = new.userID /\ old.role = new.role /\ old.iat < new.iat

(* A revoked token stays in the collection and is never usable again, by no interleaving
   of login, refresh, logout and removal of its user. *)
RevokedForever ==
  [][\A i \in Docs : refreshTokens[i].isRevoked =>
       refreshTokens'[i].isRevoked /\ refreshTokens'[i].token = refreshTokens[i].token]_vars

(* Nobody else's logout or refresh ends a session: a token becomes revoked only in a
   handler that was given that token, or that logs its user out. *)
OthersKeepTheirSession ==
  [][\A i \in Docs : refreshTokens'[i].isRevoked # refreshTokens[i].isRevoked =>
       \E r \in Request :
         \/ handler[r].pc = "revoke" /\ handler[r].doc = i
         \/ handler[r].pc = "logout" /\ handler[r].user = refreshTokens[i].token.userID]_vars

(* What a client may rely on when it sends one request at a time, and README.md:290
   promises without that proviso: a refresh token is exchanged at most once. *)
SingleUse ==
  \A i, j \in Docs :
    refreshTokens[i].from = refreshTokens[j].from /\ refreshTokens[i].from # 0 => i = j

(* The documents issued in exchange for the one of i, and the handlers that may still issue
   one. *)
Exchanges(i) == {j \in Docs : refreshTokens[j].from = i}
Holds(h, i)  == (h.pc = "revoke" /\ h.doc = i) \/ (Issuing(h) /\ h.from = i)
Holders(i)   == {r \in Request : Holds(handler[r], i)}

(* What is left of that promise when one token is presented many times at once: only the
   handlers that found it before the first of them revoked it exchange it, and each of
   them once, so there are never more exchanges than there were handlers at one time. *)
ExchangesBounded ==
  \A i \in Docs : Cardinality(Exchanges(i)) + Cardinality(Holders(i)) <= Cardinality(Request)

(* README.md:290, a refresh issues a new token: a refresh that comes as far as
   saveRefreshToken stores one. *)
RotationIssues ==
  [][\A r \in Request :
       Save(r) /\ handler[r].from # 0 => Len(refreshTokens') > Len(refreshTokens)]_vars

(* auth.controller.ts:60, logout blacklists the refresh token of the session: a user with
   one usable token has none after it. *)
LiveDocsOf(u) == {i \in DocsOf(u) : ~refreshTokens[i].isRevoked}

LogoutEndsSession ==
  [][\A r \in Request, u \in UserId :
       LogoutRevoke(r) /\ handler[r].user = u /\ Cardinality(LiveDocsOf(u)) = 1
         => LiveDocsOf(u)' = {}]_vars

(* Every request the server has begun is answered, unless it is restarted (in which case
   the slot is free as well): no await is waited for in vain. *)
EveryRequestAnswered == \A r \in Request : ~IsFree(r) ~> IsFree(r)

-----------------------------------------------------------------------------
(* Documents refer only to earlier ones, and no token is signed in the future. *)
HistoryInv ==
  \A i \in Docs : refreshTokens[i].from < i /\ refreshTokens[i].token.iat <= now

(* A handler keeps the position of a stored document, and a token it is about to issue in
   exchange has the user and the role of the old one and is not signed before it. *)
HandlerInv(h) ==
  LET old == refreshTokens[h.from].token IN
  /\ h.pc = "revoke" => h.doc \in Docs
  /\ h.pc \in {"sign", "save"} => h.from \in Docs \cup {0}
  /\ h.pc = "sign" /\ h.from # 0 => h.user = old.userID /\ h.role = old.role
  /\ h.pc = "save" => h.token.iat <= now
  /\ h.pc = "save" /\ h.from # 0 =>
       h.token.userID = old.userID /\ h.token.role = old.role /\ old.iat <= h.token.iat

HandlersInv == \A r \in Request : HandlerInv(handler[r])

(* The inductive invariant of the handlers and the collection: every step of login,
   refresh and logout keeps it, and the safety properties above follow from it. *)
IInv == TypeOK /\ HistoryInv /\ HandlersInv
          /\ UniqueToken /\ SuccessorOfRevoked /\ SuccessorContinuesSession

-----------------------------------------------------------------------------
(* The collection seen as the abstract ledger. *)
TokensOf(docs) == {refreshTokens[i].token : i \in docs}

LiveTokens    == TokensOf({i \in Docs : ~refreshTokens[i].isRevoked})
RevokedTokens == TokensOf({i \in Docs : refreshTokens[i].isRevoked})
Exchanged     == {<<refreshTokens[refreshTokens[i].from].token, refreshTokens[i].token>> :
                    i \in {j \in Docs : refreshTokens[j].from # 0}}

Ledger == INSTANCE TokenLedger WITH
  live <- LiveTokens, revoked <- RevokedTokens, successor <- Exchanged

(* The handlers implement the ledger: whatever their interleaving, each step grants,
   exchanges or revokes one token as the ledger allows, or leaves it alone. *)
ImplementsLedger == Ledger!Spec

=============================================================================
