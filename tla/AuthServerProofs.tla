-------------------------- MODULE AuthServerProofs --------------------------
(***************************************************************************)
(* For any users, any number of handlers and any bounds: the invariant of  *)
(* AuthServer is inductive, its safety properties follow, and the handlers *)
(* implement the abstract TokenLedger.                                     *)
(*                                                                         *)
(* Only two things ever happen to the collection: a document is appended   *)
(* (saveRefreshToken) and one is revoked (refreshToken, logout).  The      *)
(* first two lemmas say what each leaves alone; every step proof cites     *)
(* one of them.                                                            *)
(***************************************************************************)
EXTENDS AuthServer, FiniteSetTheorems, SequenceTheorems, TLAPS

(* Appending a document changes no other (saveRefreshToken). *)
LEMMA AppendDoc ==
  ASSUME NEW docs \in Seq(RefreshTokenDoc), NEW d \in RefreshTokenDoc
  PROVE  LET new == Append(docs, d) IN
         /\ new \in Seq(RefreshTokenDoc)
         /\ DOMAIN docs = 1..Len(docs)
         /\ DOMAIN new = 1..(Len(docs) + 1)
         /\ \A i \in DOMAIN docs : new[i] = docs[i]
         /\ new[Len(docs) + 1] = d
         /\ Len(docs) \in Nat
BY AppendProperties

(* What the type invariant says of each stored document. *)
LEMMA DocTypes ==
  ASSUME TypeOK
  PROVE  /\ Docs = 1..Len(refreshTokens)
         /\ \A i \in Docs : /\ refreshTokens[i] \in RefreshTokenDoc
                           /\ refreshTokens[i].from \in Nat
                           /\ refreshTokens[i].token \in Token
                           /\ refreshTokens[i].token.iat \in Nat
                           /\ i \in Nat
<1>1. Docs = 1..Len(refreshTokens) /\ \A i \in Docs : refreshTokens[i] \in RefreshTokenDoc
  BY DEF TypeOK, Docs
<1>. QED  BY <1>1 DEF RefreshTokenDoc, Token, Time

(* updateOne({$set: {isRevoked: true}}) on one document: tokens and history stay. *)
LEMMA RevokeDoc ==
  ASSUME NEW docs \in Seq(RefreshTokenDoc), NEW i \in DOMAIN docs
  PROVE  LET new == [docs EXCEPT ![i].isRevoked = TRUE] IN
         /\ new \in Seq(RefreshTokenDoc)
         /\ DOMAIN new = DOMAIN docs
         /\ \A j \in DOMAIN docs :
              /\ new[j].token = docs[j].token
              /\ new[j].from = docs[j].from
              /\ new[j].isRevoked = (IF j = i THEN TRUE ELSE docs[j].isRevoked)
<1> DEFINE d == [docs[i] EXCEPT !.isRevoked = TRUE]
<1>1. docs[i] \in RefreshTokenDoc /\ i \in 1..Len(docs)
  OBVIOUS
<1>2. d \in RefreshTokenDoc /\ d.token = docs[i].token /\ d.from = docs[i].from /\ d.isRevoked = TRUE
  BY <1>1 DEF RefreshTokenDoc
<1>3. [docs EXCEPT ![i].isRevoked = TRUE] = [docs EXCEPT ![i] = d]
  OBVIOUS
<1>. HIDE DEF d
<1>4. /\ [docs EXCEPT ![i] = d] \in Seq(RefreshTokenDoc)
      /\ DOMAIN [docs EXCEPT ![i] = d] = DOMAIN docs
      /\ \A j \in DOMAIN docs : [docs EXCEPT ![i] = d][j] = IF j = i THEN d ELSE docs[j]
  BY <1>1, <1>2, ExceptSeq
<1>. QED  BY <1>2, <1>3, <1>4

-----------------------------------------------------------------------------
(* A step that changes one handler, and perhaps a user, keeps the invariant if the
   handler's new state is one of those the invariant allows. *)
LEMMA HandlerMoves ==
  ASSUME IInv, NEW r \in Request, NEW h \in HandlerState,
         Continue(r, h), HandlerInv(h), Issuing(h) => refreshTokens[h.from].isRevoked,
         users' \in [UserId -> UserDoc \cup NoUserDoc],
         UNCHANGED <<refreshTokens, now>>
  PROVE  IInv'
<1>1. handler' \in [Request -> HandlerState]
  BY DEF IInv, TypeOK, Continue
<1>2. \A q \in Request : handler'[q] = (IF q = r THEN h ELSE handler[q])
  BY DEF IInv, TypeOK, Continue
<1>3. TypeOK'
  BY <1>1 DEF IInv, TypeOK
<1>4. HistoryInv'
  BY DEF IInv, HistoryInv, Docs
<1>5. HandlersInv'
  BY <1>2 DEF IInv, HandlersInv, HandlerInv, Docs
<1>6. UniqueToken' /\ SuccessorContinuesSession'
  BY DEF IInv, UniqueToken, SuccessorContinuesSession, Docs
<1>7. SuccessorOfRevoked'
  BY <1>2 DEF IInv, SuccessorOfRevoked, Issuing, Docs
<1>. QED  BY <1>3, <1>4, <1>5, <1>6, <1>7 DEF IInv

(* An answer frees the slot, and a free slot is always allowed. *)
LEMMA HandlerReplies ==
  ASSUME IInv, NEW r \in Request, NEW status \in Status, Reply(r, status) \/ Written(r, status),
         users' \in [UserId -> UserDoc \cup NoUserDoc],
         UNCHANGED <<refreshTokens, now>>
  PROVE  IInv'
<1>1. ASSUME NEW s \in Status
      PROVE  LET h == [pc |-> "free", reply |-> s] IN
             h \in HandlerState /\ HandlerInv(h) /\ ~Issuing(h)
  BY DEF HandlerState, FreeSlot, HandlerInv, Issuing
<1>2. 200 \in Status
  BY DEF Status
<1>. QED  BY <1>1, <1>2, HandlerMoves DEF Reply, Written

-----------------------------------------------------------------------------
(* A state names its handler: the pc tells which locals there are. *)
LEMMA HandlerShape ==
  ASSUME TypeOK, NEW r \in Request
  PROVE  /\ handler[r].pc = "update" => handler[r] \in Updating
         /\ handler[r].pc = "revoke" => handler[r] \in Revoking
         /\ handler[r].pc = "sign"   => handler[r] \in Signing
         /\ handler[r].pc = "save"   => handler[r] \in Saving
         /\ handler[r].pc = "logout" => handler[r] \in LoggingOut
BY DEF TypeOK, HandlerState, FreeSlot, Updating, Revoking, Signing, Saving, LoggingOut

(* The operations of UsersService keep the invariant. *)
LEMMA UsersStepKeeps ==
  ASSUME IInv, NEW r \in Request, UsersStep(r), UNCHANGED <<refreshTokens, now>>
  PROVE  IInv'
<1>t. TypeOK /\ users \in [UserId -> UserDoc \cup NoUserDoc]
  BY DEF IInv, TypeOK
<1>1. CASE Register(r)
  <2>1. users' \in [UserId -> UserDoc \cup NoUserDoc]
    BY <1>1, <1>t DEF Register, CreateUserDto, UserDoc
  <2>. QED  BY <1>1, <2>1, HandlerReplies DEF Register, Status
<1>2. CASE RegisterDuplicate(r)
  BY <1>2, <1>t, HandlerReplies DEF RegisterDuplicate, Status
<1>3. CASE UpdateFind(r)
  <2>1. PICK u \in Live, dto \in UpdateUserDto :
          Continue(r, [pc |-> "update", user |-> u, dto |-> dto, loadedRole |-> users[u].role])
    BY <1>3 DEF UpdateFind
  <2> DEFINE h == [pc |-> "update", user |-> u, dto |-> dto, loadedRole |-> users[u].role]
  <2>2. u \in UserId /\ users[u].role \in Role
    BY <1>t DEF Live, IsLive, UserDoc, NoUserDoc
  <2>3. h \in HandlerState /\ HandlerInv(h) /\ ~Issuing(h)
    BY <2>2 DEF HandlerState, Updating, HandlerInv, Issuing
  <2>. QED  BY <1>3, <1>t, <2>1, <2>3, HandlerMoves DEF UpdateFind
<1>4. CASE UpdateUnknown(r)
  BY <1>4, <1>t, HandlerReplies DEF UpdateUnknown, Status
<1>5. CASE UpdateSave(r)
  <2> DEFINE h == handler[r]
  <2>1. h \in Updating
    BY <1>5, <1>t, HandlerShape DEF UpdateSave
  <2>2. ASSUME NEW doc \in UserDoc
        PROVE  Saved(doc, h) \in UserDoc
    BY <2>1 DEF Updating, UpdateUserDto, UserDoc, Saved, RoleModified, PasswordModified
  <2>3. IsLive(h.user) => users[h.user] \in UserDoc
    BY <1>t, <2>1 DEF IsLive, UserDoc, NoUserDoc, Updating
  <2>4. users' \in [UserId -> UserDoc \cup NoUserDoc]
    BY <1>5, <1>t, <2>1, <2>2, <2>3 DEF UpdateSave
  <2>. QED  BY <1>5, <2>4, HandlerReplies DEF UpdateSave, Status
<1>6. CASE Remove(r)
  <2>1. users' \in [UserId -> UserDoc \cup NoUserDoc]
    <3>1. PICK u \in Live : users' = [users EXCEPT ![u] = [state |-> "removed"]]
      BY <1>6 DEF Remove
    <3>2. [state |-> "removed"] \in NoUserDoc
      BY DEF NoUserDoc
    <3>. QED  BY <1>t, <3>1, <3>2
  <2>. QED  BY <1>6, <2>1, HandlerReplies DEF Remove, Status
<1>7. CASE RemoveUnknown(r)
  BY <1>7, <1>t, HandlerReplies DEF RemoveUnknown, Status
<1>. QED  BY <1>1, <1>2, <1>3, <1>4, <1>5, <1>6, <1>7 DEF UsersStep

-----------------------------------------------------------------------------
(* Starting and signing: steps of a session that leave the collection alone. *)
LEMMA SessionReadsKeep ==
  ASSUME IInv, NEW r \in Request,
         \/ LoginVerify(r) \/ LoginRefused(r) \/ Sign(r) \/ RefreshFind(r) \/ RefreshRefused(r)
         \/ LogoutFind(r) \/ LogoutUnknown(r)
  PROVE  IInv'
<1>t. TypeOK /\ users \in [UserId -> UserDoc \cup NoUserDoc]
  BY DEF IInv, TypeOK
<1>1. CASE LoginVerify(r)
  <2>1. PICK email \in Email : \E u \in WithEmail(email) :
          Continue(r, [pc |-> "sign", user |-> u, role |-> users[u].role, from |-> 0])
    BY <1>1 DEF LoginVerify
  <2>2. PICK u \in WithEmail(email) :
          Continue(r, [pc |-> "sign", user |-> u, role |-> users[u].role, from |-> 0])
    BY <2>1
  <2> DEFINE h == [pc |-> "sign", user |-> u, role |-> users[u].role, from |-> 0]
  <2>3. u \in UserId /\ users[u].role \in Role
    BY <1>t DEF WithEmail, Live, IsLive, UserDoc, NoUserDoc
  <2>4. h \in HandlerState /\ HandlerInv(h) /\ ~Issuing(h)
    BY <2>3 DEF HandlerState, Signing, HandlerInv, Issuing
  <2>. QED  BY <1>1, <1>t, <2>2, <2>4, HandlerMoves DEF LoginVerify
<1>2. CASE LoginRefused(r)
  BY <1>2, <1>t, HandlerReplies DEF LoginRefused, Status
<1>3. CASE Sign(r)
  <2> DEFINE g == handler[r]
             h == [pc |-> "save", from |-> g.from,
                   token |-> [userID |-> g.user, role |-> g.role, iat |-> now]]
  <2>1. g \in Signing /\ HandlerInv(g) /\ now \in Time
    BY <1>3, <1>t, HandlerShape DEF Sign, IInv, HandlersInv, TypeOK
  <2>2. h \in HandlerState
    BY <2>1 DEF HandlerState, Signing, Saving, Token
  <2>3. HandlerInv(h)
    <3>1. g.from # 0 => refreshTokens[g.from].token.iat <= now
      BY <2>1 DEF HandlerInv, Signing, IInv, HistoryInv
    <3>. QED  BY <2>1, <3>1 DEF HandlerInv, Signing, Time
  <2>4. Issuing(h) => refreshTokens[h.from].isRevoked
    BY <2>1 DEF Issuing, Signing, IInv, SuccessorOfRevoked
  <2>. QED  BY <1>3, <1>t, <2>2, <2>3, <2>4, HandlerMoves DEF Sign
<1>4. CASE RefreshFind(r)
  <2>1. PICK i \in Docs : Continue(r, [pc |-> "revoke", doc |-> i])
    BY <1>4 DEF RefreshFind
  <2> DEFINE h == [pc |-> "revoke", doc |-> i]
  <2>2. i \in Nat
    BY <1>t DEF TypeOK, Docs
  <2>3. h \in HandlerState /\ HandlerInv(h) /\ ~Issuing(h)
    BY <2>2 DEF HandlerState, Revoking, HandlerInv, Issuing
  <2>. QED  BY <1>4, <1>t, <2>1, <2>3, HandlerMoves DEF RefreshFind
<1>5. CASE RefreshRefused(r)
  BY <1>5, <1>t, HandlerReplies DEF RefreshRefused, Status
<1>6. CASE LogoutFind(r)
  <2>1. PICK u \in Live : Continue(r, [pc |-> "logout", user |-> u])
    BY <1>6 DEF LogoutFind
  <2> DEFINE h == [pc |-> "logout", user |-> u]
  <2>2. h \in HandlerState /\ HandlerInv(h) /\ ~Issuing(h)
    BY DEF Live, HandlerState, LoggingOut, HandlerInv, Issuing
  <2>. QED  BY <1>6, <1>t, <2>1, <2>2, HandlerMoves DEF LogoutFind
<1>7. CASE LogoutUnknown(r)
  BY <1>7, <1>t, HandlerReplies DEF LogoutUnknown, Status
<1>. QED  BY <1>1, <1>2, <1>3, <1>4, <1>5, <1>6, <1>7

(* saveRefreshToken: the appended document refers to an earlier, revoked one, and its
   token is new, hence later than the token it was issued for. *)
LEMMA SaveKeeps ==
  ASSUME IInv, NEW r \in Request, Save(r)
  PROVE  IInv'
<1> DEFINE h == handler[r]
           d == [token |-> h.token, isRevoked |-> FALSE, from |-> h.from]
           n == Len(refreshTokens) + 1
<1>t. /\ users' \in [UserId -> UserDoc \cup NoUserDoc]
      /\ refreshTokens \in Seq(RefreshTokenDoc)
      /\ now \in Time
  BY DEF IInv, TypeOK, Save
<1>1. h \in Saving /\ HandlerInv(h) /\ h.pc = "save"
  BY HandlerShape DEF Save, IInv, HandlersInv
<1>2. CASE IsStored(h.token)
  BY <1>2, <1>t, HandlerReplies DEF Save, Status
<1>3. CASE ~IsStored(h.token)
  <2>1. refreshTokens' = Append(refreshTokens, d) /\ UNCHANGED now
    BY <1>3 DEF Save
  <2>2. d \in RefreshTokenDoc
    BY <1>1 DEF Saving, RefreshTokenDoc
  <2>3. /\ refreshTokens' \in Seq(RefreshTokenDoc)
        /\ Docs = 1..Len(refreshTokens)
        /\ Docs' = 1..n
        /\ \A i \in Docs : refreshTokens'[i] = refreshTokens[i]
        /\ refreshTokens'[n] = d
        /\ n \in Nat /\ n \notin Docs /\ Docs' = Docs \cup {n}
    BY <2>1, <2>2, <1>t, AppendDoc DEF Docs
  <2>4. /\ handler' \in [Request -> HandlerState]
        /\ \A q \in Request : q # r => handler'[q] = handler[q]
        /\ handler'[r].pc = "free"
    <3>1. PICK status \in Status : handler' = [handler EXCEPT ![r] = [pc |-> "free", reply |-> status]]
      BY <1>3 DEF Save, Written, Reply, Continue, Status
    <3>. QED  BY <3>1 DEF IInv, TypeOK, HandlerState, FreeSlot
  <2>5. \A i \in Docs : refreshTokens[i] \in RefreshTokenDoc
    BY <1>t DEF Docs
  <2>6. h.from \in Docs \cup {0} /\ d.from = h.from /\ d.token = h.token
    BY <1>1 DEF HandlerInv
  <2>7. TypeOK'
    BY <1>t, <2>1, <2>3, <2>4 DEF TypeOK
  <2>8. HistoryInv'
    BY <1>1, <2>1, <2>3, <2>6 DEF IInv, HistoryInv, HandlerInv
  <2>9. HandlersInv'
    <3>1. ASSUME NEW q \in Request, q # r  PROVE HandlerInv(handler[q])'
      <4>1. HandlerInv(handler[q]) /\ handler'[q] = handler[q]
        BY <2>4, <3>1 DEF IInv, HandlersInv
      <4>. QED  BY <2>1, <2>3, <4>1 DEF HandlerInv
    <3>2. HandlerInv(handler[r])'
      BY <2>4 DEF HandlerInv
    <3>. QED  BY <3>1, <3>2 DEF HandlersInv
  <2>10. UniqueToken'
    BY <1>3, <2>3, <2>6 DEF IInv, UniqueToken, IsStored
  <2>11. SuccessorOfRevoked'
    <3>1. \A i \in Docs' : refreshTokens'[i].from # 0 => refreshTokens'[refreshTokens'[i].from].isRevoked
      <4>1. \A i \in Docs : refreshTokens[i].from # 0 =>
              refreshTokens[i].from \in Docs /\ refreshTokens[refreshTokens[i].from].isRevoked
        BY <2>3, <2>5 DEF IInv, HistoryInv, SuccessorOfRevoked, RefreshTokenDoc
      <4>2. h.from # 0 => h.from \in Docs /\ refreshTokens[h.from].isRevoked
        BY <1>1, <2>6 DEF IInv, SuccessorOfRevoked, Issuing
      <4>. QED  BY <2>3, <2>6, <4>1, <4>2
    <3>2. ASSUME NEW q \in Request, Issuing(handler'[q])
          PROVE  refreshTokens'[handler'[q].from].isRevoked
      <4>1. handler'[q] = handler[q]
        BY <2>4, <3>2 DEF Issuing
      <4>2. HandlerInv(handler[q]) /\ refreshTokens[handler[q].from].isRevoked
        BY <3>2, <4>1 DEF IInv, HandlersInv, SuccessorOfRevoked
      <4>3. handler[q].from \in Docs
        BY <3>2, <4>1, <4>2 DEF HandlerInv, Issuing
      <4>. QED  BY <2>3, <4>1, <4>2, <4>3
    <3>3. \A q \in Request : Issuing(handler[q])' <=> Issuing(handler'[q])
      BY DEF Issuing
    <3>. QED  BY <3>1, <3>2, <3>3 DEF SuccessorOfRevoked
  <2>12. SuccessorContinuesSession'
    <3>1. \A i \in Docs : refreshTokens[i].from # 0 => refreshTokens[i].from \in Docs
      BY <2>3, <2>5 DEF IInv, HistoryInv, RefreshTokenDoc
    <3>2. h.from # 0 =>
            LET old == refreshTokens[h.from].token IN
            old.userID = h.token.userID /\ old.role = h.token.role /\ old.iat < h.token.iat
      <4> SUFFICES ASSUME h.from # 0
                   PROVE  LET old == refreshTokens[h.from].token IN
                          old.userID = h.token.userID /\ old.role = h.token.role
                            /\ old.iat < h.token.iat
        OBVIOUS
      <4> DEFINE old == refreshTokens[h.from].token
      <4>1. h.from \in Docs /\ old \in Token /\ h.token \in Token
        BY <1>1, <2>5, <2>6 DEF Saving, RefreshTokenDoc
      <4>2. old.userID = h.token.userID /\ old.role = h.token.role /\ old.iat <= h.token.iat
        BY <1>1, <2>6 DEF HandlerInv
      <4>3. old # h.token
        BY <1>3, <4>1 DEF IsStored
      <4>4. old.iat # h.token.iat
        BY <4>1, <4>2, <4>3 DEF Token
      <4>. QED  BY <4>1, <4>2, <4>4 DEF Token, Time
    <3>3. ASSUME NEW i \in Docs', refreshTokens'[i].from # 0
          PROVE  LET old == refreshTokens'[refreshTokens'[i].from].token
                     new == refreshTokens'[i].token IN
                 old.userID = new.userID /\ old.role = new.role /\ old.iat < new.iat
      <4>1. CASE i \in Docs
        BY <2>3, <3>1, <3>3, <4>1 DEF IInv, SuccessorContinuesSession
      <4>2. CASE i = n
        BY <2>3, <2>6, <3>2, <3>3, <4>2
      <4>. QED  BY <2>3, <3>3, <4>1, <4>2
    <3>. QED  BY <3>3 DEF SuccessorContinuesSession
  <2>. QED  BY <2>7, <2>8, <2>9, <2>10, <2>11, <2>12 DEF IInv
<1>. QED  BY <1>2, <1>3

-----------------------------------------------------------------------------
(* Revoking a stored document, in a handler that ends or goes on to sign its successor,
   keeps the invariant: everything it says of a token survives the revocation. *)
LEMMA RevocationKeeps ==
  ASSUME IInv, NEW r \in Request, NEW i \in Docs, NEW h \in HandlerState,
         refreshTokens' = [refreshTokens EXCEPT ![i].isRevoked = TRUE],
         Continue(r, h), HandlerInv(h), Issuing(h) => h.from = i,
         UNCHANGED <<users, now>>
  PROVE  IInv'
<1>1. /\ refreshTokens' \in Seq(RefreshTokenDoc)
      /\ Docs' = Docs
      /\ \A j \in Docs : /\ refreshTokens'[j].token = refreshTokens[j].token
                         /\ refreshTokens'[j].from = refreshTokens[j].from
                         /\ refreshTokens'[j].isRevoked =
                              (IF j = i THEN TRUE ELSE refreshTokens[j].isRevoked)
  BY RevokeDoc DEF IInv, TypeOK, Docs
<1>2. /\ handler' \in [Request -> HandlerState]
      /\ \A q \in Request : handler'[q] = (IF q = r THEN h ELSE handler[q])
  BY DEF IInv, TypeOK, Continue
<1>3. \A j \in Docs : refreshTokens[j].from # 0 => refreshTokens[j].from \in Docs
  <2>1. \A j \in Docs : refreshTokens[j].from \in Nat /\ refreshTokens[j].from < j
    BY DocTypes DEF IInv, HistoryInv
  <2>. QED  BY <2>1, DocTypes DEF IInv
<1>4. \A q \in Request : HandlerInv(handler'[q])
  BY <1>2 DEF IInv, HandlersInv
<1>5. \A q \in Request : Issuing(handler'[q]) => handler'[q].from \in Docs
  BY <1>4 DEF HandlerInv, Issuing
<1>6. TypeOK'
  BY <1>1, <1>2 DEF IInv, TypeOK
<1>7. HistoryInv'
  BY <1>1 DEF IInv, HistoryInv
<1>8. HandlersInv'
  <2>1. ASSUME NEW q \in Request  PROVE HandlerInv(handler[q])'
    BY <1>1, <1>4, <1>5, <2>1 DEF HandlerInv, Issuing
  <2>. QED  BY <2>1 DEF HandlersInv
<1>9. UniqueToken'
  BY <1>1 DEF IInv, UniqueToken
<1>10. SuccessorOfRevoked'
  <2>1. \A j \in Docs' : refreshTokens'[j].from # 0 => refreshTokens'[refreshTokens'[j].from].isRevoked
    BY <1>1, <1>3 DEF IInv, SuccessorOfRevoked
  <2>2. ASSUME NEW q \in Request, Issuing(handler'[q])
        PROVE  refreshTokens'[handler'[q].from].isRevoked
    <3>1. CASE q = r
      BY <1>1, <1>2, <2>2, <3>1
    <3>2. CASE q # r
      BY <1>1, <1>2, <1>5, <2>2, <3>2 DEF IInv, SuccessorOfRevoked
    <3>. QED  BY <3>1, <3>2
  <2>3. \A q \in Request : Issuing(handler[q])' <=> Issuing(handler'[q])
    BY DEF Issuing
  <2>. QED  BY <2>1, <2>2, <2>3 DEF SuccessorOfRevoked
<1>11. SuccessorContinuesSession'
  BY <1>1, <1>3 DEF IInv, SuccessorContinuesSession
<1>. QED  BY <1>6, <1>7, <1>8, <1>9, <1>10, <1>11 DEF IInv

(* The revocation of a refresh, of the document its handler found. *)
LEMMA RevokeOldKeeps ==
  ASSUME IInv, NEW r \in Request, RevokeOld(r)
  PROVE  IInv'
<1> DEFINE i == handler[r].doc
           t == refreshTokens[i].token
           h == [pc |-> "sign", user |-> t.userID, role |-> t.role, from |-> i]
<1>1. i \in Docs
  BY DEF IInv, HandlersInv, HandlerInv, RevokeOld
<1>2. t \in Token /\ i \in Nat
  BY <1>1, DocTypes DEF IInv
<1>3. h \in HandlerState /\ HandlerInv(h)
  BY <1>1, <1>2 DEF HandlerState, Signing, HandlerInv, Token
<1>4. CASE Continue(r, h)
  BY <1>1, <1>3, <1>4, RevocationKeeps DEF RevokeOld, Issuing
<1>5. CASE Reply(r, 500)
  <2> DEFINE g == [pc |-> "free", reply |-> 500]
  <2>1. g \in HandlerState /\ HandlerInv(g) /\ ~Issuing(g)
    BY DEF HandlerState, FreeSlot, Status, HandlerInv, Issuing
  <2>2. Continue(r, g)
    BY <1>5 DEF Reply
  <2>3. /\ refreshTokens' = [refreshTokens EXCEPT ![i].isRevoked = TRUE]
        /\ UNCHANGED <<users, now>>
    BY DEF RevokeOld
  <2>. QED  BY <1>1, <2>1, <2>2, <2>3, RevocationKeeps
<1>. QED  BY <1>4, <1>5 DEF RevokeOld

(* The updateOne of a logout, whichever document it picks. *)
LEMMA LogoutRevokeKeeps ==
  ASSUME IInv, NEW r \in Request, LogoutRevoke(r)
  PROVE  IInv'
<1>1. CASE DocsOf(handler[r].user) = {} /\ UNCHANGED refreshTokens
  BY <1>1, HandlerReplies DEF LogoutRevoke, IInv, TypeOK, Status
<1>2. ASSUME NEW i \in DocsOf(handler[r].user),
             refreshTokens' = [refreshTokens EXCEPT ![i].isRevoked = TRUE]
      PROVE  IInv'
  <2>1. PICK status \in Status : Continue(r, [pc |-> "free", reply |-> status])
    BY DEF LogoutRevoke, Written, Reply, Status
  <2> DEFINE h == [pc |-> "free", reply |-> status]
  <2>2. h \in HandlerState /\ HandlerInv(h) /\ ~Issuing(h)
    BY DEF HandlerState, FreeSlot, HandlerInv, Issuing
  <2>. QED  BY <1>2, <2>1, <2>2, RevocationKeeps DEF LogoutRevoke, DocsOf
<1>. QED  BY <1>1, <1>2 DEF LogoutRevoke

(* A restart only frees slots. *)
LEMMA RestartKeeps ==
  ASSUME IInv, Restart, UNCHANGED <<users, refreshTokens, now>>
  PROVE  IInv'
<1>1. \A q \in Request : \/ handler'[q] = handler[q]
                         \/ handler'[q] = [pc |-> "free", reply |-> 0]
  BY DEF Restart
<1>2. handler' \in [Request -> HandlerState]
  BY DEF Restart, IInv, TypeOK, HandlerState, FreeSlot, Status
<1>3. \A q \in Request : HandlerInv(handler'[q]) /\ (Issuing(handler'[q]) => handler'[q] = handler[q])
  BY <1>1 DEF IInv, HandlersInv, HandlerInv, Issuing
<1>4. TypeOK' /\ HistoryInv' /\ UniqueToken' /\ SuccessorContinuesSession'
  BY <1>2 DEF IInv, TypeOK, HistoryInv, UniqueToken, SuccessorContinuesSession, Docs
<1>5. HandlersInv'
  BY <1>3 DEF HandlersInv, HandlerInv, Docs
<1>6. SuccessorOfRevoked'
  <2>1. \A q \in Request : Issuing(handler[q])' <=> Issuing(handler'[q])
    BY DEF Issuing
  <2>. QED  BY <1>3, <2>1 DEF IInv, SuccessorOfRevoked, Docs
<1>. QED  BY <1>4, <1>5, <1>6 DEF IInv

(* Time passing leaves every signature in the past. *)
LEMMA TickKeeps ==
  ASSUME IInv, Tick
  PROVE  IInv'
<1>1. now \in Nat /\ now' = now + 1 /\ now' \in Time
  BY BoundsAssumption DEF IInv, TypeOK, Tick, Time
<1>2. TypeOK' /\ UniqueToken' /\ SuccessorOfRevoked' /\ SuccessorContinuesSession'
  BY <1>1 DEF Tick, IInv, TypeOK, UniqueToken, SuccessorOfRevoked, SuccessorContinuesSession, Docs, Issuing
<1>3. HistoryInv'
  <2>1. \A i \in Docs : refreshTokens[i].token.iat \in Nat
    BY DocTypes DEF IInv
  <2>. QED  BY <1>1, <2>1 DEF Tick, IInv, HistoryInv, Docs
<1>4. HandlersInv'
  <2>1. ASSUME NEW q \in Request  PROVE HandlerInv(handler[q])'
    <3>1. handler[q].pc = "save" => handler[q].token.iat \in Nat
      BY HandlerShape DEF IInv, Saving, Token, Time
    <3>2. HandlerInv(handler[q])
      BY DEF IInv, HandlersInv
    <3>. QED  BY <1>1, <3>1, <3>2 DEF Tick, HandlerInv, Docs
  <2>. QED  BY <2>1 DEF HandlersInv
<1>. QED  BY <1>2, <1>3, <1>4 DEF IInv

-----------------------------------------------------------------------------
(* An await that rejects only ends its handler. *)
LEMMA AwaitFailsKeeps ==
  ASSUME IInv, NEW r \in Request, AwaitFails(r), UNCHANGED <<users, refreshTokens, now>>
  PROVE  IInv'
BY HandlerReplies DEF AwaitFails, IInv, TypeOK, Status

(* All steps of the handlers of AuthService together. *)
LEMMA SessionStepKeeps ==
  ASSUME IInv, NEW r \in Request, SessionStep(r)
  PROVE  IInv'
BY SessionReadsKeep, SaveKeeps, RevokeOldKeeps, LogoutRevokeKeeps DEF SessionStep

(* The empty server satisfies the invariant. *)
LEMMA InitInv == Init => IInv
<1> SUFFICES ASSUME Init PROVE IInv
  OBVIOUS
<1>1. Docs = {} /\ refreshTokens \in Seq(RefreshTokenDoc)
  BY DEF Init, Docs
<1>2. handler = [r \in Request |-> [pc |-> "free", reply |-> 0]]
  BY DEF Init, InitHandlers
<1>3. TypeOK
  <2>1. handler \in [Request -> HandlerState]
    BY <1>2 DEF HandlerState, FreeSlot, Status
  <2>2. users \in [UserId -> UserDoc \cup NoUserDoc]
    <3>1. [state |-> "absent"] \in NoUserDoc
      BY DEF NoUserDoc
    <3>. QED  BY <3>1 DEF Init, UsersInit
  <2>. QED  BY <1>1, <2>1, <2>2, BoundsAssumption DEF Init, TypeOK, Time
<1>4. HandlersInv
  BY <1>2 DEF HandlersInv, HandlerInv
<1>5. SuccessorOfRevoked
  BY <1>1, <1>2 DEF SuccessorOfRevoked, Issuing
<1>6. HistoryInv /\ UniqueToken /\ SuccessorContinuesSession
  BY <1>1 DEF HistoryInv, UniqueToken, SuccessorContinuesSession
<1>. QED  BY <1>3, <1>4, <1>5, <1>6 DEF IInv

(* Every step keeps it. *)
LEMMA NextInv == IInv /\ [Next]_vars => IInv'
<1> SUFFICES ASSUME IInv, [Next]_vars PROVE IInv'
  OBVIOUS
<1>1. CASE \E r \in Request : UsersStep(r) /\ UNCHANGED <<refreshTokens, now>>
  BY <1>1, UsersStepKeeps
<1>2. CASE \E r \in Request : SessionStep(r)
  BY <1>2, SessionStepKeeps
<1>3. CASE \E r \in Request : AwaitFails(r) /\ UNCHANGED <<users, refreshTokens, now>>
  BY <1>3, AwaitFailsKeeps
<1>4. CASE Restart /\ UNCHANGED <<users, refreshTokens, now>>
  BY <1>4, RestartKeeps
<1>5. CASE Tick
  BY <1>5, TickKeeps
<1>6. CASE UNCHANGED vars
  BY <1>6 DEF vars, IInv, TypeOK, HistoryInv, HandlersInv, HandlerInv, UniqueToken,
              SuccessorOfRevoked, SuccessorContinuesSession, Docs, Issuing
<1>. QED  BY <1>1, <1>2, <1>3, <1>4, <1>5, <1>6 DEF Next

(* In every behaviour of the server the invariant holds: AuthService with any users, any
   handlers in flight, crashes and database errors. *)
THEOREM Invariance == Spec => []IInv
BY InitInv, NextInv, PTL DEF Spec

(* Type correctness of the handlers and of both collections (AuthService). *)
THEOREM TypeCorrect == Spec => []TypeOK
<1>1. IInv => TypeOK
  BY DEF IInv
<1>. QED  BY <1>1, Invariance, PTL

(* No two documents hold the same token (saveRefreshToken). *)
THEOREM TokensUnique == Spec => []UniqueToken
<1>1. IInv => UniqueToken
  BY DEF IInv
<1>. QED  BY <1>1, Invariance, PTL

(* A token and the one issued in exchange for it are never both usable (refreshToken). *)
THEOREM ExchangedTokensRevoked == Spec => []SuccessorOfRevoked
<1>1. IInv => SuccessorOfRevoked
  BY DEF IInv
<1>. QED  BY <1>1, Invariance, PTL

(* A refresh continues one session, at a strictly later second (refreshToken). *)
THEOREM SessionsContinue == Spec => []SuccessorContinuesSession
<1>1. IInv => SuccessorContinuesSession
  BY DEF IInv
<1>. QED  BY <1>1, Invariance, PTL

-----------------------------------------------------------------------------
(* What a step may do to the collection: nothing, one append, or one revocation by a
   handler that was given the token or that logs its user out. *)
Appends(r) ==
  /\ handler[r].pc = "save"
  /\ ~IsStored(handler[r].token)
  /\ refreshTokens' = Append(refreshTokens, [token |-> handler[r].token, isRevoked |-> FALSE,
                                             from |-> handler[r].from])
  /\ \E status \in Status : Reply(r, status)

Revokes(r, i) ==
  /\ \/ handler[r].pc = "revoke" /\ handler[r].doc = i
     \/ handler[r].pc = "logout" /\ handler[r].user = refreshTokens[i].token.userID
  /\ refreshTokens' = [refreshTokens EXCEPT ![i].isRevoked = TRUE]

(* What a step may do to the collection: leave it, append one document, or revoke one. *)
LEMMA StepShape ==
  ASSUME IInv, [Next]_vars
  PROVE  \/ UNCHANGED refreshTokens
         \/ \E r \in Request : Appends(r)
         \/ \E r \in Request, i \in Docs : Revokes(r, i)
<1>1. ASSUME NEW r \in Request, SessionStep(r)
      PROVE  UNCHANGED refreshTokens \/ Appends(r) \/ \E i \in Docs : Revokes(r, i)
  <2>1. CASE Save(r)
    BY <2>1 DEF Save, Appends, Written, Status
  <2>2. CASE RevokeOld(r)
    <3>1. handler[r].doc \in Docs
      BY <2>2 DEF RevokeOld, IInv, HandlersInv, HandlerInv
    <3>. QED  BY <2>2, <3>1 DEF RevokeOld, Revokes
  <2>3. CASE LogoutRevoke(r)
    BY <2>3 DEF LogoutRevoke, DocsOf, Revokes
  <2>. QED
    BY <1>1, <2>1, <2>2, <2>3 DEF SessionStep, LoginVerify, LoginRefused, Sign, RefreshFind,
       RefreshRefused, LogoutFind, LogoutUnknown
<1>. QED  BY <1>1 DEF Next, Tick, vars

(* A stored document as the step leaves it. *)
LEMMA DocAfterStep ==
  ASSUME IInv, [Next]_vars, NEW i \in Docs
  PROVE  /\ i \in Docs'
         /\ refreshTokens'[i].token = refreshTokens[i].token
         /\ refreshTokens'[i].isRevoked # refreshTokens[i].isRevoked =>
              /\ refreshTokens'[i].isRevoked = TRUE
              /\ \E r \in Request : Revokes(r, i)
<1>t. refreshTokens \in Seq(RefreshTokenDoc)
  BY DEF IInv, TypeOK
<1>1. CASE UNCHANGED refreshTokens
  BY <1>1 DEF Docs
<1>2. ASSUME NEW r \in Request, Appends(r)
      PROVE  i \in Docs' /\ refreshTokens'[i] = refreshTokens[i]
  <2>1. [token |-> handler[r].token, isRevoked |-> FALSE, from |-> handler[r].from] \in RefreshTokenDoc
    BY <1>2, HandlerShape DEF Appends, IInv, Saving, RefreshTokenDoc
  <2>. QED  BY <1>2, <1>t, <2>1, AppendDoc DEF Appends, Docs
<1>3. ASSUME NEW r \in Request, NEW j \in Docs, Revokes(r, j)
      PROVE  /\ i \in Docs'
             /\ refreshTokens'[i].token = refreshTokens[i].token
             /\ refreshTokens'[i].isRevoked = (IF i = j THEN TRUE ELSE refreshTokens[i].isRevoked)
  BY <1>3, <1>t, RevokeDoc DEF Revokes, Docs
<1>4. CASE \E r \in Request, j \in Docs : Revokes(r, j)
  BY <1>3, <1>4
<1>. QED  BY <1>1, <1>2, <1>4, StepShape

(* No interleaving of login, refresh, logout, removal and crashes makes a revoked token
   usable again (AuthService). *)
THEOREM RevocationIsFinal == Spec => RevokedForever
<1>1. ASSUME IInv, [Next]_vars
      PROVE  [\A i \in Docs : refreshTokens[i].isRevoked =>
               refreshTokens'[i].isRevoked /\ refreshTokens'[i].token = refreshTokens[i].token]_vars
  BY <1>1, DocAfterStep
<1>. QED  BY <1>1, Invariance, PTL DEF Spec, RevokedForever

(* A token becomes revoked only in a refresh that presents it or a logout of its user
   (refreshToken, logout). *)
THEOREM SessionsAreSeparate == Spec => OthersKeepTheirSession
<1>1. ASSUME IInv, [Next]_vars
      PROVE  [\A i \in Docs : refreshTokens'[i].isRevoked # refreshTokens[i].isRevoked =>
               \E r \in Request :
                 \/ handler[r].pc = "revoke" /\ handler[r].doc = i
                 \/ handler[r].pc = "logout" /\ handler[r].user = refreshTokens[i].token.userID]_vars
  BY <1>1, DocAfterStep DEF Revokes
<1>. QED  BY <1>1, Invariance, PTL DEF Spec, OthersKeepTheirSession

-----------------------------------------------------------------------------
(* The handler that appends is the one that is done, and no other moves. *)
LEMMA AppendFrees ==
  ASSUME IInv, NEW r \in Request, Appends(r)
  PROVE  /\ handler'[r].pc = "free"
         /\ \A q \in Request : q # r => handler'[q] = handler[q]
<1>1. PICK status : handler' = [handler EXCEPT ![r] = [pc |-> "free", reply |-> status]]
  BY DEF Appends, Reply, Continue
<1>. QED  BY <1>1 DEF IInv, TypeOK

(* What a step may do to the documents issued for one token: nothing, or one append by a
   handler that held it and is then done. *)
LEMMA ExchangesAfterStep ==
  ASSUME IInv, [Next]_vars, NEW i \in Docs
  PROVE  \/ Exchanges(i)' = Exchanges(i)
         \/ \E r \in Request : \E n :
              /\ Holds(handler[r], i) /\ refreshTokens[i].isRevoked
              /\ ~Holds(handler'[r], i)
              /\ n \notin Exchanges(i) /\ Exchanges(i)' = Exchanges(i) \cup {n}
<1>t. refreshTokens \in Seq(RefreshTokenDoc) /\ i # 0
  BY DocTypes DEF IInv, TypeOK
<1>1. CASE UNCHANGED refreshTokens
  BY <1>1 DEF Exchanges, Docs
<1>2. ASSUME NEW r \in Request, NEW j \in Docs, Revokes(r, j)
      PROVE  Exchanges(i)' = Exchanges(i)
  BY <1>2, <1>t, RevokeDoc DEF Revokes, Exchanges, Docs
<1>3. ASSUME NEW r \in Request, Appends(r)
      PROVE  \/ Exchanges(i)' = Exchanges(i)
             \/ \E n : /\ Holds(handler[r], i) /\ refreshTokens[i].isRevoked
                      /\ ~Holds(handler'[r], i)
                      /\ n \notin Exchanges(i) /\ Exchanges(i)' = Exchanges(i) \cup {n}
  <2> DEFINE d == [token |-> handler[r].token, isRevoked |-> FALSE, from |-> handler[r].from]
             n == Len(refreshTokens) + 1
  <2>1. d \in RefreshTokenDoc /\ d.from = handler[r].from
    BY <1>3, HandlerShape DEF Appends, IInv, Saving, RefreshTokenDoc
  <2>2. /\ Docs' = Docs \cup {n} /\ n \notin Docs
        /\ \A j \in Docs : refreshTokens'[j] = refreshTokens[j]
        /\ refreshTokens'[n] = d
    BY <1>3, <1>t, <2>1, AppendDoc DEF Appends, Docs
  <2>3. CASE handler[r].from # i
    BY <2>1, <2>2, <2>3 DEF Exchanges
  <2>4. CASE handler[r].from = i
    <3>1. Exchanges(i)' = Exchanges(i) \cup {n} /\ n \notin Exchanges(i)
      BY <2>1, <2>2, <2>4 DEF Exchanges
    <3>2. Issuing(handler[r])
      BY <1>3, <1>t, <2>4 DEF Appends, Issuing
    <3>3. Holds(handler[r], i) /\ refreshTokens[i].isRevoked
      BY <2>4, <3>2 DEF Holds, IInv, SuccessorOfRevoked
    <3>4. handler'[r].pc = "free"
      BY <1>3, AppendFrees DEF IInv
    <3>5. ~Holds(handler'[r], i)
      BY <3>4 DEF Holds, Issuing
    <3>. QED  BY <3>1, <3>3, <3>5
  <2>. QED  BY <2>3, <2>4
<1>. QED  BY <1>1, <1>2, <1>3, StepShape

(* A handler comes to hold a token only by finding it, and does not find a revoked one. *)
LEMMA HoldersAfterStep ==
  ASSUME IInv, [Next]_vars, NEW i \in Docs, NEW q \in Request,
         Holds(handler'[q], i), ~Holds(handler[q], i)
  PROVE  ~refreshTokens[i].isRevoked /\ UNCHANGED refreshTokens
<1>t. handler \in [Request -> HandlerState] /\ i # 0
  BY DocTypes DEF IInv, TypeOK
<1>1. ASSUME NEW r \in Request, NEW h, Continue(r, h)
      PROVE  q = r /\ handler'[q] = h
  BY <1>1, <1>t DEF Continue
<1>2. ASSUME NEW r \in Request, NEW status, Reply(r, status) \/ Written(r, status)
      PROVE  FALSE
  <2>1. PICK s : Continue(r, [pc |-> "free", reply |-> s])
    BY <1>2 DEF Reply, Written
  <2>2. handler'[q] = [pc |-> "free", reply |-> s]
    BY <1>1, <2>1
  <2>. QED  BY <2>2 DEF Holds, Issuing
<1>3. ASSUME NEW r \in Request, UsersStep(r)  PROVE FALSE
  <2>1. CASE UpdateFind(r)
    <3>1. PICK u, dto, role : Continue(r, [pc |-> "update", user |-> u, dto |-> dto, loadedRole |-> role])
      BY <2>1 DEF UpdateFind
    <3>2. handler'[q].pc = "update"
      BY <1>1, <3>1
    <3>. QED  BY <3>2 DEF Holds, Issuing
  <2>. QED
    BY <1>2, <1>3, <2>1 DEF UsersStep, Register, RegisterDuplicate, UpdateUnknown, UpdateSave,
       Remove, RemoveUnknown
<1>4. ASSUME NEW r \in Request, SessionStep(r)
      PROVE  RefreshFind(r)
  <2>1. CASE LoginVerify(r)
    <3>1. PICK u, role : Continue(r, [pc |-> "sign", user |-> u, role |-> role, from |-> 0])
      BY <2>1 DEF LoginVerify
    <3>2. handler'[q].pc = "sign" /\ handler'[q].from = 0
      BY <1>1, <3>1
    <3>. QED  BY <3>2, <1>t DEF Holds, Issuing
  <2>2. CASE Sign(r)
    <3>1. PICK t : Continue(r, [pc |-> "save", from |-> handler[r].from, token |-> t])
      BY <2>2 DEF Sign
    <3>2. q = r /\ handler'[q].pc = "save" /\ handler'[q].from = handler[q].from
      BY <1>1, <3>1
    <3>. QED  BY <2>2, <3>2 DEF Holds, Issuing, Sign
  <2>3. CASE RevokeOld(r)
    <3>1. CASE Reply(r, 500)
      BY <1>2, <3>1
    <3>2. ASSUME NEW u, NEW role,
                 Continue(r, [pc |-> "sign", user |-> u, role |-> role, from |-> handler[r].doc])
          PROVE  FALSE
      <4>1. q = r /\ handler'[q].pc = "sign" /\ handler'[q].from = handler[q].doc
        BY <1>1, <3>2
      <4>. QED  BY <2>3, <4>1 DEF Holds, Issuing, RevokeOld
    <3>. QED  BY <2>3, <3>1, <3>2 DEF RevokeOld
  <2>4. CASE LogoutFind(r)
    <3>1. PICK u : Continue(r, [pc |-> "logout", user |-> u])
      BY <2>4 DEF LogoutFind
    <3>2. handler'[q].pc = "logout"
      BY <1>1, <3>1
    <3>. QED  BY <3>2 DEF Holds, Issuing
  <2>5. CASE LoginRefused(r) \/ Save(r) \/ RefreshRefused(r) \/ LogoutUnknown(r) \/ LogoutRevoke(r)
    BY <1>2, <2>5 DEF LoginRefused, Save, RefreshRefused, LogoutUnknown, LogoutRevoke
  <2>. QED  BY <1>4, <2>1, <2>2, <2>3, <2>4, <2>5 DEF SessionStep
<1>5. ASSUME NEW r \in Request, RefreshFind(r)
      PROVE  ~refreshTokens[i].isRevoked /\ UNCHANGED refreshTokens
  <2>1. PICK j \in Docs : ~refreshTokens[j].isRevoked /\ Continue(r, [pc |-> "revoke", doc |-> j])
    BY <1>5 DEF RefreshFind
  <2>2. handler'[q] = [pc |-> "revoke", doc |-> j]
    BY <1>1, <2>1
  <2>3. j = i
    BY <2>2 DEF Holds, Issuing
  <2>. QED  BY <1>5, <2>1, <2>3 DEF RefreshFind
<1>6. CASE \E r \in Request : AwaitFails(r)
  BY <1>2, <1>6 DEF AwaitFails
<1>7. CASE Restart
  <2>1. handler'[q] = handler[q] \/ handler'[q].pc = "free"
    BY <1>7 DEF Restart
  <2>. QED  BY <2>1 DEF Holds, Issuing
<1>8. CASE UNCHANGED handler
  BY <1>8
<1>. QED  BY <1>3, <1>4, <1>5, <1>6, <1>7, <1>8 DEF Next, Tick, vars

(* A document is appended with nothing issued for it and no handler holding it. *)
LEMMA NewDocIsUnused ==
  ASSUME IInv, IInv', [Next]_vars, NEW i \in Docs', i \notin Docs
  PROVE  Exchanges(i)' = {} /\ Holders(i)' = {}
<1>t. refreshTokens \in Seq(RefreshTokenDoc)
  BY DEF IInv, TypeOK
<1>1. PICK r \in Request : Appends(r)
  <2>1. ASSUME NEW r \in Request, NEW j \in Docs, Revokes(r, j)  PROVE Docs' = Docs
    BY <1>t, <2>1, RevokeDoc DEF Revokes, Docs
  <2>. QED  BY <2>1, StepShape DEF Docs
<1> DEFINE d == [token |-> handler[r].token, isRevoked |-> FALSE, from |-> handler[r].from]
           n == Len(refreshTokens) + 1
<1>2. d \in RefreshTokenDoc
  BY <1>1, HandlerShape DEF Appends, IInv, Saving, RefreshTokenDoc
<1>3. i = n /\ n \in Nat /\ Docs = 1..Len(refreshTokens) /\ Docs' = 1..n
  BY <1>1, <1>t, <1>2, AppendDoc DEF Appends, Docs
<1>4. \A j \in Docs' : refreshTokens'[j].from \in Nat /\ refreshTokens'[j].from < j
  <2>1. \A j \in Docs' : refreshTokens'[j] \in RefreshTokenDoc
    BY DEF IInv, TypeOK, Docs
  <2>. QED  BY <2>1 DEF IInv, HistoryInv, RefreshTokenDoc
<1>5. Exchanges(i)' = {}
  BY <1>3, <1>4 DEF Exchanges
<1>6. ASSUME NEW q \in Request  PROVE ~Holds(handler'[q], i)
  <2>1. CASE q = r
    <3>1. handler'[r].pc = "free"
      BY <1>1, AppendFrees DEF IInv
    <3>. QED  BY <2>1, <3>1 DEF Holds, Issuing
  <2>2. CASE q # r
    <3>1. handler'[q] = handler[q]
      BY <1>1, <2>2, AppendFrees DEF IInv
    <3>2. HandlerInv(handler[q]) /\ i # 0
      BY <1>3 DEF IInv, HandlersInv
    <3>. QED  BY <3>1, <3>2 DEF Holds, Issuing, HandlerInv
  <2>. QED  BY <2>1, <2>2
<1>. QED  BY <1>5, <1>6 DEF Holders, Holds, Issuing

(* A collection is finite, and so is what was issued for one token. *)
LEMMA ExchangesFinite ==
  ASSUME TypeOK, NEW i
  PROVE  IsFiniteSet(Exchanges(i)) /\ Cardinality(Exchanges(i)) \in Nat
<1>1. Docs = 1..Len(refreshTokens) /\ Len(refreshTokens) \in Nat
  BY LenProperties DEF TypeOK, Docs
<1>2. IsFiniteSet(Docs)
  BY <1>1, FS_Interval
<1>. QED  BY <1>2, FS_Subset, FS_CardinalityType DEF Exchanges

(* Each step keeps the bound: a token that is not revoked has not been exchanged at all, and
   a revoked one is held by fewer and fewer handlers. *)
LEMMA BoundedAfterStep ==
  ASSUME IsFiniteSet(Request), IInv, IInv', [Next]_vars, ExchangesBounded
  PROVE  ExchangesBounded'
<1> SUFFICES ASSUME NEW i \in Docs'
             PROVE  Cardinality(Exchanges(i)') + Cardinality(Holders(i)') <= Cardinality(Request)
  BY DEF ExchangesBounded
<1>1. /\ IsFiniteSet(Holders(i)) /\ IsFiniteSet(Holders(i)')
      /\ Cardinality(Holders(i)) \in Nat /\ Cardinality(Holders(i)') \in Nat
      /\ Cardinality(Request) \in Nat /\ Cardinality(Holders(i)') <= Cardinality(Request)
  <2>1. Holders(i) \subseteq Request /\ Holders(i)' \subseteq Request
    BY DEF Holders
  <2>. QED  BY <2>1, FS_Subset, FS_CardinalityType
<1>2. IsFiniteSet(Exchanges(i)) /\ Cardinality(Exchanges(i)) \in Nat
  BY ExchangesFinite DEF IInv
<1>3. CASE i \notin Docs
  BY <1>1, <1>3, NewDocIsUnused, FS_EmptySet
<1>4. CASE i \in Docs /\ ~refreshTokens[i].isRevoked
  <2>1. Exchanges(i) = {}
    BY <1>4, DocTypes DEF Exchanges, IInv, SuccessorOfRevoked
  <2>2. Exchanges(i)' = {}
    BY <1>4, <2>1, ExchangesAfterStep
  <2>. QED  BY <1>1, <2>2, FS_EmptySet
<1>5. CASE i \in Docs /\ refreshTokens[i].isRevoked
  <2>1. Holders(i)' \subseteq Holders(i)
    <3>1. \A q \in Request : Holds(handler'[q], i) => Holds(handler[q], i)
      BY <1>5, HoldersAfterStep
    <3>. QED  BY <3>1 DEF Holders, Holds, Issuing
  <2>2. Cardinality(Exchanges(i)) + Cardinality(Holders(i)) <= Cardinality(Request)
    BY <1>5 DEF ExchangesBounded
  <2>3. CASE Exchanges(i)' = Exchanges(i)
    <3>1. Cardinality(Holders(i)') <= Cardinality(Holders(i))
      BY <1>1, <2>1, FS_Subset
    <3>. QED  BY <1>1, <1>2, <2>2, <2>3, <3>1
  <2>4. ASSUME NEW r \in Request, NEW n,
               Holds(handler[r], i), ~Holds(handler'[r], i),
               n \notin Exchanges(i), Exchanges(i)' = Exchanges(i) \cup {n}
        PROVE  Cardinality(Exchanges(i)') + Cardinality(Holders(i)') <= Cardinality(Request)
    <3>1. Cardinality(Exchanges(i)') = Cardinality(Exchanges(i)) + 1
      BY <1>2, <2>4, FS_AddElement
    <3>2. r \in Holders(i) /\ r \notin Holders(i)'
      BY <2>4 DEF Holders, Holds, Issuing
    <3>3. /\ IsFiniteSet(Holders(i) \ {r}) /\ Holders(i)' \subseteq Holders(i) \ {r}
          /\ Cardinality(Holders(i) \ {r}) = Cardinality(Holders(i)) - 1
      BY <1>1, <2>1, <3>2, FS_RemoveElement
    <3>4. Cardinality(Holders(i)') <= Cardinality(Holders(i)) - 1
      BY <3>3, FS_Subset
    <3>. QED  BY <1>1, <1>2, <2>2, <3>1, <3>4
  <2>. QED  BY <1>5, <2>3, <2>4, ExchangesAfterStep
<1>. QED  BY <1>3, <1>4, <1>5

(* A refresh token presented to n handlers at once is exchanged at most n times, however
   often it is presented later (refreshToken, which finds first and revokes next). *)
THEOREM ExchangesAreBounded ==
  ASSUME IsFiniteSet(Request)
  PROVE  Spec => []ExchangesBounded
<1>1. Init => ExchangesBounded
  BY DEF Init, ExchangesBounded, Docs
<1>2. IInv /\ IInv' /\ [Next]_vars /\ ExchangesBounded => ExchangesBounded'
  BY BoundedAfterStep
<1>. QED  BY <1>1, <1>2, Invariance, PTL DEF Spec

(* With one handler at a time a refresh token is exchanged at most once (README.md:290). *)
THEOREM OneHandlerExchangesOnce ==
  ASSUME IsFiniteSet(Request), Cardinality(Request) = 1
  PROVE  Spec => []SingleUse
<1>1. IInv /\ ExchangesBounded => SingleUse
  <2> SUFFICES ASSUME IInv, ExchangesBounded, NEW i \in Docs, NEW j \in Docs,
                      refreshTokens[i].from = refreshTokens[j].from, refreshTokens[i].from # 0, i # j
               PROVE  FALSE
    BY DEF SingleUse
  <2>1. PICK k : k = refreshTokens[i].from
    OBVIOUS
  <2>2. k \in Docs /\ {i, j} \subseteq Exchanges(k)
    BY <2>1, DocTypes DEF IInv, HistoryInv, Exchanges
  <2>3. IsFiniteSet(Exchanges(k)) /\ Cardinality(Exchanges(k)) \in Nat
    BY <2>2, ExchangesFinite DEF IInv
  <2>4. Cardinality(Holders(k)) \in Nat
    BY FS_Subset, FS_CardinalityType DEF Holders
  <2>5. Cardinality({i, j}) = 2
    <3>1. IsFiniteSet({i}) /\ Cardinality({i}) = 1 /\ j \notin {i}
      BY FS_Singleton
    <3>2. Cardinality({i} \cup {j}) = 2
      BY <3>1, FS_AddElement
    <3>3. {i, j} = {i} \cup {j}
      OBVIOUS
    <3>. QED  BY <3>2, <3>3
  <2>6. 2 <= Cardinality(Exchanges(k))
    BY <2>2, <2>3, <2>5, FS_Subset
  <2>7. Cardinality(Exchanges(k)) + Cardinality(Holders(k)) <= 1
    BY <2>2 DEF ExchangesBounded
  <2>. QED  BY <2>3, <2>4, <2>6, <2>7
<1>. QED  BY <1>1, Invariance, ExchangesAreBounded, PTL

-----------------------------------------------------------------------------
(* What a step may do to the documents of users: nothing, or one operation of UsersService. *)
LEMMA UsersShape ==
  ASSUME [Next]_vars
  PROVE  \/ UNCHANGED users
         \/ \E r \in Request : Register(r) \/ UpdateSave(r) \/ Remove(r)
<1>1. ASSUME NEW r \in Request, UsersStep(r)
      PROVE  UNCHANGED users \/ Register(r) \/ UpdateSave(r) \/ Remove(r)
  BY <1>1 DEF UsersStep, RegisterDuplicate, UpdateFind, UpdateUnknown, RemoveUnknown
<1>2. ASSUME NEW r \in Request, SessionStep(r)  PROVE UNCHANGED users
  BY <1>2 DEF SessionStep, LoginVerify, LoginRefused, Sign, Save, RefreshFind, RefreshRefused,
              RevokeOld, LogoutFind, LogoutUnknown, LogoutRevoke
<1>. QED  BY <1>1, <1>2 DEF Next, Tick, vars

(* No interleaving of updates and removals brings a removed user back (UsersService). *)
THEOREM RemovalIsFinal == Spec => RemovedStaysRemoved
<1>1. ASSUME IInv, [Next]_vars, NEW u \in UserId, users[u].state = "removed"
      PROVE  users'[u].state = "removed"
  <2>1. users \in [UserId -> UserDoc \cup NoUserDoc]
    BY <1>1 DEF IInv, TypeOK
  <2>2. ASSUME NEW r \in Request, Register(r)  PROVE users'[u] = users[u]
    BY <1>1, <2>1, <2>2 DEF Register
  <2>3. ASSUME NEW r \in Request, UpdateSave(r)  PROVE users'[u] = users[u]
    BY <1>1, <2>1, <2>3 DEF UpdateSave, IsLive
  <2>4. ASSUME NEW r \in Request, Remove(r)  PROVE users'[u] = users[u]
    BY <1>1, <2>1, <2>4 DEF Remove, Live, IsLive
  <2>. QED  BY <1>1, <2>2, <2>3, <2>4, UsersShape
<1>2. IInv /\ [Next]_vars =>
        [\A u \in UserId : users[u].state = "removed" => users'[u].state = "removed"]_<<users, handler>>
  BY <1>1
<1>. QED  BY <1>2, Invariance, PTL DEF Spec, RemovedStaysRemoved

(* The save of an update changes the fields its request asked for, of its user. *)
LEMMA UpdateSaveFields ==
  ASSUME IInv, NEW r \in Request, UpdateSave(r), NEW u \in UserId, users'[u] # users[u]
  PROVE  LET h == handler[r] IN
         /\ h.user = u
         /\ users'[u].role \in {users[u].role, h.dto.role}
         /\ users'[u].password = users[u].password
            \/ (PasswordModified(h) /\ users'[u].password = Hash(h.dto.password))
<1> DEFINE h == handler[r]
<1>1. users \in [UserId -> UserDoc \cup NoUserDoc]
  BY DEF IInv, TypeOK
<1>2. IsLive(h.user) /\ users' = [users EXCEPT ![h.user] = Saved(users[h.user], h)]
  BY DEF UpdateSave
<1>3. h.user = u /\ users'[u] = Saved(users[u], h)
  BY <1>1, <1>2
<1>4. users[u] \in UserDoc
  BY <1>1, <1>2, <1>3 DEF IsLive, UserDoc, NoUserDoc
<1>. QED  BY <1>3, <1>4 DEF Saved, UserDoc

(* A field of a user changes only in the save of an update that asked for it, to what was
   asked (UsersService.update, find-then-save). *)
THEOREM UpdatesAreKept == Spec => NoLostUpdate
<1>1. ASSUME IInv, [Next]_vars,
             NEW u \in UserId, IsLive(u), users'[u].state = "live", users'[u] # users[u]
      PROVE  \E r \in Request : UpdateSave(r)
  <2>1. users \in [UserId -> UserDoc \cup NoUserDoc]
    BY <1>1 DEF IInv, TypeOK
  <2>2. ASSUME NEW r \in Request, Register(r)  PROVE users'[u] = users[u]
    BY <1>1, <2>1, <2>2 DEF Register, IsLive
  <2>3. ASSUME NEW r \in Request, Remove(r)  PROVE users'[u] = users[u]
    BY <1>1, <2>1, <2>3 DEF Remove
  <2>. QED  BY <1>1, <2>2, <2>3, UsersShape
<1>2. IInv /\ [Next]_vars =>
        [\A u \in UserId : IsLive(u) /\ IsLive(u)' /\ users'[u] # users[u] =>
           \E r \in Request :
             LET h == handler[r] IN
             /\ UpdateSave(r) /\ h.user = u
             /\ users'[u].role \in {users[u].role, h.dto.role}
             /\ users'[u].password = users[u].password
                \/ (PasswordModified(h) /\ users'[u].password = Hash(h.dto.password))]_<<users, handler>>
  BY <1>1, UpdateSaveFields DEF IsLive
<1>. QED  BY <1>2, Invariance, PTL DEF Spec, NoLostUpdate

-----------------------------------------------------------------------------
ledger == <<LiveTokens, RevokedTokens, Exchanged>>

(* Two of the abstract variables, by their elements. *)
LEMMA LedgerElements ==
  /\ \A t : t \in LiveTokens <=>
       \E i \in Docs : ~refreshTokens[i].isRevoked /\ refreshTokens[i].token = t
  /\ \A t : t \in RevokedTokens <=>
       \E i \in Docs : refreshTokens[i].isRevoked /\ refreshTokens[i].token = t
  /\ \A t : t \in LiveTokens' <=>
       \E i \in Docs' : ~refreshTokens'[i].isRevoked /\ refreshTokens'[i].token = t
  /\ \A t : t \in RevokedTokens' <=>
       \E i \in Docs' : refreshTokens'[i].isRevoked /\ refreshTokens'[i].token = t
BY DEF LiveTokens, RevokedTokens, TokensOf

(* The pairs are as they were when no document is new and none changes token or origin. *)
LEMMA ExchangedKept ==
  ASSUME Docs' = Docs,
         \A i \in Docs : refreshTokens'[i].token = refreshTokens[i].token,
         \A i \in Docs : refreshTokens'[i].from = refreshTokens[i].from,
         \A i \in Docs : refreshTokens[i].from # 0 => refreshTokens[i].from \in Docs
  PROVE  Exchanged' = Exchanged
<1> DEFINE kept == {j \in Docs : refreshTokens[j].from # 0}
           pair(i) == <<refreshTokens[refreshTokens[i].from].token, refreshTokens[i].token>>
<1>1. kept' = kept
  OBVIOUS
<1>2. \A i \in kept : pair(i)' = pair(i)
  OBVIOUS
<1>3. Exchanged = {pair(i) : i \in kept} /\ Exchanged' = {pair(i)' : i \in kept'}
  BY DEF Exchanged
<1>. HIDE DEF kept, pair
<1>. QED  BY <1>1, <1>2, <1>3

(* An append adds one token to the live ones, and one pair if it was an exchange. *)
LEMMA AppendRefines ==
  ASSUME IInv, NEW r \in Request, Appends(r)
  PROVE  Ledger!Next
<1> DEFINE h == handler[r]
           t == h.token
           d == [token |-> t, isRevoked |-> FALSE, from |-> h.from]
           n == Len(refreshTokens) + 1
           old == refreshTokens[h.from].token
<1>1. h \in Saving /\ HandlerInv(h) /\ h.pc = "save" /\ t \in Token
  BY HandlerShape DEF Appends, IInv, HandlersInv, Saving
<1>2. d \in RefreshTokenDoc
  BY <1>1 DEF Saving, RefreshTokenDoc
<1>3. /\ Docs' = Docs \cup {n}
      /\ n \notin Docs
      /\ \A i \in Docs : refreshTokens'[i] = refreshTokens[i]
      /\ refreshTokens'[n] = d
  BY <1>2, AppendDoc DEF Appends, IInv, TypeOK, Docs
<1>4. \A i \in Docs : refreshTokens[i].token # t
  BY DEF Appends, IsStored
<1>5. d.token = t /\ d.isRevoked = FALSE /\ d.from = h.from
  OBVIOUS
<1>. HIDE DEF d, n
<1>6. LiveTokens' = LiveTokens \cup {t}
  BY <1>3, <1>5 DEF LiveTokens, RevokedTokens, TokensOf
<1>7. RevokedTokens' = RevokedTokens
  BY <1>3, <1>5 DEF LiveTokens, RevokedTokens, TokensOf
<1>8. t \notin LiveTokens \cup RevokedTokens
  BY <1>4 DEF LiveTokens, RevokedTokens, TokensOf
<1>9. \A i \in Docs : refreshTokens[i].from # 0 => refreshTokens[i].from \in Docs
  <2>1. \A i \in Docs : refreshTokens[i].from \in Nat /\ refreshTokens[i].from < i
    BY DocTypes DEF IInv, HistoryInv
  <2>. QED  BY <2>1, DocTypes DEF IInv
<1>10. CASE h.from = 0
  <2>1. Exchanged' = Exchanged
    BY <1>3, <1>5, <1>9, <1>10 DEF Exchanged
  <2>2. Ledger!Grant(t)
    BY <1>6, <1>7, <1>8, <2>1 DEF Ledger!Grant, Ledger!Fresh, Exchanged
  <2>. QED  BY <1>1, <2>2 DEF Ledger!Next
<1>11. CASE h.from # 0
  <2>1. h.from \in Docs /\ refreshTokens[h.from].isRevoked
    BY <1>1, <1>11 DEF HandlerInv, IInv, SuccessorOfRevoked, Issuing
  <2>2. Exchanged' = Exchanged \cup {<<old, t>>}
    BY <1>3, <1>5, <1>9, <1>11, <2>1 DEF Exchanged
  <2>3. old \in RevokedTokens /\ old \in Token
    <3>1. refreshTokens[h.from] \in RefreshTokenDoc /\ old \in Token
      BY <2>1, DocTypes DEF IInv
    <3>2. refreshTokens[h.from].isRevoked = TRUE
      BY <2>1, <3>1 DEF RefreshTokenDoc
    <3>. QED  BY <2>1, <3>1, <3>2 DEF LiveTokens, RevokedTokens, TokensOf
  <2>4. Ledger!Exchange(old, t)
    BY <1>6, <1>7, <1>8, <2>2, <2>3 DEF Ledger!Exchange, Ledger!Fresh, Exchanged
  <2>. QED  BY <1>1, <2>3, <2>4 DEF Ledger!Next
<1>. QED  BY <1>10, <1>11

(* A revocation moves one token from the live to the revoked ones, unless it was there. *)
LEMMA RevocationRefines ==
  ASSUME IInv, NEW r \in Request, NEW i \in Docs, Revokes(r, i)
  PROVE  Ledger!Next \/ UNCHANGED ledger
<1> DEFINE t == refreshTokens[i].token
<1>1. /\ Docs' = Docs
      /\ \A j \in Docs : /\ refreshTokens'[j].token = refreshTokens[j].token
                         /\ refreshTokens'[j].from = refreshTokens[j].from
                         /\ refreshTokens'[j].isRevoked =
                              (IF j = i THEN TRUE ELSE refreshTokens[j].isRevoked)
  BY RevokeDoc DEF Revokes, IInv, TypeOK, Docs
<1>2. \A j \in Docs : refreshTokens[j].isRevoked \in BOOLEAN /\ refreshTokens[j].token \in Token
  BY DocTypes DEF IInv, RefreshTokenDoc
<1>3. \A j \in Docs : refreshTokens[j].from # 0 => refreshTokens[j].from \in Docs
  <2>1. \A j \in Docs : refreshTokens[j].from \in Nat /\ refreshTokens[j].from < j
    BY DocTypes DEF IInv, HistoryInv
  <2>. QED  BY <2>1, DocTypes DEF IInv
<1>4. Exchanged' = Exchanged
  BY <1>1, <1>3, ExchangedKept
<1>5. \A j \in Docs : ~refreshTokens'[j].isRevoked <=> ~refreshTokens[j].isRevoked /\ j # i
  BY <1>1, <1>2
<1>6. \A x : x \in RevokedTokens' <=> x \in RevokedTokens \/ x = t
  <2> SUFFICES ASSUME NEW x
               PROVE  x \in RevokedTokens' <=> x \in RevokedTokens \/ x = t
    OBVIOUS
  <2>1. x \in RevokedTokens' <=> \E j \in Docs : refreshTokens'[j].isRevoked /\ x = refreshTokens'[j].token
    BY <1>1, LedgerElements
  <2>2. x \in RevokedTokens <=> \E j \in Docs : refreshTokens[j].isRevoked /\ x = refreshTokens[j].token
    BY LedgerElements
  <2>. QED  BY <1>1, <1>2, <1>5, <2>1, <2>2
<1>7. \A x : x \in LiveTokens' <=> x \in LiveTokens /\ x # t
  <2> SUFFICES ASSUME NEW x
               PROVE  x \in LiveTokens' <=> x \in LiveTokens /\ x # t
    OBVIOUS
  <2>1. x \in LiveTokens' <=> \E j \in Docs : ~refreshTokens'[j].isRevoked /\ x = refreshTokens'[j].token
    BY <1>1, LedgerElements
  <2>2. x \in LiveTokens <=> \E j \in Docs : ~refreshTokens[j].isRevoked /\ x = refreshTokens[j].token
    BY LedgerElements
  <2>3. \A j \in Docs : refreshTokens[j].token = t => j = i
    BY DEF IInv, UniqueToken
  <2>. QED  BY <1>1, <1>5, <2>1, <2>2, <2>3
<1>8. RevokedTokens' = RevokedTokens \cup {t} /\ LiveTokens' = LiveTokens \ {t}
  BY <1>6, <1>7 DEF LiveTokens, RevokedTokens, TokensOf
<1>9. CASE refreshTokens[i].isRevoked
  <2>1. t \in RevokedTokens /\ t \notin LiveTokens
    BY <1>9, LedgerElements DEF IInv, UniqueToken
  <2>. QED  BY <1>4, <1>8, <2>1 DEF ledger
<1>10. CASE ~refreshTokens[i].isRevoked
  <2>1. t \in LiveTokens /\ t \in Token
    BY <1>2, <1>10, LedgerElements
  <2>2. Ledger!Revoke(t)
    BY <1>4, <1>8, <2>1 DEF Ledger!Revoke, Exchanged
  <2>. QED  BY <2>1, <2>2 DEF Ledger!Next
<1>. QED  BY <1>9, <1>10

(* The handlers of AuthService, in any interleaving, implement the abstract ledger: every
   step grants, exchanges or revokes one token as the ledger allows, or stutters. *)
THEOREM ServerImplementsLedger == Spec => ImplementsLedger
<1>1. Init => Ledger!Init
  <2> SUFFICES ASSUME Init PROVE Ledger!Init
    OBVIOUS
  <2>1. Docs = {}
    BY DEF Init, Docs
  <2>2. LiveTokens = {} /\ RevokedTokens = {}
    BY <2>1 DEF LiveTokens, RevokedTokens, TokensOf
  <2>3. Exchanged = {}
    BY <2>1 DEF Exchanged
  <2>. QED  BY <2>2, <2>3 DEF Ledger!Init, Exchanged
<1>2. ASSUME IInv, [Next]_vars
      PROVE  Ledger!Next \/ UNCHANGED ledger
  <2>1. CASE UNCHANGED refreshTokens
    BY <2>1 DEF ledger, LiveTokens, RevokedTokens, TokensOf, Exchanged, Docs
  <2>. QED  BY <1>2, <2>1, StepShape, AppendRefines, RevocationRefines
<1>3. IInv /\ [Next]_vars => [Ledger!Next]_ledger
  BY <1>2
<1>. QED  BY <1>1, <1>3, Invariance, PTL DEF Spec, ImplementsLedger, Ledger!Spec, ledger, Exchanged

=============================================================================
