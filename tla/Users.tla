-------------------------------- MODULE Users --------------------------------
(***************************************************************************)
(* UsersService over the MongoDB collection `users`: registration, the     *)
(* find-then-save update and removal.  An update reads the document in one *)
(* round trip and saves it in another, so updates and removals of the same *)
(* user interleave.                                                        *)
(***************************************************************************)
EXTENDS RpcHandlers

CONSTANTS UserId,     \* ObjectIds the collection can hand out, never reused
          Email, Username, Password,
          Role,       \* the UserRole enum
          Unset       \* a field the update request leaves out

ASSUME UnsetAssumption == Unset \notin Role /\ Unset \notin Password

VARIABLE users        \* users[u]: the document with _id u, or its absence

(* bcrypt.hash; the salt never matters, so hashes of one text are equal. *)
Hash(password) == [bcrypt |-> password]

UserDoc == [state : {"live"}, email : Email, username : Username,
            password : {Hash(p) : p \in Password}, role : Role]

NoUserDoc == [state : {"absent", "removed"}]

CreateUserDto == [email : Email, username : Username, password : Password, role : Role]
UpdateUserDto == [role : Role \cup {Unset}, password : Password \cup {Unset}]

(* `update` between its findById and its save: the request and what it read. *)
Updating == [pc : {"update"}, user : UserId, dto : UpdateUserDto, loadedRole : Role]

IsLive(u) == users[u].state = "live"
Live      == {u \in UserId : IsLive(u)}

UsersTypeOK ==
  /\ users \in [UserId -> UserDoc \cup NoUserDoc]
  /\ handler \in [Request -> FreeSlot \cup Updating]

UsersInit == users = [u \in UserId |-> [state |-> "absent"]]

-----------------------------------------------------------------------------
UsernameTaken(name) == \E u \in Live : users[u].username = name

(* The document is hashed by the pre-save hook and inserted. *)
Register(r) ==
  /\ IsFree(r)
  /\ \E dto \in CreateUserDto, u \in UserId :
       /\ users[u].state = "absent"
       /\ ~UsernameTaken(dto.username)
       /\ users' = [users EXCEPT ![u] =
                      [state |-> "live", email |-> dto.email, username |-> dto.username,
                       password |-> Hash(dto.password), role |-> dto.role]]
  /\ Written(r, 500)

(* The unique index on username refuses the insert: a MongoServerError, so 500. *)
RegisterDuplicate(r) ==
  /\ IsFree(r)
  /\ \E name \in Username : UsernameTaken(name)
  /\ Reply(r, 500)
  /\ UNCHANGED users

(* findById of the update; the userID comes from the caller's access token. *)
UpdateFind(r) ==
  /\ IsFree(r)
  /\ \E u \in Live, dto \in UpdateUserDto :
       Continue(r, [pc |-> "update", user |-> u, dto |-> dto, loadedRole |-> users[u].role])
  /\ UNCHANGED users

UpdateUnknown(r) ==
  /\ IsFree(r)
  /\ \E u \in UserId : users[u].state = "removed"
  /\ Reply(r, 404)
  /\ UNCHANGED users

(***************************************************************************)
(* Object.assign and save: mongoose writes the paths whose value differs   *)
(* from the one loaded.  The hook hashes the password only when it is one  *)
(* of them; a plain text is never equal to the hash that was loaded.       *)
(***************************************************************************)
RoleModified(h)     == h.dto.role \notin {Unset, h.loadedRole}
PasswordModified(h) == h.dto.password # Unset

(* Mutant: the hook hashes on every save. *)
SavedRehashing(doc, h) ==
  [doc EXCEPT !.role     = IF RoleModified(h) THEN h.dto.role ELSE @,
              !.password = IF PasswordModified(h) THEN Hash(h.dto.password) ELSE Hash(@)]

(* Mutant: the whole loaded document is written back. *)
SavedWhole(doc, h) ==
  [doc EXCEPT !.role     = IF h.dto.role = Unset THEN h.loadedRole ELSE h.dto.role,
              !.password = IF PasswordModified(h) THEN Hash(h.dto.password) ELSE @]

Saved(doc, h) ==
  [doc EXCEPT !.role     = IF RoleModified(h) THEN h.dto.role ELSE @,
              !.password = IF PasswordModified(h) THEN Hash(h.dto.password) ELSE @]

(* Mutant: an upsert, which brings a removed document back. *)
UpdateUpsert(r) ==
  LET h == handler[r] IN
  /\ h.pc = "update"
  /\ users' = [users EXCEPT ![h.user] =
                 IF IsLive(h.user) THEN Saved(@, h) ELSE CHOOSE doc \in UserDoc : TRUE]
  /\ Written(r, 500)

(* The save; on a document removed in the meantime, DocumentNotFoundError. *)
UpdateSave(r) ==
  LET h == handler[r] IN
  /\ h.pc = "update"
  /\ \/ /\ IsLive(h.user)
        /\ users' = [users EXCEPT ![h.user] = Saved(@, h)]
        /\ Written(r, 500)
     \/ /\ ~IsLive(h.user)
        /\ Reply(r, 500)
        /\ UNCHANGED users

(* findByIdAndDelete: one atomic operation of the database. *)
Remove(r) ==
  /\ IsFree(r)
  /\ \E u \in Live : users' = [users EXCEPT ![u] = [state |-> "removed"]]
  /\ Written(r, 500)

RemoveUnknown(r) ==
  /\ IsFree(r)
  /\ \E u \in UserId : users[u].state = "removed"
  /\ Reply(r, 404)
  /\ UNCHANGED users

UsersStep(r) ==
  \/ Register(r) \/ RegisterDuplicate(r)
  \/ UpdateFind(r) \/ UpdateUnknown(r) \/ UpdateSave(r)
  \/ Remove(r) \/ RemoveUnknown(r)

-----------------------------------------------------------------------------
(* Two updates of one user do not overwrite each other: a field changes only in the save
   of a request that asked for it, to the value that request asked for, and no save
   hashes a stored hash again (users.service.ts, find-then-save). *)
NoLostUpdate ==
  [][\A u \in UserId : IsLive(u) /\ IsLive(u)' /\ users'[u] # users[u] =>
       \E r \in Request :
         LET h == handler[r] IN
         /\ UpdateSave(r) /\ h.user = u
         /\ users'[u].role \in {users[u].role, h.dto.role}
         /\ users'[u].password = users[u].password
            \/ (PasswordModified(h) /\ users'[u].password = Hash(h.dto.password))]_<<users, handler>>

(* A removed user stays removed: the save of an update that found it before does not
   bring it back (users.service.ts, update against remove). *)
RemovedStaysRemoved ==
  [][\A u \in UserId : users[u].state = "removed" => users'[u].state = "removed"]_<<users, handler>>

=============================================================================
