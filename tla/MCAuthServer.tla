---------------------------- MODULE MCAuthServer ----------------------------
(***************************************************************************)
(* Instances of AuthServer for TLC.  The sessions runs keep one account    *)
(* and follow its refresh tokens, the accounts run follows its updates,    *)
(* and AuthOneClient has two accounts that share an email, and one request *)
(* at a time.  Handlers, ids and usernames are compared for equality only, *)
(* so safety runs may take them up to permutation.                         *)
(***************************************************************************)
EXTENDS AuthServer, TLC

Symmetry == Permutations(Request) \cup Permutations(UserId) \cup Permutations(Username)
=============================================================================
