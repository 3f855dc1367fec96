----------------------------- MODULE TokenLedger -----------------------------
(***************************************************************************)
(* What the refresh-token store promises, without handlers, collections or *)
(* clocks: a token is granted once, is live until it is revoked, and stays *)
(* revoked; the successor of a token is granted only once that token is    *)
(* revoked, so a token and its successor are never both live.              *)
(***************************************************************************)
CONSTANT Token

VARIABLES live,       \* tokens a refresh may still present
          revoked,    \* tokens it may not present any more
          successor   \* pairs <<old, new>>: new was issued in exchange for old

Fresh(t) == t \notin live \cup revoked

LedgerTypeOK ==
  /\ live \subseteq Token
  /\ revoked \subseteq Token
  /\ successor \subseteq Token \X Token

Init == live = {} /\ revoked = {} /\ successor = {}

Grant(t) ==
  /\ Fresh(t)
  /\ live' = live \cup {t}
  /\ UNCHANGED <<revoked, successor>>

Exchange(old, t) ==
  /\ old \in revoked
  /\ Fresh(t)
  /\ live' = live \cup {t}
  /\ successor' = successor \cup {<<old, t>>}
  /\ UNCHANGED revoked

Revoke(t) ==
  /\ t \in live
  /\ live' = live \ {t}
  /\ revoked' = revoked \cup {t}
  /\ UNCHANGED successor

Next == \E t \in Token : Grant(t) \/ Revoke(t) \/ \E old \in Token : Exchange(old, t)

Spec == Init /\ [][Next]_<<live, revoked, successor>>

-----------------------------------------------------------------------------
(* The ledger keeps live and revoked tokens apart, and a token that was exchanged
   (auth.service.ts, refreshToken) is a revoked one. *)
LedgerInv ==
  /\ live \cap revoked = {}
  /\ \A pair \in successor : pair[1] \in revoked

=============================================================================
