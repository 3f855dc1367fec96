---------------------------- MODULE LedgerProofs ----------------------------
(***************************************************************************)
(* What the abstract specifications promise, for every set of tokens, keys *)
(* or calls.  By ServerImplementsLedger, ClaimsImplementLedger and         *)
(* ProxiesImplementContract the services and the gateway promise it, too.  *)
(***************************************************************************)
EXTENDS Naturals, TLAPS

CONSTANTS Token, Key, Call, Bound, Status, Refusal

VARIABLES live, revoked, successor, entitled, granted, outcome, effects

Tokens == INSTANCE TokenLedger
Claims == INSTANCE ClaimLedger
Calls  == INSTANCE CallContract

(* Live and revoked tokens stay apart, and a token that was exchanged is revoked
   (auth.service.ts, refreshToken): it and its successor are never both live. *)
THEOREM TokensKeptApart == Tokens!Spec => [](Tokens!LedgerTypeOK /\ Tokens!LedgerInv)
<1> DEFINE Inv == Tokens!LedgerTypeOK /\ Tokens!LedgerInv
<1>1. Tokens!Init => Inv
  BY DEF Tokens!Init, Tokens!LedgerTypeOK, Tokens!LedgerInv
<1>2. ASSUME Inv, [Tokens!Next]_<<live, revoked, successor>>
      PROVE  Inv'
  <2>1. ASSUME NEW t \in Token, Tokens!Grant(t)  PROVE Inv'
    BY <1>2, <2>1 DEF Tokens!LedgerTypeOK, Tokens!LedgerInv, Tokens!Grant, Tokens!Fresh
  <2>2. ASSUME NEW t \in Token, Tokens!Revoke(t)  PROVE Inv'
    BY <1>2, <2>2 DEF Tokens!LedgerTypeOK, Tokens!LedgerInv, Tokens!Revoke
  <2>3. ASSUME NEW t \in Token, NEW old \in Token, Tokens!Exchange(old, t)
        PROVE  Inv'
    BY <1>2, <2>3 DEF Tokens!LedgerTypeOK, Tokens!LedgerInv, Tokens!Exchange, Tokens!Fresh
  <2>4. CASE UNCHANGED <<live, revoked, successor>>
    BY <1>2, <2>4 DEF Tokens!LedgerTypeOK, Tokens!LedgerInv
  <2>. QED  BY <1>2, <2>1, <2>2, <2>3, <2>4 DEF Tokens!Next
<1>. HIDE DEF Inv
<1>3. Tokens!Spec => []Inv
  BY <1>1, <1>2, PTL DEF Tokens!Spec
<1>. QED  BY <1>3 DEF Inv

(* No key is granted twice, and none that is not entitled (create-reward-claim.handler.ts,
   steps 1 and 2 of execute). *)
THEOREM KeysGrantedOnce == Claims!Spec => [](Claims!LedgerTypeOK /\ Claims!LedgerInv)
<1> DEFINE Inv == Claims!LedgerTypeOK /\ Claims!LedgerInv
<1>1. Claims!Init => Inv
  BY DEF Claims!Init, Claims!LedgerTypeOK, Claims!LedgerInv
<1>2. ASSUME Inv, [Claims!Next]_<<entitled, granted>>
      PROVE  Inv'
  <2>1. CASE Claims!Entitle
    BY <1>2, <2>1 DEF Claims!LedgerTypeOK, Claims!LedgerInv, Claims!Entitle
  <2>2. ASSUME NEW k \in Key, Claims!Grant(k)  PROVE Inv'
    BY <1>2, <2>2 DEF Claims!LedgerTypeOK, Claims!LedgerInv, Claims!Grant
  <2>3. CASE UNCHANGED <<entitled, granted>>
    BY <1>2, <2>3 DEF Claims!LedgerTypeOK, Claims!LedgerInv
  <2>. QED  BY <1>2, <2>1, <2>2, <2>3 DEF Claims!Next
<1>. HIDE DEF Inv
<1>3. Claims!Spec => []Inv
  BY <1>1, <1>2, PTL DEF Claims!Spec
<1>. QED  BY <1>3 DEF Inv

(* Once a call has ended, a success was performed, a refused attempt is not, and a call that
   the gateway answered by itself has done nothing (client-proxy.provider.ts,
   sendWithTimeoutAndRetry). *)
THEOREM EndedCallsAreKnown ==
  ASSUME 200 \notin Refusal, 500 \notin Refusal, Bound \in Nat
  PROVE  Calls!Spec => []Calls!ContractInv
<1> DEFINE Typed == outcome = [c \in Call |-> outcome[c]]
           Inv == Typed /\ Calls!ContractInv
<1>1. Calls!Init => Inv
  BY DEF Calls!Init, Calls!ContractInv
<1>2. ASSUME Inv, [Calls!Next]_<<outcome, effects>>
      PROVE  Inv'
  <2>1. ASSUME NEW c \in Call, Calls!Begin(c)  PROVE Inv'
    BY <1>2, <2>1 DEF Calls!Begin, Calls!ContractInv
  <2>2. ASSUME NEW c \in Call, NEW s \in Status, Calls!Reject(c, s)  PROVE Inv'
    BY <1>2, <2>2 DEF Calls!Reject, Calls!ContractInv
  <2>3. ASSUME NEW c \in Call, NEW n \in 1..Bound, Calls!Perform(c, n)  PROVE Inv'
    BY <1>2, <2>3 DEF Calls!Perform, Calls!MayPerform, Calls!ContractInv
  <2>4. ASSUME NEW c \in Call, NEW n \in 1..Bound, NEW s \in Status, Calls!End(c, n, s)
        PROVE  Inv'
    BY <1>2, <2>4 DEF Calls!End, Calls!ContractInv
  <2>5. ASSUME NEW C \in SUBSET Call, Calls!Fail(C)  PROVE Inv'
    BY <1>2, <2>5 DEF Calls!Fail, Calls!ContractInv
  <2>6. CASE UNCHANGED <<outcome, effects>>
    BY <1>2, <2>6 DEF Calls!ContractInv
  <2>. QED  BY <1>2, <2>1, <2>2, <2>3, <2>4, <2>5, <2>6 DEF Calls!Next
<1>. HIDE DEF Inv
<1>3. Calls!Spec => []Inv
  BY <1>1, <1>2, PTL DEF Calls!Spec
<1>4. Inv => Calls!ContractInv
  BY DEF Inv
<1>. QED  BY <1>3, <1>4, PTL
=============================================================================
