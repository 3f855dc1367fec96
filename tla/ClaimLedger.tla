----------------------------- MODULE ClaimLedger -----------------------------
(***************************************************************************)
(* What claiming a reward promises, without handlers and collections: a    *)
(* key (user, event, reward) is granted at most once, in one step, and     *)
(* only to a key that is entitled to it at that moment.                    *)
(***************************************************************************)
EXTENDS Naturals

CONSTANT Key

VARIABLES entitled,   \* keys whose event is active and, if automatic, whose conditions are met
          granted     \* granted[k]: how often key k was granted

LedgerTypeOK == entitled \subseteq Key /\ granted \in [Key -> Nat]

Init == entitled = {} /\ granted = [k \in Key |-> 0]

(* Users progress and events open: keys become entitled, and stay so. *)
Entitle ==
  /\ \E new \in SUBSET (Key \ entitled) : entitled' = entitled \cup new
  /\ UNCHANGED granted

Grant(k) ==
  /\ k \in entitled
  /\ granted[k] = 0
  /\ granted' = [granted EXCEPT ![k] = 1]
  /\ UNCHANGED entitled

Next == Entitle \/ \E k \in Key : Grant(k)

Spec == Init /\ [][Next]_<<entitled, granted>>

-----------------------------------------------------------------------------
(* No key is granted twice, and none that is not entitled (create-reward-claim.handler.ts,
   steps 1 and 2 of execute). *)
LedgerInv == \A k \in Key : granted[k] \in {0, 1} /\ (granted[k] = 1 => k \in entitled)

=============================================================================
