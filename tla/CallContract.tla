---------------------------- MODULE CallContract ----------------------------
(***************************************************************************)
(* What a call of the gateway to a service promises, without packets,      *)
(* connections or timers: a call ends once; its operation is performed at  *)
(* most Bound times, perhaps after the call has ended; a success was       *)
(* performed, and the attempt a service refused is never performed.        *)
(***************************************************************************)
EXTENDS Naturals

CONSTANTS Call,
          Bound,     \* attempts a call may take
          Status,    \* what a call may end with
          Refusal    \* statuses that say the service has done nothing

VARIABLES outcome,   \* outcome[c]: idle, waiting, or done with the last attempt and its status
          effects    \* pairs <<c, n>>: attempt n of call c was performed

Init == outcome = [c \in Call |-> [state |-> "idle"]] /\ effects = {}

Begin(c) ==
  /\ outcome[c].state = "idle"
  /\ outcome' = [outcome EXCEPT ![c] = [state |-> "waiting"]]
  /\ UNCHANGED effects

(* The call is answered before any attempt of it is made. *)
Reject(c, s) ==
  /\ outcome[c].state = "idle"
  /\ outcome' = [outcome EXCEPT ![c] = [state |-> "done", attempt |-> 0, status |-> s]]
  /\ UNCHANGED effects

(* An attempt may still be performed: the call waits, or has ended without knowing. *)
MayPerform(c, n) ==
  LET o == outcome[c] IN
  \/ o.state = "waiting"
  \/ o.state = "done" /\ n <= o.attempt /\ (n = o.attempt => o.status \notin Refusal)

Perform(c, n) ==
  /\ <<c, n>> \notin effects
  /\ MayPerform(c, n)
  /\ effects' = effects \cup {<<c, n>>}
  /\ UNCHANGED outcome

End(c, n, s) ==
  /\ outcome[c].state = "waiting"
  /\ \A m \in 1..Bound : <<c, m>> \in effects => m <= n
  /\ s = 200 => <<c, n>> \in effects
  /\ s \in Refusal => <<c, n>> \notin effects
  /\ outcome' = [outcome EXCEPT ![c] = [state |-> "done", attempt |-> n, status |-> s]]
  /\ UNCHANGED effects

(* The service is lost, and with it every call of C. *)
Fail(C) ==
  /\ \A c \in C : outcome[c].state = "waiting"
  /\ \E last \in [C -> 1..Bound] :
       /\ \A c \in C, m \in 1..Bound : <<c, m>> \in effects => m <= last[c]
       /\ outcome' = [c \in Call |->
                        IF c \in C THEN [state |-> "done", attempt |-> last[c], status |-> 500]
                                   ELSE outcome[c]]
  /\ UNCHANGED effects

Next ==
  \/ \E c \in Call :
       \/ Begin(c)
       \/ \E s \in Status : Reject(c, s)
       \/ \E n \in 1..Bound : Perform(c, n) \/ \E s \in Status : End(c, n, s)
  \/ \E C \in SUBSET Call : Fail(C)

Spec == Init /\ [][Next]_<<outcome, effects>>

-----------------------------------------------------------------------------
(* What is known once a call has ended (client-proxy.provider.ts, sendWithTimeoutAndRetry):
   a success was performed, in its last attempt; a refused attempt never is; a call that
   was rejected at the gateway has done nothing. *)
ContractInv ==
  /\ effects \subseteq Call \X (1..Bound)
  /\ \A c \in Call : LET o == outcome[c] IN
       /\ o.state \in {"idle", "waiting", "done"}
       /\ o.state = "idle" => \A n \in 1..Bound : <<c, n>> \notin effects
       /\ o.state = "done" =>
            /\ \A n \in 1..Bound : <<c, n>> \in effects => n <= o.attempt
            /\ o.attempt # 0 /\ o.status = 200 => <<c, o.attempt>> \in effects
            /\ o.status \in Refusal => <<c, o.attempt>> \notin effects

=============================================================================
