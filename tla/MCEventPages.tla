---------------------------- MODULE MCEventPages ----------------------------
(***************************************************************************)
(* Instances of EventPages for TLC.  ObjectIds of events are compared for  *)
(* equality only, so they are taken up to permutation.                     *)
(***************************************************************************)
EXTENDS EventPages, TLC

Symmetry == Permutations(EventId)
=============================================================================
