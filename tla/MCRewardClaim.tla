---------------------------- MODULE MCRewardClaim ----------------------------
(***************************************************************************)
(* Instances of RewardClaim for TLC.  Condition lists of one condition, of *)
(* two that count different things, of one without params and of one whose *)
(* params are no number.                                                   *)
(***************************************************************************)
EXTENDS RewardClaim

CONSTANTS logins, invites   \* the two measures

Once(m) == <<[measure |-> m, need |-> 1]>>

OneCondition  == <<Once(logins)>>
TwoConditions == <<Once(logins), Once(invites)>>
NoParams      == <<Once(invites), <<>> >>
(* The second entry of params is never looked at. *)
TwoParams     == <<<<[measure |-> logins, need |-> 1], [measure |-> invites, need |-> 1]>>>>

NotNumeric    == <<<<[measure |-> invites, need |-> NotANumber]>>>>

MCMeasure        == {logins, invites}
MCConditionLists == {OneCondition, TwoConditions, NoParams, TwoParams, NotNumeric}
MCOneList        == {TwoConditions}
=============================================================================
