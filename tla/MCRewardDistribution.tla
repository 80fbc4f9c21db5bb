----------------------- MODULE MCRewardDistribution -----------------------
(* Instances of RewardDistribution for TLC: four validators share the two  *)
(* roles in every way, in batches of two.                                  *)
EXTENDS RewardDistribution, TLC

CONSTANTS v1, v2, v3, v4

MCStaking == [v \in Validators |-> IF v = v3 THEN 2 ELSE 1]

Version1 == [synchronizer |-> 5, btc |-> 1, xsat |-> 0]
Version2 == [synchronizer |-> 2, btc |-> 0, xsat |-> 3]
TwoVersions == {Version1, Version2}
=============================================================================
