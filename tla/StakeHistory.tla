--------------------------- MODULE StakeHistory ---------------------------
(***************************************************************************)
(* ExsatStaking with a history that the code does not keep: how often a    *)
(* stake has changed what it counts for with a validator.  A settlement    *)
(* rounds down what the earlier stake earned and also what the new one is  *)
(* taken to have had, so every change may cost a validator's funds a part  *)
(* of a unit.                                                              *)
(***************************************************************************)
EXTENDS ExsatStaking

VARIABLE changes  \* by validator

historyVars == <<allStakingVars, changes>>

\* The stakes with v that the step changes.
ChangedStakes(v) ==
  {u \in Stakers : v \in Registered /\ Counted(Tables, u, v)' # Counted(Tables, u, v)}

CountChanges == changes' = [v \in Validators |-> changes[v] + Cardinality(ChangedStakes(v))]

CountingInit == StakingInit /\ changes = [v \in Validators |-> 0]
CountingNext == StakingNext /\ CountChanges
CountingSpec == CountingInit /\ [][CountingNext]_historyVars

\* The rewards held for a validator cover what it and all its stakers may claim,
\* but for less than a unit per change of a stake: no claim, weight, commission
\* or new stake takes from what others are due.
RewardsCovered ==
  \A v \in Registered, k \in RewardKinds :
    LET due == validator[v].unclaimed[k] + Total([u \in Stakers |-> Due(u, v, k)]) IN
    RATE_BASE * (due - validator[v].balance[k]) <= (RATE_BASE - 1) * changes[v]
=============================================================================
