-------------------------- MODULE MCBlockEndorse --------------------------
(***************************************************************************)
(* Instances of BlockEndorse for TLC: blocks a1 and b1 compete at height   *)
(* 1, a2 and b2 at height 2.                                               *)
(***************************************************************************)
EXTENDS BlockEndorse, TLC

CONSTANTS a1, b1, a2, b2, v1, v2, v3, x1, s1, s2, s3, s4

HeightFork == a1 :> 1 @@ b1 :> 1 @@ a2 :> 2
HeightAhead == a2 :> 2
HeightLate == a1 :> 1 @@ a2 :> 2 @@ b2 :> 2

\* Blocks at height 1 are voted on by the BTC validators alone, blocks at
\* height 2 by both roles; reward activity and runs of votes count from 2.
BaseConfig ==
  [limit_endorse_height |-> 0, limit_num_endorsed_blocks |-> 0, min_validators |-> 1,
   consensus_interval |-> FALSE, xsat_stake_activation_height |-> 2,
   xsat_reward_height |-> 2, min_btc_qualification |-> 1, min_xsat_qualification |-> 1,
   validator_active_vote_count |-> 1]

OneConfig == {BaseConfig}
\* One role throughout, with and without a vote count to be active.
TwoConfigs == {[BaseConfig EXCEPT !.xsat_stake_activation_height = 9,
                                !.xsat_reward_height = 9,
                                !.validator_active_vote_count = a] : a \in {0, 1}}

\* Bound: one successful revote per run, so that the table of voided rows, which
\* no contract reads, does not grow with every one of them.
RevoteBound == Cardinality({h \in Heights : revote_record[h].succeeded}) <= 1
                 /\ \A s \in Scopes, b \in Blocks : Cardinality(final_endorsement[s][b]) <= 1

MCSymmetry == Permutations(Validators \ (XsatValidators \cup Stakers))
                \cup Permutations(Synchronizers)
=============================================================================
