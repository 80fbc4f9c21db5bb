------------------------- MODULE MCExsatConsensus -------------------------
(* Instances of ExsatConsensus for TLC, with IRREVERSIBLE_BLOCKS = 2:      *)
(*   g - a1 - a2 - a3.                                                     *)
EXTENDS ExsatConsensus

CONSTANTS g, a1, a2, a3, v1, v2, x1, s1, s2, c1

MCHeight == a1 :> 1 @@ a2 :> 2 @@ a3 :> 3
MCPrev == a1 :> g @@ a2 :> a1 @@ a3 :> a2
MCOps == [b \in Blocks |-> IF b = a1 THEN <<[type |-> "vout", coin |-> c1]>> ELSE << >>]
MCMiner == [b \in Blocks |-> NoAccount]

SomeMiner == [b \in Blocks |-> IF b = a2 THEN s2 ELSE NoAccount]

BaseConfig ==
  [limit_endorse_height |-> 0, limit_num_endorsed_blocks |-> 2, min_validators |-> 1,
   consensus_interval |-> FALSE, xsat_stake_activation_height |-> 2,
   xsat_reward_height |-> 2, min_btc_qualification |-> 1, min_xsat_qualification |-> 1,
   validator_active_vote_count |-> 1]
OneConfig == {BaseConfig}
BtcOnly == {[BaseConfig EXCEPT !.xsat_stake_activation_height = 9, !.xsat_reward_height = 9]}

\* Bounds of the runs: revotes are asked for at one height only, and succeed at
\* most once.
RevoteAt1 == \A h \in Heights \ {1} : revote_record[h].pending = {}
RevoteAt2 == \A h \in Heights \ {2} : revote_record[h].pending = {}
OneRevote ==
  \A s \in Scopes, b \in Blocks : Cardinality(final_endorsement[s][b]) <= 1
             /\ (final_endorsement[s][b] # {} => revote_record[Height[b]].pending = {})

\* Stakes change in behaviours without revotes, below the height from which
\* they count.
StakesOrRevotes ==
  \/ \A v \in Stakers : validators[v].active /\ validators[v].stake = MaxStake
  \/ /\ \A h \in Heights : revote_record[h].pending = {}
     /\ \A s \in Scopes, b \in Blocks : final_endorsement[s][b] = {}
     /\ head_height < 2

\* Only a block with a miner is verified by two synchronizers.
OneVerification == \A b \in Blocks : Miner[b] = NoAccount => Len(passed_index[b]) <= 1

\* No parser runs late: whoever parses, the rows are the same.
NoTimeouts == \A b \in DOMAIN parsing_progress_of : ~parsing_progress_of[b].expired
=============================================================================
