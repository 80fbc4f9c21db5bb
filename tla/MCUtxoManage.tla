--------------------------- MODULE MCUtxoManage ---------------------------
(***************************************************************************)
(* Instances of UtxoManage for TLC, with IRREVERSIBLE_BLOCKS = 2.  A       *)
(* behaviour plays on one of two trees:                                    *)
(*                                                                         *)
(*   Fork:   g - a1 - a2 - a3      Line:   g - a1 - a2 - a3 - a4           *)
(*             \ b1 - b2                                                   *)
(***************************************************************************)
EXTENDS UtxoManage

CONSTANTS g, a1, a2, a3, a4, b1, b2, v1, s1, s2, c1, c2, c3, c4

Out(c) == [type |-> "vout", coin |-> c]
In(c) == [type |-> "vin", coin |-> c]

MCHeight == Restrict(a1 :> 1 @@ b1 :> 1 @@ a2 :> 2 @@ b2 :> 2 @@ a3 :> 3 @@ a4 :> 4, Blocks)
MCPrev == Restrict(a1 :> g @@ b1 :> g @@ a2 :> a1 @@ b2 :> b1 @@ a3 :> a2 @@ a4 :> a3, Blocks)
MCWork == Restrict(a1 :> 2 @@ b1 :> 1 @@ a2 :> 4 @@ b2 :> 4 @@ a3 :> 5 @@ a4 :> 6, Blocks)
MCOps == [b \in Blocks |->
  CASE b = a1 -> <<In(c3), In(c4), Out(c1), Out(c2)>>
    [] b = a2 -> <<In(c1), Out(c3)>>
    [] b = b1 -> <<Out(c2)>>
    [] OTHER -> << >>]
MCMiner == [b \in Blocks |-> IF b = a1 THEN s1 ELSE NoAccount]

BaseConfig ==
  [limit_endorse_height |-> 0, limit_num_endorsed_blocks |-> 0, min_validators |-> 1,
   consensus_interval |-> FALSE, xsat_stake_activation_height |-> 9,
   xsat_reward_height |-> 9, min_btc_qualification |-> 1, min_xsat_qualification |-> 1,
   validator_active_vote_count |-> 0]
BtcOnly == {BaseConfig}

Fork == [blocks |-> {a1, b1, a2, b2, a3}, synchronizers |-> {s1}, rows |-> {4}]
Line == [blocks |-> {a1, a2, a3, a4}, synchronizers |-> {s1, s2}, rows |-> {0, 2}]

\* Nothing is output twice: the counts of UtxoSetIsLedger rest on it.
ASSUME MCOutputsOnce == OutputsOnce

VARIABLE tree

\* Bounds: on the fork no parser runs late and no upload is withdrawn; on the
\* line parsers run late up to height 2, and uploads are withdrawn at height 1.
\* Above height 2 a block is verified only once it is endorsed.

MCInit == UtxoSpecInit /\ tree \in {Fork, Line}
MCNext ==
  /\ UtxoStep(tree.synchronizers, tree.blocks, tree.rows)
  /\ \A b \in DOMAIN parsing_progress_of' : tree = Fork \/ Height[b] > 2 => ~parsing_progress_of'[b].expired
  /\ \A b \in Blocks \ consensus_block' : tree = Fork \/ Height[b] > 1 =>
       Len(passed_index'[b]) >= Len(passed_index[b])
  /\ \A b \in Blocks : Height[b] > 2 => passed_index'[b] = << >>
  /\ UNCHANGED tree
MCSpec == MCInit /\ [][MCNext]_<<utxoSpecVars, tree>>

\* The whole of UtxoSpec, on a line.
LineInit == UtxoSpecInit /\ tree = Line
MCFairSpec ==
  LineInit /\ [][UtxoNext /\ UNCHANGED tree]_<<utxoSpecVars, tree>> /\ UtxoFairness
=============================================================================
