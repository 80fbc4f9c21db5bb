---------------------------- MODULE MCExsatSync ----------------------------
(* An instance of ExsatSync for TLC, with IRREVERSIBLE_BLOCKS = 2:         *)
(*   g - a1 - a2 - a3.                                                     *)
EXTENDS ExsatSync

CONSTANTS g, a1, a2, a3, v1, s1, s2, t1

MCHeight == Restrict(a1 :> 1 @@ a2 :> 2 @@ a3 :> 3, Blocks)
MCPrev == Restrict(a1 :> g @@ a2 :> a1 @@ a3 :> a2, Blocks)
MCMiner == [b \in Blocks |-> IF b = a1 THEN s1 ELSE NoAccount]
MCOps == [b \in Blocks |-> << >>]

\* The header of a block is named like the block.
MCHeaderOf == [u \in Units |-> IF u \in Blocks THEN u ELSE NoHeader]
MCCount == [u \in Units |-> 1]
MCContent == [b \in Blocks |-> <<b, t1>>]
MCChunks == {MCContent[b] : b \in Blocks}

OneConfig ==
  {[limit_endorse_height |-> 0, limit_num_endorsed_blocks |-> 0, min_validators |-> 1,
    consensus_interval |-> FALSE, xsat_stake_activation_height |-> 9,
    xsat_reward_height |-> 9, min_btc_qualification |-> 1, min_xsat_qualification |-> 1,
    validator_active_vote_count |-> 0]}

\* Bounds: a synchronizer pushes what it holds for the block, and the second one
\* uploads only the block of height 1.
PushesOwnContent ==
  \A s \in Synchronizers, b \in Blocks, id \in ChunkIds :
    id \in DOMAIN block_chunk[s][b] => block_chunk[s][b][id] = Content[b]
SecondUploadsAt1 == \A b \in Blocks : Height[b] > 1 => ~HasBucket(bucket, s2, b)
=============================================================================
