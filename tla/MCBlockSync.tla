---------------------------- MODULE MCBlockSync ----------------------------
(***************************************************************************)
(* An instance of BlockSync for TLC.  Two synchronizers race for a1, of    *)
(* which s1 is the miner, while b1 competes with it and a2 is its child;   *)
(* or c1, with two transactions, is uploaded in chunks right and wrong; or *)
(* d1, which has the wrong difficulty.                                     *)
(***************************************************************************)
EXTENDS BlockSync

\* The headers are named after the blocks; wrong_count is the header of c1 with
\* another number of transactions, which its hash does not cover.
CONSTANTS g, a1, b1, a2, c1, d1, s1, s2, wrong_count, t1, t2

MCHeight == [b \in Blocks |-> IF b = a2 THEN 2 ELSE 1]
MCPrev == [b \in Blocks |-> IF b = a2 THEN a1 ELSE g]
MCMiner == [b \in Blocks |-> IF b = a1 THEN s1 ELSE NoAccount]
MCHeaderOf == [u \in Units |-> IF u = wrong_count THEN c1 ELSE IF u \in Blocks THEN u ELSE NoHeader]
MCCount == [u \in Units |-> IF u = c1 THEN 2 ELSE IF u \in Blocks \cup {wrong_count} THEN 1 ELSE 0]
MCContent == [b \in Blocks |-> IF b = c1 THEN <<c1, t1, t2>> ELSE <<b, t1>>]
MCChunks == {MCContent[b] : b \in Blocks \ {c1}}
              \cup {<<c1, t1>>, <<wrong_count, t1>>, <<t1>>, <<t2>>}

OneConfig ==
  {[limit_endorse_height |-> 0, limit_num_endorsed_blocks |-> 0, min_validators |-> 1,
    consensus_interval |-> FALSE, xsat_stake_activation_height |-> 9,
    xsat_reward_height |-> 9, min_btc_qualification |-> 1, min_xsat_qualification |-> 1,
    validator_active_vote_count |-> 0]}

\* Bounds: the blocks of the race are pushed in one chunk, b1 by s2 and a2 by s1
\* alone, and the verification of these two fails only when the block reached
\* consensus meanwhile; c1 and d1 are uploaded by s1, and not beside the race.
RaceIsPlain ==
  \A s \in Synchronizers, b \in Blocks \ {c1} : HasBucket(bucket, s, b) =>
    /\ bucket[s][b].size = 2 /\ bucket[s][b].num_chunks = 1
    /\ block_chunk[s][b] \in {NoChunks, 0 :> Content[b]}
    /\ b = b1 => s = s2
    /\ b = a2 => s = s1
    /\ bucket[s][b].status = "verify_fail" => b \in {a1, d1} \/ check_consensus(b)
Seen == {b \in Blocks : \E s \in Synchronizers : HasBucket(bucket, s, b)}
          \cup consensus_block \cup (block \ {g})
UploadIsAlone ==
  \A b \in {c1, d1} : b \in Seen => Seen = {b} /\ ~HasBucket(bucket, s2, b)
=============================================================================
