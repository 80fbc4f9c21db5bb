-------------------------- MODULE ExsatConsensus --------------------------
(***************************************************************************)
(* blkendt.xsat, the last step of blksync.xsat::verify and utxomng.xsat    *)
(* together: an endorsement or a verification that completes a block       *)
(* stores it in the same transaction, and processblock erases the          *)
(* endorsements of the height it makes irreversible.  Nothing of either    *)
(* component's environment is left but time and the accounts that act.     *)
(***************************************************************************)
EXTENDS BlockEndorse, UtxoManage

endorseTables == <<validators, revote_record, final_endorsement>>
consensusVars == <<endorsement, config, synchronizer, endorseTables, utxoVars, syncTables>>

EndorseBlock(v, b) ==
  /\ EndorseTables(v, b)
  /\ IF SendsConsensus(v, b)
       THEN Consensus(endorsement', SyncNow, b)
       ELSE UNCHANGED <<utxoVars, syncTables, synchronizer>>

VoteToVoid(s, h) ==
  /\ Revote(s, h)
  /\ UNCHANGED <<utxoVars, syncTables>>

Administer ==
  /\ \/ \E c \in Configs : Configure(c)
     \/ \E v \in Stakers, q, deposit \in 0..MaxStake : StakeChange(v, q, deposit)
  /\ UNCHANGED <<utxoVars, syncTables>>

VerifyBlock(s, b) ==
  /\ Verified(s, b) \/ VerifiedLate(s, b) \/ Withdrawn(s, b)
  /\ UNCHANGED endorseTables

ParseBlock(s, b, rows) ==
  /\ ProcessBlock(s, b, rows)
  /\ UNCHANGED <<syncTables, synchronizer, config, endorseTables>>

TimePasses(b) ==
  \/ WindowExpires(b) /\ UNCHANGED endorseTables
  \/ /\ ParserTimeout(b)
     /\ UNCHANGED <<chainTables, irreversible_hash, migrationVars, parsing_height, parsed,
                    uploader, utxoTables, block, syncTables, synchronizer, endorsement, config,
                    endorseTables>>

ConsensusInit == EndorseInit /\ UtxoInit /\ SyncInit

ConsensusNext ==
  \/ \E v \in Validators, b \in Blocks : EndorseBlock(v, b)
  \/ \E s \in Synchronizers, h \in Heights : VoteToVoid(s, h)
  \/ Administer
  \/ \E s \in Synchronizers, b \in Blocks : VerifyBlock(s, b)
  \/ \E s \in Synchronizers, b \in Blocks, rows \in ProcessRows : ParseBlock(s, b, rows)
  \/ \E b \in Blocks : TimePasses(b)

ConsensusSpec == ConsensusInit /\ [][ConsensusNext]_consensusVars

-----------------------------------------------------------------------------
\* While a block is migrated its provider table is there for the rewards, and
\* holds exactly as many providers as were noted when the migration was chosen:
\* neither a revote nor a late endorsement reaches the height in between.
MigratedBlockKeepsProviders ==
  migrating_height # 0 /\ status # "distributing_rewards" =>
    num_provider_validators \in
      LET btc == Cardinality(Row("btc", migrating_hash).provider_validators)
          xsat == Cardinality(Row("xsat", migrating_hash).provider_validators)
      IN {btc, MaxOf(btc, xsat)} \ {0}

\* The rewards of a block are recorded as those of the validators with which it
\* reached consensus (rwddist.xsat.hpp): the block that is migrated still has
\* that many.
RewardedBlockReachedConsensus ==
  migrating_height # 0 /\ status # "distributing_rewards" =>
    reached_consensus(Row("btc", migrating_hash))

\* A block that is verified, endorsed and free of its miner's priority is
\* stored, unless only a synchronizer that found the priority in force, and may
\* call verify again, has put it on file.
ReadyBlocksAreStored ==
  \A b \in Blocks :
    MayReachConsensus(endorsement, SyncNow, b) =>
      \E i \in DOMAIN passed_index[b] : Miner[b] \notin {NoAccount, passed_index[b][i]}

-----------------------------------------------------------------------------
(***************************************************************************)
(* What the steps of the composition preserve, beside the invariants of    *)
(* its parts.                                                              *)
(***************************************************************************)
\* The head is at least as high as any block in consensus.
RowsBelowHead == \A b \in consensus_block : Height[b] <= head_height

\* A limit was set with the pool, and is never changed.
LimitsOfPools ==
  \A s \in Synchronizers : synchronizer[s].produced_block_limit \in ProducedLimits

ConsensusInv ==
  /\ UtxoInv /\ EndorseInv /\ RowsBelowHead /\ LimitsOfPools
  /\ MigratedBlockKeepsProviders

\* Only a block with a miner has a window, in which a row of the miner comes first.
WindowsHaveMiners ==
  \A b \in miner_window :
    /\ Miner[b] # NoAccount
    /\ \A i \in DOMAIN passed_index[b] : i > 1 => passed_index[b][i] # Miner[b]

\* The miner of a block is known from its first verification on.
PassedAreKnown == \A b \in Blocks \ block_miner : passed_index[b] = << >>

\* Whoever verified a block that has its endorsements met the window of its miner.
EndorsedAwaitMiner ==
  \A b \in Blocks :
    Passed(SyncNow, b) /\ is_endorsement_consensus_reached(endorsement, b) =>
      /\ Miner[b] # NoAccount
      /\ \A i \in DOMAIN passed_index[b] : passed_index[b][i] # Miner[b]

\* The height at which XSAT consensus starts is not moved.  A call of setconheight
\* that does may complete the endorsements of a block without anyone's action.
FixedActivation ==
  \A c, d \in Configs : c.xsat_stake_activation_height = d.xsat_stake_activation_height

ActivationOfConfigs ==
  \E c \in Configs : config.xsat_stake_activation_height = c.xsat_stake_activation_height

ReadyInv ==
  /\ ConsensusInv /\ ActivationOfConfigs
  /\ WindowsHaveMiners /\ PassedAreKnown /\ EndorsedAwaitMiner
=============================================================================
