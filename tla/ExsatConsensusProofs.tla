------------------------ MODULE ExsatConsensusProofs ------------------------
(***************************************************************************)
(* The composition of blkendt.xsat and utxomng.xsat: the chain state moves *)
(* as BlockEndorse assumes of its environment, and utxomng.xsat keeps its  *)
(* invariant although endorsements are voided and the configuration is     *)
(* changed, for every tree of blocks and any validators and synchronizers; *)
(* its blocks and its UTXO set stay those of an irreversible chain.        *)
(***************************************************************************)
EXTENDS ExsatConsensus, BlockEndorseProofs, UtxoManageProofs

\* What may be noted as the number of providers of b, of the endorsements t.
ProviderCounts(t, b) ==
  LET btc == Cardinality(t["btc"][b].provider_validators)
      xsat == Cardinality(t["xsat"][b].provider_validators)
  IN {btc, MaxOf(btc, xsat)} \ {0}

ProvidersNoted == num_provider_validators \in ProviderCounts(endorsement, migrating_hash)

\* The property of the run, in the words of the proof.
LEMMA NotedProviders ==
  MigratedBlockKeepsProviders <=>
    (migrating_height # 0 /\ status # "distributing_rewards" => ProvidersNoted)
BY DEF MigratedBlockKeepsProviders, ProvidersNoted, ProviderCounts, Row

\* A block that has a BTC endorsement has a provider.
LEMMA ProvidersCounted ==
  ASSUME NEW t \in EndorsementType, NEW b \in Blocks, NEW head,
         t["btc"][b].provider_validators # {}
  PROVE  ProvidersToReward(t, b, head) \in ProviderCounts(t, b)
<1> DEFINE btc == Cardinality(t["btc"][b].provider_validators)
           xsat == Cardinality(t["xsat"][b].provider_validators)
<1>1. /\ t["btc"][b].provider_validators \subseteq Validators
      /\ t["xsat"][b].provider_validators \subseteq Validators
  BY DEF EndorsementType, Rows, Scopes
<1>2. /\ IsFiniteSet(t["btc"][b].provider_validators)
      /\ IsFiniteSet(t["xsat"][b].provider_validators)
  BY <1>1, TablesAssumption, FS_Subset DEF TablesAssumption
<1>3. btc \in Nat /\ xsat \in Nat /\ btc # 0
  BY <1>2, FS_CardinalityType, FS_EmptySet
<1>4. /\ ProvidersToReward(t, b, head) = IF is_xsat_reward_active(head) THEN MaxOf(btc, xsat) ELSE btc
      /\ ProviderCounts(t, b) = {btc, MaxOf(btc, xsat)} \ {0}
  BY DEF ProvidersToReward, ProviderCounts
<1> HIDE DEF btc, xsat
<1> QED
  BY <1>3, <1>4 DEF MaxOf

\* A migration that is chosen is one above the tip, at most at the head, and the
\* providers of its block are noted.
Chooses(t, head) ==
  /\ migrating_height = 0
  /\ irreversible_height < head
  /\ migrating_height' = irreversible_height + 1
  /\ migrating_hash' \in Blocks
  /\ num_provider_validators' \in ProviderCounts(t, migrating_hash')

\* A migration begins at a block that has an endorsement.
LEMMA MigrationIsChosen ==
  ASSUME NEW cons \in SUBSET Blocks, NEW done, NEW head \in Nat, NEW t \in EndorsementType,
         irreversible_height \in Nat,
         \A c \in cons : Height[c] <= head, NextIrreversible(t, cons, done, head)
  PROVE  UNCHANGED <<migrating_height, migrationVars>> \/ Chooses(t, head)
<1>1. ASSUME migrating_height = 0, NEW c \in find_next_irreversible_block(cons),
             StartMigration(t, c, head, NumUtxos(c, done))
      PROVE  Chooses(t, head)
  <2>1. c \in cons /\ Height[c] = irreversible_height + 1
    BY <1>1 DEF find_next_irreversible_block
  <2>2. irreversible_height < head
    BY <2>1
  <2>3. num_provider_validators' \in ProviderCounts(t, c)
    BY <1>1, <2>1, ProvidersCounted DEF StartMigration
  <2> QED
    BY <1>1, <2>1, <2>2, <2>3 DEF StartMigration, Chooses
<1> QED
  BY <1>1 DEF NextIrreversible

\* What a call of consensus changes of the tables of the others.
LEMMA ConsensusEffect ==
  ASSUME ConsensusInv, NEW b \in Blocks, NEW y, SyncReady(y, b), NEW t \in EndorsementType,
         Consensus(t, y, b)
  PROVE  /\ InlineConsensus(t, b)
         /\ RowsBelowHead' /\ LimitsOfPools'
         /\ \/ UNCHANGED <<migrating_height, migrationVars>> /\ head_height <= head_height'
            \/ Chooses(t, head_height')
         /\ UNCHANGED status
<1> USE TablesAssumption DEF TablesAssumption
<1>0. /\ TablesTypeOK /\ head_height \in Nat /\ irreversible_height \in Nat
      /\ consensus_block \subseteq Blocks /\ Height[b] \in Nat /\ Height[b] \in Heights
      /\ synchronizer \in SynchronizerType
  BY Heights0 DEF ConsensusInv, UtxoInv, MigrationWindow, UtxoTypeOK, TablesTypeOK, SynchronizerType
<1>1. CASE ~MayReachConsensus(t, y, b)
  <2>1. UNCHANGED <<utxoVars, synchronizer>>
    BY <1>1 DEF Consensus
  <2>2. UNCHANGED <<chainTables, synchronizer, migrationVars>>
    BY <2>1 DEF utxoVars
  <2>3. InlineConsensus(t, b)
    BY <2>2 DEF InlineConsensus
  <2>4. RowsBelowHead' /\ LimitsOfPools'
    BY <2>2 DEF ConsensusInv, RowsBelowHead, LimitsOfPools, chainTables
  <2> QED
    BY <1>0, <2>2, <2>3, <2>4 DEF chainTables
<1>2. CASE MayReachConsensus(t, y, b)
  <2>1. /\ consensus_block' = consensus_block \cup {b}
        /\ head_height' = MaxOf(head_height, Height[b])
        /\ IF Miner[b] = NoAccount THEN UNCHANGED synchronizer ELSE updateheight(Miner[b], Height[b])
        /\ NextIrreversible(t, consensus_block \cup {b}, parsed, head_height')
        /\ UNCHANGED <<irreversible_height, parsed_height, status>>
    BY <1>2 DEF Consensus
  <2>2. head_height' \in Nat /\ head_height <= head_height' /\ Height[b] <= head_height'
    BY <1>0, <2>1 DEF MaxOf
  <2>3. RowsBelowHead'
    <3> SUFFICES ASSUME NEW c \in consensus_block' PROVE Height[c] <= head_height'
      BY DEF RowsBelowHead
    <3>1. CASE c = b
      BY <2>2, <3>1
    <3>2. CASE c # b
      <4>1. c \in consensus_block /\ Height[c] \in Nat
        BY <1>0, <2>1, <3>2, Heights0
      <4> QED
        BY <1>0, <2>2, <4>1 DEF ConsensusInv, RowsBelowHead
    <3> QED
      BY <3>1, <3>2
  <2>4. UNCHANGED <<migrating_height, migrationVars>> \/ Chooses(t, head_height')
    BY <1>0, <2>1, <2>2, <2>3, MigrationIsChosen DEF RowsBelowHead
  <2>5. b \notin consensus_block /\ is_endorsement_consensus_reached(t, b)
    BY <1>2 DEF MayReachConsensus, SyncReady, SyncSound
  <2>6. Produced(Height[b]) /\ LimitsOfPools'
    <3>1. CASE Miner[b] = NoAccount
      BY <2>1, <3>1 DEF Produced, LimitsOfPools, ConsensusInv
    <3>2. CASE Miner[b] # NoAccount
      <4>1. PICK m \in Synchronizers : m = Miner[b] /\ updateheight(m, Height[b])
        BY <2>1, <3>2, SyncAssumption DEF SyncAssumption
      <4>2. PICK row : row = synchronizer[m]
        OBVIOUS
      <4>3. /\ row \in [registered : BOOLEAN, produced_block_limit : Nat,
                        latest_produced_block_height : 0..MaxHeight]
            /\ row.produced_block_limit \in ProducedLimits
        BY <1>0, <4>2 DEF SynchronizerType, ConsensusInv, LimitsOfPools
      <4>4. CASE ~row.registered
        <5>1. PICK limit \in ProducedLimits : synchronizer' = [synchronizer EXCEPT ![m] =
                 [registered |-> TRUE, produced_block_limit |-> limit,
                  latest_produced_block_height |-> Height[b]]]
          BY <4>1, <4>2, <4>4 DEF updateheight
        <5> QED
          BY <1>0, <4>2, <4>4, <5>1 DEF Produced, ConsensusInv, LimitsOfPools, SynchronizerType
      <4>5. CASE row.registered
        <5>1. PICK high : high = MaxOf(row.latest_produced_block_height, Height[b])
          OBVIOUS
        <5>2. synchronizer' = [synchronizer EXCEPT ![m] = [row EXCEPT !.latest_produced_block_height = high]]
          BY <4>1, <4>2, <4>5, <5>1 DEF updateheight
        <5>3. [row EXCEPT !.latest_produced_block_height = high] =
                [registered |-> TRUE, produced_block_limit |-> row.produced_block_limit,
                 latest_produced_block_height |-> high]
          <6>1. high \in 0..MaxHeight
            BY <1>0, <4>3, <5>1 DEF MaxOf, Heights
          <6>2. PICK new : new = [row EXCEPT !.latest_produced_block_height = high]
            OBVIOUS
          <6>3. /\ new \in [registered : BOOLEAN, produced_block_limit : Nat,
                            latest_produced_block_height : 0..MaxHeight]
                /\ new.registered = row.registered
                /\ new.produced_block_limit = row.produced_block_limit
                /\ new.latest_produced_block_height = high
            BY <4>3, <6>1, <6>2
          <6>4. row.registered = TRUE
            BY <4>3, <4>5
          <6> QED
            BY <6>2, <6>3, <6>4
        <5>4. LimitsOfPools'
          BY <1>0, <4>3, <5>2, <5>3 DEF ConsensusInv, LimitsOfPools, SynchronizerType
        <5>5. CASE row.latest_produced_block_height < Height[b]
          <6>1. high = Height[b]
            BY <1>0, <4>3, <5>1, <5>5 DEF MaxOf
          <6> QED
            BY <4>2, <4>3, <4>5, <5>2, <5>3, <5>4, <5>5, <6>1 DEF Produced
        <5>6. CASE ~(row.latest_produced_block_height < Height[b])
          <6>1. high = row.latest_produced_block_height
            BY <1>0, <4>3, <5>1, <5>6 DEF MaxOf
          <6>2. [row EXCEPT !.latest_produced_block_height = high] = row
            BY <4>3, <6>1
          <6>3. synchronizer' = synchronizer
            BY <1>0, <4>2, <5>2, <6>2 DEF SynchronizerType
          <6> QED
            BY <5>4, <6>3 DEF Produced
        <5> QED
          BY <5>5, <5>6
      <4> QED
        BY <4>4, <4>5
    <3> QED
      BY <3>1, <3>2
  <2>7. MayChooseMigration(head_height')
    BY <2>4 DEF MayChooseMigration, Chooses
  <2>8. InlineConsensus(t, b)
    BY <2>1, <2>5, <2>6, <2>7 DEF InlineConsensus
  <2> QED
    BY <2>1, <2>2, <2>3, <2>4, <2>6, <2>8
<1> QED
  BY <1>1, <1>2

-----------------------------------------------------------------------------
(***************************************************************************)
(* Every action is one of BlockEndorse and keeps what is asked of the rest.*)
(***************************************************************************)
Refines == [EndorseNext]_endorseVars

Kept == UtxoInv' /\ RowsBelowHead' /\ LimitsOfPools' /\ MigratedBlockKeepsProviders'

\* The types of the tables, of the invariants of both contracts.
LEMMA InvTypes ==
  ASSUME ConsensusInv
  PROVE  /\ TablesTypeOK /\ EndorseTypeOK /\ SyncTypeOK
         /\ endorsement \in EndorsementType
         /\ irreversible_height \in Nat /\ migrating_height \in Nat /\ head_height \in Nat
         /\ status \in Statuses
BY DEF ConsensusInv, EndorseInv, EndorseTypeOK, UtxoInv, MigrationWindow, UtxoTypeOK, TablesTypeOK,
   EndorsementType

\* The providers that were noted are there as long as the rows of the block are.
LEMMA ProvidersStay ==
  ASSUME ConsensusInv, UNCHANGED <<migrating_height, migrating_hash, num_provider_validators>>,
         status' # "distributing_rewards" /\ migrating_height # 0 =>
           /\ status # "distributing_rewards"
           /\ \A s \in Scopes : endorsement'[s][migrating_hash] = endorsement[s][migrating_hash]
  PROVE  MigratedBlockKeepsProviders'
<1> SUFFICES ASSUME migrating_height' # 0, status' # "distributing_rewards"
             PROVE  num_provider_validators' \in
                      LET btc == Cardinality(endorsement'["btc"][migrating_hash'].provider_validators)
                          xsat == Cardinality(endorsement'["xsat"][migrating_hash'].provider_validators)
                      IN {btc, MaxOf(btc, xsat)} \ {0}
  BY DEF MigratedBlockKeepsProviders, Row
<1>1. ProvidersNoted
  BY NotedProviders DEF ConsensusInv
<1>2. /\ endorsement'["btc"][migrating_hash] = endorsement["btc"][migrating_hash]
      /\ endorsement'["xsat"][migrating_hash] = endorsement["xsat"][migrating_hash]
  BY DEF Scopes
<1> QED
  BY <1>1, <1>2 DEF ProvidersNoted, ProviderCounts

\* And they are right when a migration is chosen.
LEMMA ProvidersChosen ==
  ASSUME NEW head, Chooses(endorsement', head)
  PROVE  MigratedBlockKeepsProviders'
BY DEF Chooses, MigratedBlockKeepsProviders, ProviderCounts, Row

\* The block that is migrated has the height that is.
LEMMA MigratedHeight ==
  ASSUME ConsensusInv, migrating_height # 0
  PROVE  Height[migrating_hash] = migrating_height /\ migrating_hash \in Blocks
<1>1. Height[migrating_hash] = migrating_height /\ migrating_hash # NoBlock
  BY DEF ConsensusInv, UtxoInv, MigratedBlockIsParsed, PhasesAlternate
<1> QED
  BY <1>1 DEF ConsensusInv, UtxoInv, MigrationWindow, UtxoTypeOK

\* An endorsement writes the rows of its block only.
LEMMA EndorseTablesElsewhere ==
  ASSUME NEW v \in Validators, NEW b \in Blocks, EndorseTables(v, b), endorsement \in EndorsementType
  PROVE  \A s \in Scopes, c \in Blocks \ {b} : endorsement'[s][c] = endorsement[s][c]
<1> SUFFICES ASSUME NEW s \in Scopes, NEW c \in Blocks \ {b}
             PROVE  endorsement'[s][c] = endorsement[s][c]
  OBVIOUS
<1>1. CASE UNCHANGED endorsement
  BY <1>1
<1>2. ASSUME NEW row, endorsement' = [endorsement EXCEPT ![ScopeOf(v)][b] = row]
      PROVE  endorsement'[s][c] = endorsement[s][c]
  BY <1>2 DEF EndorsementType
<1> QED
  BY <1>1, <1>2 DEF EndorseTables, ReturnVote, OpenEndorsement, JoinEndorsement, LateVote

\* endorse of blkendt.xsat, with the consensus it may send.
LEMMA EndorseBlockStep ==
  ASSUME ConsensusInv, NEW v \in Validators, NEW b \in Blocks, EndorseBlock(v, b)
  PROVE  Refines /\ Kept
<1>1. /\ EndorseTables(v, b) /\ MayEndorse(Height[b])
      /\ endorsement' \in EndorsementType /\ UNCHANGED config
  BY InvTypes, EndorseTablesType DEF EndorseBlock, EndorseTables, EndorsementType
<1>2. irreversible_height < Height[b] /\ migrating_height # Height[b]
  BY <1>1 DEF MayEndorse
<1>3. Height[b] > Floor
  <2>1. status = "distributing_rewards" => migrating_height = irreversible_height + 1
    BY DEF ConsensusInv, UtxoInv, PhasesAlternate, MigratedBlockIsParsed
  <2> QED
    BY <1>2, <2>1, InvTypes, Heights0 DEF Floor
<1>4. SyncReady(SyncNow, b)
  BY <1>3, ReadyNow DEF ConsensusInv
<1>5. UNCHANGED <<migrating_height, migrationVars, status>> => MigratedBlockKeepsProviders'
  <2>1. migrating_height # 0 => migrating_hash \in Blocks \ {b}
    BY <1>2, MigratedHeight
  <2>2. migrating_height # 0 => \A s \in Scopes : endorsement'[s][migrating_hash] = endorsement[s][migrating_hash]
    BY <1>1, <2>1, InvTypes, EndorseTablesElsewhere
  <2> QED
    BY <2>2, ProvidersStay DEF migrationVars
<1>6. CASE SendsConsensus(v, b)
  <2>1. Consensus(endorsement', SyncNow, b)
    BY <1>6 DEF EndorseBlock
  <2>2. UtxoInv'
    BY <1>1, <1>4, <2>1, ConsensusStep DEF ConsensusInv
  <2>3. PICK t \in EndorsementType : t = endorsement'
    BY <1>1
  <2>4. Consensus(t, SyncNow, b)
    BY <2>1, <2>3
  <2>5. /\ InlineConsensus(t, b)
        /\ RowsBelowHead' /\ LimitsOfPools'
        /\ UNCHANGED <<migrating_height, migrationVars>> \/ Chooses(t, head_height')
        /\ UNCHANGED status
    BY <1>4, <2>4, ConsensusEffect
  <2>6. MigratedBlockKeepsProviders'
    BY <1>5, <2>3, <2>5, ProvidersChosen
  <2>7. Endorse(v, b)
    BY <1>1, <1>6, <2>3, <2>5 DEF Endorse
  <2> QED
    BY <2>2, <2>5, <2>6, <2>7 DEF Refines, Kept, EndorseNext
<1>7. CASE ~SendsConsensus(v, b)
  <2>1. UNCHANGED <<utxoVars, syncTables, synchronizer>>
    BY <1>7 DEF EndorseBlock
  <2>2. UNCHANGED <<chainTables, migrationVars, synchronizer>>
    BY <2>1 DEF utxoVars
  <2>3. Endorse(v, b)
    BY <1>1, <1>7, <2>2 DEF Endorse
  <2>4. SetSync(SyncNow)
    BY <2>1 DEF SetSync, SyncNow, syncTables
  <2>5. UtxoInv'
    BY <1>1, <1>4, <2>1, <2>4, SyncOnlyStep DEF SyncReady, ConsensusInv
  <2>6. RowsBelowHead' /\ LimitsOfPools'
    BY <2>2 DEF ConsensusInv, RowsBelowHead, LimitsOfPools, chainTables
  <2>7. MigratedBlockKeepsProviders'
    BY <1>5, <2>2 DEF chainTables
  <2> QED
    BY <2>3, <2>5, <2>6, <2>7 DEF Refines, Kept, EndorseNext
<1> QED
  BY <1>6, <1>7

\* Steps of blkendt.xsat and endrmng.xsat alone.
LEMMA TablesStep ==
  ASSUME ConsensusInv, EndorseTypeOK', UNCHANGED <<utxoVars, syncTables, synchronizer>>,
         \A s \in Scopes, c \in Blocks : Height[c] = migrating_height =>
           endorsement'[s][c] = endorsement[s][c]
  PROVE  Kept
<1>1. config' \in ConfigType /\ endorsement' \in EndorsementType
  BY DEF EndorseTypeOK, TablesTypeOK, EndorsementType
<1>2. \A c \in DOMAIN parsing_progress_of : parsing_progress_of[c] \in ProgressType
  BY DEF ConsensusInv, UtxoInv, MigrationWindow, UtxoTypeOK, ProgressType
<1>3. UNCHANGED <<chainTables, irreversible_hash, migrationVars, parsing_height, parsed,
                  uploader, utxoTables, block, syncTables, synchronizer, parsing_progress_of>>
  BY DEF utxoVars, parsingVars
<1>4. UtxoInv'
  BY <1>1, <1>2, <1>3, ProgressStep DEF ConsensusInv
<1>5. RowsBelowHead' /\ LimitsOfPools'
  BY <1>3 DEF ConsensusInv, RowsBelowHead, LimitsOfPools, chainTables
<1>6. MigratedBlockKeepsProviders'
  BY <1>3, MigratedHeight, ProvidersStay DEF chainTables, migrationVars
<1> QED
  BY <1>4, <1>5, <1>6 DEF Kept

\* A vote that erases the endorsements of a height erases none of the migration.
LEMMA VoteToVoidStep ==
  ASSUME ConsensusInv, NEW s \in Synchronizers, NEW h \in Heights, VoteToVoid(s, h)
  PROVE  Refines /\ Kept
<1>1. Revote(s, h) /\ UNCHANGED <<utxoVars, syncTables, synchronizer>>
  BY DEF VoteToVoid, Revote
<1>2. EndorseTypeOK'
  BY <1>1, InvTypes, RevoteType
<1>3. ASSUME NEW p \in Scopes, NEW c \in Blocks, Height[c] = migrating_height
      PROVE  endorsement'[p][c] = endorsement[p][c]
  <2>1. Height[c] # h
    BY <1>1, <1>3 DEF Revote, RevoteGuards
  <2>2. CASE UNCHANGED endorsement
    BY <2>2
  <2>3. CASE VoidEndorsements(h)
    BY <2>1, <2>3 DEF VoidEndorsements
  <2> QED
    BY <1>1, <2>2, <2>3 DEF Revote, OpenRevote, JoinRevote
<1> QED
  BY <1>1, <1>2, <1>3, TablesStep DEF Refines, EndorseNext

\* The administrator changes no table of the blocks.
LEMMA AdministerStep ==
  ASSUME ConsensusInv, Administer
  PROVE  Refines /\ Kept
<1>1. UNCHANGED <<utxoVars, syncTables, synchronizer, endorsement>> /\ EndorseNext
  BY DEF Administer, EndorseNext, Configure, StakeChange
<1>2. EndorseTypeOK'
  BY <1>1, InvTypes, StepTypeOK
<1> QED
  BY <1>1, <1>2, TablesStep DEF Refines

\* A call of consensus from blksync.xsat, on the endorsements as they are.
LEMMA InlineCallStep ==
  ASSUME ConsensusInv, NEW b \in Blocks, NEW y, SyncReady(y, b), Consensus(endorsement, y, b),
         UNCHANGED <<endorsement, config, endorseTables>>, UtxoInv'
  PROVE  Refines /\ Kept
<1>1. /\ InlineConsensus(endorsement, b)
      /\ RowsBelowHead' /\ LimitsOfPools'
      /\ UNCHANGED <<migrating_height, migrationVars>> \/ Chooses(endorsement, head_height')
      /\ UNCHANGED status
  BY InvTypes, ConsensusEffect
<1>2. SyncConsensus(b)
  BY <1>1 DEF SyncConsensus, endorseTables
<1>3. MigratedBlockKeepsProviders'
  <2>1. CASE UNCHANGED <<migrating_height, migrationVars>>
    BY <1>1, <2>1, ProvidersStay DEF migrationVars
  <2>2. CASE Chooses(endorsement, head_height')
    <3>1. Chooses(endorsement', head_height')
      BY <2>2 DEF Chooses
    <3> QED
      BY <3>1, ProvidersChosen
  <2> QED
    BY <1>1, <2>1, <2>2
<1> QED
  BY <1>1, <1>2, <1>3 DEF Refines, Kept, EndorseNext

\* A step of blksync.xsat or of time alone.
LEMMA ElsewhereStep ==
  ASSUME ConsensusInv, UtxoInv',
         UNCHANGED <<chainTables, migrating_hash, num_provider_validators, synchronizer,
                     endorsement, config, endorseTables>>
  PROVE  Refines /\ Kept
<1>1. Refines
  BY DEF Refines, endorseVars, endorseTables
<1>2. RowsBelowHead' /\ LimitsOfPools'
  BY DEF ConsensusInv, RowsBelowHead, LimitsOfPools, chainTables
<1>3. MigratedBlockKeepsProviders'
  BY ProvidersStay DEF chainTables
<1> QED
  BY <1>1, <1>2, <1>3 DEF Kept

\* Every action of blksync.xsat, with the consensus that verify may send.
LEMMA VerifyBlockStep ==
  ASSUME ConsensusInv, NEW s \in Synchronizers, NEW b \in Blocks, VerifyBlock(s, b)
  PROVE  Refines /\ Kept
<1>1. UNCHANGED <<endorsement, config, endorseTables>>
  BY DEF VerifyBlock, Verified, VerifiedLate, Withdrawn
<1>2. CASE Verified(s, b)
  <2>1. UtxoInv'
    BY <1>2, VerifiedStep DEF ConsensusInv
  <2>2. PICK y : y = Pass(SyncNow, s, b)
    OBVIOUS
  <2>3. SyncReady(y, b)
    BY <1>2, <2>2, ReadyPassed DEF Verified, ConsensusInv
  <2>4. \/ SetSync(y) /\ UNCHANGED <<utxoVars, synchronizer>>
        \/ Consensus(endorsement, y, b)
    BY <1>2, <2>2 DEF Verified
  <2>5. CASE UNCHANGED <<utxoVars, synchronizer>>
    BY <1>1, <2>1, <2>5, ElsewhereStep DEF utxoVars, migrationVars
  <2> QED
    BY <1>1, <2>1, <2>3, <2>4, <2>5, InlineCallStep
<1>3. CASE VerifiedLate(s, b)
  <2>1. UtxoInv'
    BY <1>3, VerifiedLateStep DEF ConsensusInv
  <2>2. SyncReady(SyncNow, b)
    BY <1>3, UncheckedAboveTip, ReadyNow DEF VerifiedLate, ConsensusInv
  <2> QED
    BY <1>1, <1>3, <2>1, <2>2, InlineCallStep DEF VerifiedLate
<1>4. CASE Withdrawn(s, b)
  <2>1. UtxoInv'
    BY <1>4, WithdrawnStep DEF ConsensusInv
  <2>2. UNCHANGED <<utxoVars, synchronizer>>
    BY <1>4 DEF Withdrawn
  <2> QED
    BY <1>1, <2>1, <2>2, ElsewhereStep DEF utxoVars, migrationVars
<1> QED
  BY <1>2, <1>3, <1>4 DEF VerifyBlock

\* Time only opens windows.
LEMMA TimePassesStep ==
  ASSUME ConsensusInv, NEW b \in Blocks, TimePasses(b)
  PROVE  Refines /\ Kept
<1>1. CASE WindowExpires(b) /\ UNCHANGED endorseTables
  <2>1. UtxoInv'
    BY <1>1, WindowExpiresStep DEF ConsensusInv
  <2> QED
    BY <1>1, <2>1, ElsewhereStep DEF WindowExpires, utxoVars, migrationVars
<1>2. CASE /\ ParserTimeout(b)
           /\ UNCHANGED <<chainTables, irreversible_hash, migrationVars, parsing_height, parsed,
                          uploader, utxoTables, block, syncTables, synchronizer, endorsement,
                          config, endorseTables>>
  <2>1. UtxoInv'
    BY <1>2, ParserTimeoutStep DEF ConsensusInv
  <2> QED
    BY <1>2, <2>1, ElsewhereStep DEF migrationVars
<1> QED
  BY <1>1, <1>2 DEF TimePasses

(***************************************************************************)
(* processblock, phase by phase.                                           *)
(***************************************************************************)
\* The phase and the status it follows from.
LEMMA PhaseStatus ==
  ASSUME ConsensusInv
  PROVE  /\ Phase = "migrating" => /\ migrating_height # 0
                                   /\ status \in {"waiting", "migrating"}
         /\ Phase = "deleting_data" => status = "deleting_data" /\ migrating_height # 0
         /\ Phase = "distributing_rewards" => status = "distributing_rewards"
         /\ Phase = "parsing" => status = "parsing" \/ (status = "waiting" /\ migrating_height = 0)
<1>1. status \in Statuses /\ migrating_height \in Nat
  BY InvTypes
<1> QED
  BY <1>1 DEF Phase, ConsensusInv, UtxoInv, PhasesAlternate, Statuses

ParsingKeeps == RowsBelowHead' /\ LimitsOfPools' /\ MigratedBlockKeepsProviders'

\* The batches that move the rows of the block.
LEMMA MigratePhase ==
  ASSUME ConsensusInv, NEW rows \in Nat, Phase = "migrating", Migrate(rows),
         UNCHANGED <<endorsement, synchronizer, config, endorseTables>>
  PROVE  ChainMigrates /\ ParsingKeeps
<1>1. /\ status' \in {"deleting_data", "migrating"}
      /\ UNCHANGED <<head_height, irreversible_height, migrating_height, parsed_height,
                     consensus_block, migrating_hash, num_provider_validators>>
  BY DEF Migrate
<1>2. status \in {"waiting", "migrating"} /\ migrating_height # 0
  BY PhaseStatus
<1>3. ChainMigrates
  BY <1>1, <1>2 DEF ChainMigrates, endorseTables
<1>4. RowsBelowHead' /\ LimitsOfPools'
  BY <1>1 DEF ConsensusInv, RowsBelowHead, LimitsOfPools
<1>5. MigratedBlockKeepsProviders'
  BY <1>1, <1>2, ProvidersStay
<1> QED
  BY <1>3, <1>4, <1>5 DEF ParsingKeeps

\* The batches that delete its data.
LEMMA DeletePhase ==
  ASSUME ConsensusInv, NEW rows \in Nat, Phase = "deleting_data", DeleteData(rows),
         UNCHANGED <<synchronizer, config, endorseTables>>
  PROVE  (ChainErases \/ UNCHANGED endorseVars) /\ ParsingKeeps
<1>1. UNCHANGED <<head_height, irreversible_height, migrating_height, parsed_height, migrating_hash,
                  num_provider_validators>>
  BY DEF DeleteData, migrationVars
<1>2. status = "deleting_data" /\ migrating_height # 0
  BY PhaseStatus
<1>3. CASE DeletePending(rows) \/ DeleteSpent(rows)
  <2>1. UNCHANGED <<status, consensus_block, endorsement>>
    BY <1>3 DEF DeletePending, DeleteSpent, consensusRows
  <2>2. UNCHANGED endorseVars
    BY <1>1, <2>1 DEF endorseVars, endorseTables, chainTables
  <2>3. RowsBelowHead' /\ LimitsOfPools'
    BY <1>1, <2>1 DEF ConsensusInv, RowsBelowHead, LimitsOfPools
  <2>4. MigratedBlockKeepsProviders'
    BY <1>1, <1>2, <2>1, ProvidersStay
  <2> QED
    BY <2>2, <2>3, <2>4 DEF ParsingKeeps
<1>4. CASE StoreIrreversible
  <2>1. /\ EraseEndorsements(migrating_height)
        /\ consensus_block' = {b \in consensus_block : Height[b] # migrating_height}
        /\ status' = "distributing_rewards"
    BY <1>4 DEF StoreIrreversible
  <2>2. ChainErases
    BY <1>1, <1>2, <2>1 DEF ChainErases, endorseTables
  <2>3. RowsBelowHead' /\ LimitsOfPools'
    BY <1>1, <2>1 DEF ConsensusInv, RowsBelowHead, LimitsOfPools
  <2>4. MigratedBlockKeepsProviders'
    BY <2>1 DEF MigratedBlockKeepsProviders
  <2> QED
    BY <2>2, <2>3, <2>4 DEF ParsingKeeps
<1> QED
  BY <1>3, <1>4 DEF DeleteData

\* The batches that pay its reward, up to the row that becomes irreversible.
LEMMA RewardPhase ==
  ASSUME ConsensusInv, Phase = "distributing_rewards", DistributeRewards,
         UNCHANGED <<synchronizer, config, endorseTables>>
  PROVE  (ChainFinalizes \/ UNCHANGED endorseVars) /\ ParsingKeeps
<1>1. UNCHANGED <<head_height, parsed_height, consensus_block, endorsement>>
  BY DEF DistributeRewards
<1>2. status = "distributing_rewards"
  BY PhaseStatus
<1>3. RowsBelowHead' /\ LimitsOfPools'
  BY <1>1 DEF ConsensusInv, RowsBelowHead, LimitsOfPools
<1>4. CASE BatchEnd < num_provider_validators
  <2>1. UNCHANGED <<irreversible_height, migrating_height, status>>
    BY <1>4 DEF DistributeRewards
  <2>2. UNCHANGED endorseVars
    BY <1>1, <2>1 DEF endorseVars, chainTables, endorseTables
  <2>3. MigratedBlockKeepsProviders'
    BY <1>2, <2>1 DEF MigratedBlockKeepsProviders
  <2> QED
    BY <1>3, <2>2, <2>3 DEF ParsingKeeps
<1>5. CASE ~(BatchEnd < num_provider_validators)
  <2>1. irreversible_height' = migrating_height /\ migrating_height' = 0 /\ status' = "parsing"
    BY <1>5 DEF DistributeRewards
  <2>2. ChainFinalizes
    BY <1>1, <1>2, <2>1 DEF ChainFinalizes, endorseTables
  <2>3. MigratedBlockKeepsProviders'
    BY <2>1 DEF MigratedBlockKeepsProviders
  <2> QED
    BY <1>3, <2>2, <2>3 DEF ParsingKeeps
<1> QED
  BY <1>4, <1>5

\* The batches that parse the head.
LEMMA ParsePhase ==
  ASSUME ConsensusInv, NEW s \in Synchronizers, NEW b \in Blocks, NEW rows \in Nat,
         MayProcess(s, b), Phase = "parsing", ParseRows(s, b, rows),
         UNCHANGED <<synchronizer, config, endorseTables>>
  PROVE  ChainParses /\ ParsingKeeps
<1>1. UNCHANGED <<head_height, irreversible_height, consensus_block, endorsement>>
  BY DEF ParseRows
<1>2. status = "parsing" \/ (status = "waiting" /\ migrating_height = 0)
  BY PhaseStatus
<1>3. /\ head_height \in Nat /\ irreversible_height \in Nat /\ consensus_block \subseteq Blocks
      /\ endorsement \in EndorsementType
  BY InvTypes DEF TablesTypeOK
<1>4. b \in consensus_block /\ Height[b] = parsing_height
  BY DEF MayProcess, ConsensusInv, UtxoInv, ParsingInOrder
<1>5. /\ status' \in {"parsing", "waiting"}
      /\ parsed_height' \in {parsed_height, parsing_height}
      /\ \/ UNCHANGED <<migrating_height, migrationVars>>
         \/ \E done : NextIrreversible(endorsement, consensus_block, done, head_height)
  BY DEF ParseRows
<1>6. UNCHANGED <<migrating_height, migrationVars>> \/ Chooses(endorsement, head_height)
  <2>1. \A c \in consensus_block : Height[c] <= head_height
    BY DEF ConsensusInv, RowsBelowHead
  <2> QED
    BY <1>3, <1>5, <2>1, MigrationIsChosen
<1>7. MayChooseMigration(head_height)
  BY <1>6 DEF MayChooseMigration, Chooses
<1>8. ChainParses
  BY <1>1, <1>2, <1>4, <1>5, <1>7 DEF ChainParses, endorseTables
<1>9. RowsBelowHead' /\ LimitsOfPools'
  BY <1>1 DEF ConsensusInv, RowsBelowHead, LimitsOfPools
<1>10. MigratedBlockKeepsProviders'
  <2>1. CASE UNCHANGED <<migrating_height, migrationVars>>
    BY <1>1, <1>2, <2>1, ProvidersStay DEF migrationVars
  <2>2. CASE Chooses(endorsement, head_height)
    <3>1. Chooses(endorsement', head_height)
      BY <1>1, <2>2 DEF Chooses
    <3> QED
      BY <3>1, ProvidersChosen
  <2> QED
    BY <1>6, <2>1, <2>2
<1> QED
  BY <1>8, <1>9, <1>10 DEF ParsingKeeps

\* processblock, whatever its phase, with the erasure of endorsements it sends.
LEMMA ParseBlockStep ==
  ASSUME ConsensusInv, NEW s \in Synchronizers, NEW b \in Blocks, NEW rows \in ProcessRows,
         ParseBlock(s, b, rows)
  PROVE  Refines /\ Kept
<1>1. /\ rows \in Nat /\ ProcessBlock(s, b, rows)
      /\ UNCHANGED <<syncTables, synchronizer, config, endorseTables>>
  BY UtxoAssumption DEF UtxoAssumption, ParseBlock
<1>2. UtxoInv'
  BY <1>1, ProcessBlockStep DEF ConsensusInv
<1>3. CASE Phase = "migrating" /\ Migrate(rows) /\ UNCHANGED endorsement
  BY <1>1, <1>2, <1>3, MigratePhase DEF ParsingKeeps, Kept, Refines, EndorseNext
<1>4. CASE Phase = "deleting_data" /\ DeleteData(rows)
  BY <1>1, <1>2, <1>4, DeletePhase DEF ParsingKeeps, Kept, Refines, EndorseNext
<1>5. CASE Phase = "distributing_rewards" /\ DistributeRewards
  BY <1>1, <1>2, <1>5, RewardPhase DEF ParsingKeeps, Kept, Refines, EndorseNext
<1>6. CASE Phase = "parsing" /\ ParseRows(s, b, rows) /\ MayProcess(s, b)
  BY <1>1, <1>2, <1>6, ParsePhase DEF ParsingKeeps, Kept, Refines, EndorseNext
<1> QED
  BY <1>1, <1>3, <1>4, <1>5, <1>6 DEF ProcessBlock

-----------------------------------------------------------------------------
\* The invariant holds when the contracts are set up.
LEMMA InitConsensusInv ==
  ASSUME ConsensusInit
  PROVE  ConsensusInv
<1>1. UtxoSpecInit
  BY DEF ConsensusInit, EndorseInit, UtxoSpecInit
<1>2. EndorseInv
  BY InitInv DEF ConsensusInit
<1>3. RowsBelowHead /\ MigratedBlockKeepsProviders
  BY DEF ConsensusInit, UtxoInit, RowsBelowHead, MigratedBlockKeepsProviders
<1>4. LimitsOfPools
  BY DEF ConsensusInit, EndorseInit, LimitsOfPools
<1> QED
  BY <1>1, <1>2, <1>3, <1>4, InitUtxoInv DEF ConsensusInv

\* Every step of the composition keeps it.
LEMMA ConsensusNextStep ==
  ASSUME ConsensusInv, [ConsensusNext]_consensusVars
  PROVE  Refines /\ ConsensusInv'
<1>1. CASE UNCHANGED consensusVars
  <2>1. UNCHANGED <<utxoVars, syncTables, synchronizer, endorseVars, endorsement, config>>
    BY <1>1 DEF consensusVars, endorseVars, endorseTables, utxoVars, chainTables
  <2>2. EndorseTypeOK'
    BY <2>1, InvTypes DEF EndorseTypeOK, TablesTypeOK, endorseVars, chainTables
  <2>3. Kept
    BY <2>1, <2>2, TablesStep
  <2> QED
    BY <2>1, <2>3, StepInv DEF Kept, Refines, ConsensusInv
<1>2. CASE ConsensusNext
  <2>1. Refines /\ Kept
    BY <1>2, EndorseBlockStep, VoteToVoidStep, AdministerStep, VerifyBlockStep, ParseBlockStep,
       TimePassesStep DEF ConsensusNext
  <2> QED
    BY <2>1, StepInv DEF Kept, Refines, ConsensusInv
<1> QED
  BY <1>1, <1>2

\* The invariants of both contracts hold in their composition.
THEOREM ConsensusInvHolds == ConsensusSpec => []ConsensusInv
BY InitConsensusInv, ConsensusNextStep, PTL DEF ConsensusSpec

\* utxomng.xsat does to the chain state no more than BlockEndorse lets its
\* environment do, so what is proved of blkendt.xsat holds of the composition.
THEOREM ConsensusImplementsEndorse == ConsensusSpec => EndorseSpec
<1>1. ConsensusInit => EndorseInit
  BY DEF ConsensusInit
<1>2. ConsensusInv /\ [ConsensusNext]_consensusVars => [EndorseNext]_endorseVars
  BY ConsensusNextStep DEF Refines
<1> QED
  BY <1>1, <1>2, ConsensusInvHolds, PTL DEF ConsensusSpec, EndorseSpec

\* From the choice of a migration to the erasure the endorsement row holds the
\* providers that were counted, whoever endorses or revotes in between.
THEOREM MigratedBlockKeepsProvidersHolds == ConsensusSpec => []MigratedBlockKeepsProviders
<1>1. ConsensusInv => MigratedBlockKeepsProviders
  BY DEF ConsensusInv
<1> QED
  BY <1>1, ConsensusInvHolds, PTL

\* The endorsements of the migrated height stay as they are in the composition.
THEOREM ConsensusKeepsEndorsements ==
  ConsensusSpec => MigratingEndorsementsFrozen /\ ElectorateFrozen
BY ConsensusImplementsEndorse, MigratingRowsFrozen, ListsFrozen

-----------------------------------------------------------------------------
(***************************************************************************)
(* Ready blocks are stored.                                                *)
(***************************************************************************)
FileKept == WindowsHaveMiners' /\ PassedAreKnown' /\ EndorsedAwaitMiner'

\* Nobody on file of b is its miner.
NoMinerOnFile(b) ==
  /\ Miner[b] # NoAccount
  /\ \A i \in DOMAIN passed_index[b] : passed_index[b][i] # Miner[b]

MinerFirst(y, b) ==
  b \in y.window =>
    /\ Miner[b] # NoAccount
    /\ \A i \in DOMAIN y.passed[b] : i > 1 => y.passed[b][i] # Miner[b]

\* The types of the files of the blocks.
LEMMA FileTypes ==
  ASSUME ReadyInv
  PROVE  /\ passed_index \in [Blocks -> Seq(Synchronizers)]
         /\ miner_window \subseteq block_miner /\ block_miner \subseteq Blocks
         /\ ConsensusInv
BY InvTypes DEF ReadyInv, SyncTypeOK

\* A step that touches the file of one block only.
LEMMA FileStep ==
  ASSUME ReadyInv, NEW b \in Blocks,
         \A c \in Blocks \ {b} :
           is_endorsement_consensus_reached(endorsement, c)' => is_endorsement_consensus_reached(endorsement, c),
         \A c \in Blocks \ {b} : passed_index'[c] = passed_index[c],
         miner_window' \subseteq miner_window \cup {b}, block_miner \ {b} \subseteq block_miner',
         MinerFirst(SyncNow, b)', b \notin block_miner' => passed_index'[b] = << >>,
         passed_index'[b] # << >> /\ is_endorsement_consensus_reached(endorsement, b)' => NoMinerOnFile(b)'
  PROVE  FileKept
<1>1. WindowsHaveMiners'
  <2> SUFFICES ASSUME NEW c \in miner_window'
               PROVE  /\ Miner[c] # NoAccount
                      /\ \A i \in DOMAIN passed_index'[c] : i > 1 => passed_index'[c][i] # Miner[c]
    BY DEF WindowsHaveMiners
  <2>1. CASE c = b
    BY <2>1 DEF MinerFirst, SyncNow
  <2>2. CASE c # b
    <3>1. c \in miner_window /\ passed_index'[c] = passed_index[c]
      BY <2>2, FileTypes
    <3> QED
      BY <3>1 DEF ReadyInv, WindowsHaveMiners
  <2> QED
    BY <2>1, <2>2
<1>2. PassedAreKnown'
  BY DEF ReadyInv, PassedAreKnown
<1>3. EndorsedAwaitMiner'
  <2> SUFFICES ASSUME NEW c \in Blocks, passed_index'[c] # << >>,
                      is_endorsement_consensus_reached(endorsement, c)'
               PROVE  NoMinerOnFile(c)'
    BY DEF EndorsedAwaitMiner, NoMinerOnFile, Passed, SyncNow
  <2>1. CASE c # b
    <3>1. passed_index[c] # << >> /\ is_endorsement_consensus_reached(endorsement, c)
          /\ passed_index'[c] = passed_index[c]
      BY <2>1
    <3> QED
      BY <3>1 DEF ReadyInv, EndorsedAwaitMiner, NoMinerOnFile, Passed, SyncNow
  <2> QED
    BY <2>1
<1> QED
  BY <1>1, <1>2, <1>3 DEF FileKept

SameActivation == UNCHANGED config.xsat_stake_activation_height

\* The endorsements are counted as before while the activation height stays.
LEMMA CountedAsBefore ==
  ASSUME SameActivation, NEW b \in Blocks
  PROVE  is_endorsement_consensus_reached(endorsement, b)' <=>
           is_endorsement_consensus_reached(endorsement', b)
BY DEF SameActivation, is_endorsement_consensus_reached, is_xsat_consensus_active

\* A block whose rows stay keeps its count.
LEMMA SameRowsSameCount ==
  ASSUME SameActivation, NEW b \in Blocks,
         \A s \in Scopes : endorsement'[s][b] = endorsement[s][b]
  PROVE  is_endorsement_consensus_reached(endorsement, b)' =>
           is_endorsement_consensus_reached(endorsement, b)
<1>1. endorsement'["btc"][b] = endorsement["btc"][b] /\ endorsement'["xsat"][b] = endorsement["xsat"][b]
  BY DEF Scopes
<1> QED
  BY <1>1, CountedAsBefore DEF is_endorsement_consensus_reached

\* A call of consensus leaves nothing on file of a block that it stores; of an
\* endorsed one that it does not store the window is open and the miner is not
\* on file.
LEMMA ConsensusReady ==
  ASSUME ReadyInv, NEW b \in Blocks, NEW y, SyncReady(y, b),
         Consensus(endorsement', y, b), SameActivation,
         \A s \in Scopes, c \in Blocks \ {b} : endorsement'[s][c] = endorsement[s][c],
         y.window \subseteq miner_window \cup {b}, block_miner \subseteq y.known,
         MinerFirst(y, b), b \notin y.known => y.passed[b] = << >>
  PROVE  FileKept
<1>1. /\ y.passed \in [Blocks -> Seq(Synchronizers)]
      /\ \A c \in Blocks \ {b} : y.passed[c] = passed_index[c]
  BY DEF SyncReady, SyncSound
<1>2. \A c \in Blocks \ {b} :
        is_endorsement_consensus_reached(endorsement, c)' => is_endorsement_consensus_reached(endorsement, c)
  BY SameRowsSameCount
<1>3. CASE MayReachConsensus(endorsement', y, b)
  <2>1. /\ passed_index' = [y.passed EXCEPT ![b] = << >>]
        /\ block_miner' = y.known \ {b} /\ miner_window' = y.window \ {b}
    BY <1>3 DEF Consensus, SetSync, Forget
  <2>2. passed_index'[b] = << >> /\ \A c \in Blocks \ {b} : passed_index'[c] = passed_index[c]
    BY <1>1, <2>1
  <2>3. MinerFirst(SyncNow, b)'
    BY <2>1 DEF MinerFirst, SyncNow
  <2> QED
    BY <1>2, <2>1, <2>2, <2>3, FileStep
<1>4. CASE ~MayReachConsensus(endorsement', y, b)
  <2>1. passed_index' = y.passed /\ block_miner' = y.known /\ miner_window' = y.window
    BY <1>4 DEF Consensus, SetSync
  <2>2. MinerFirst(SyncNow, b)'
    BY <2>1 DEF MinerFirst, SyncNow
  <2>3. ASSUME passed_index'[b] # << >>, is_endorsement_consensus_reached(endorsement, b)'
        PROVE  NoMinerOnFile(b)'
    <3>1. WaitsForMiner(y, b)
      BY <1>4, <2>1, <2>3, CountedAsBefore DEF MayReachConsensus, Passed
    <3>2. Miner[b] # NoAccount /\ Head(y.passed[b]) # Miner[b] /\ b \in y.window
      BY <3>1 DEF WaitsForMiner, PassedBy
    <3>3. ASSUME NEW i \in DOMAIN y.passed[b] PROVE y.passed[b][i] # Miner[b]
      <4>1. i > 1 \/ i = 1
        BY <1>1
      <4>2. Head(y.passed[b]) = y.passed[b][1]
        BY <1>1, <2>1, <2>3
      <4> QED
        BY <3>2, <4>1, <4>2 DEF MinerFirst
    <3> QED
      BY <2>1, <3>2, <3>3 DEF NoMinerOnFile
  <2> QED
    BY <1>1, <1>2, <2>1, <2>2, <2>3, FileStep
<1> QED
  BY <1>3, <1>4

\* The tables as they are.
LEMMA MinerFirstNow ==
  ASSUME ReadyInv, NEW b \in Blocks
  PROVE  MinerFirst(SyncNow, b) /\ (b \notin block_miner => passed_index[b] = << >>)
BY DEF ReadyInv, WindowsHaveMiners, PassedAreKnown, MinerFirst, SyncNow

\* A step that leaves the files alone, and adds no endorsed block.
LEMMA FilesLeftAlone ==
  ASSUME ReadyInv, UNCHANGED syncTables,
         \A c \in Blocks :
           is_endorsement_consensus_reached(endorsement, c)' => is_endorsement_consensus_reached(endorsement, c)
  PROVE  FileKept
BY DEF ReadyInv, WindowsHaveMiners, PassedAreKnown, EndorsedAwaitMiner, FileKept, syncTables, Passed, SyncNow

\* An endorsement that sends no consensus completed nothing.
LEMMA UnsentIncomplete ==
  ASSUME ConsensusInv, NEW v \in Validators, NEW b \in Blocks, EndorseTables(v, b), ~SendsConsensus(v, b),
         is_endorsement_consensus_reached(endorsement', b)
  PROVE  is_endorsement_consensus_reached(endorsement, b)
<1> DEFINE s == ScopeOf(v)
<1>1. endorsement \in EndorsementType /\ s \in Scopes /\ OtherScope(s) \in Scopes
  BY InvTypes DEF ScopeOf, OtherScope, Scopes
<1>2. endorsement'[OtherScope(s)][b] = endorsement[OtherScope(s)][b]
  <2>1. CASE UNCHANGED endorsement
    BY <2>1
  <2>2. ASSUME NEW row, endorsement' = [endorsement EXCEPT ![s][b] = row]
        PROVE  endorsement'[OtherScope(s)][b] = endorsement[OtherScope(s)][b]
    BY <1>1, <2>2 DEF EndorsementType, OtherScope, Scopes
  <2> QED
    BY <2>1, <2>2 DEF EndorseTables, ReturnVote, OpenEndorsement, JoinEndorsement, LateVote
<1>3. endorsement'[s][b] = endorsement[s][b] \/ ~reached_consensus(endorsement'[s][b])
      \/ (is_xsat_consensus_active(Height[b]) /\ ~reached_consensus(endorsement[OtherScope(s)][b]))
  BY DEF SendsConsensus, Row
<1>4. CASE s = "btc"
  BY <1>2, <1>3, <1>4 DEF OtherScope, is_endorsement_consensus_reached
<1>5. CASE s = "xsat"
  BY <1>2, <1>3, <1>5 DEF OtherScope, is_endorsement_consensus_reached
<1> QED
  BY <1>1, <1>4, <1>5 DEF Scopes

\* endorse: the one that reaches the quorum sends consensus, which reads the file.
LEMMA EndorseBlockFile ==
  ASSUME ReadyInv, NEW v \in Validators, NEW b \in Blocks, EndorseBlock(v, b)
  PROVE  FileKept
<1>1. EndorseTables(v, b) /\ MayEndorse(Height[b]) /\ SameActivation
  BY DEF EndorseBlock, EndorseTables, SameActivation
<1>2. \A s \in Scopes, c \in Blocks \ {b} : endorsement'[s][c] = endorsement[s][c]
  BY <1>1, FileTypes, InvTypes, EndorseTablesElsewhere
<1>3. CASE SendsConsensus(v, b)
  <2>1. Consensus(endorsement', SyncNow, b)
    BY <1>3 DEF EndorseBlock
  <2>2. irreversible_height < Height[b] /\ migrating_height # Height[b]
    BY <1>1 DEF MayEndorse
  <2>3. Height[b] > Floor
    <3>1. status = "distributing_rewards" => migrating_height = irreversible_height + 1
      BY FileTypes DEF ConsensusInv, UtxoInv, PhasesAlternate, MigratedBlockIsParsed
    <3> QED
      BY <2>2, <3>1, FileTypes, InvTypes, Heights0 DEF Floor
  <2>4. SyncReady(SyncNow, b)
    BY <2>3, FileTypes, ReadyNow DEF ConsensusInv
  <2>5. SyncNow.window = miner_window /\ SyncNow.known = block_miner /\ SyncNow.passed = passed_index
    BY DEF SyncNow
  <2>6. MinerFirst(SyncNow, b) /\ (b \notin block_miner => passed_index[b] = << >>)
    BY MinerFirstNow
  <2> QED
    BY <1>1, <1>2, <2>1, <2>4, <2>5, <2>6, ConsensusReady
<1>4. CASE ~SendsConsensus(v, b)
  <2>1. UNCHANGED syncTables
    BY <1>4 DEF EndorseBlock
  <2>2. ASSUME NEW c \in Blocks, is_endorsement_consensus_reached(endorsement, c)'
        PROVE  is_endorsement_consensus_reached(endorsement, c)
    <3>1. CASE c # b
      BY <1>1, <1>2, <2>2, <3>1, SameRowsSameCount
    <3>2. CASE c = b
      BY <1>1, <1>4, <2>2, <3>2, CountedAsBefore, FileTypes, UnsentIncomplete
    <3> QED
      BY <3>1, <3>2
  <2> QED
    BY <2>1, <2>2, FilesLeftAlone
<1> QED
  BY <1>3, <1>4

\* Rows that go reach no consensus.
LEMMA VoidedRows ==
  ASSUME SameActivation, NEW b \in Blocks,
         \/ \A s \in Scopes : endorsement'[s][b] = endorsement[s][b]
         \/ \A s \in Scopes : endorsement'[s][b] = NoRow
  PROVE  is_endorsement_consensus_reached(endorsement, b)' =>
           is_endorsement_consensus_reached(endorsement, b)
<1>1. CASE \A s \in Scopes : endorsement'[s][b] = NoRow
  <2>1. endorsement'["btc"][b] = NoRow
    BY <1>1 DEF Scopes
  <2> QED
    BY <2>1, CountedAsBefore DEF is_endorsement_consensus_reached, reached_consensus, NoRow
<1> QED
  BY <1>1, SameRowsSameCount

\* A revote only takes endorsements away.
LEMMA VoteToVoidFile ==
  ASSUME ReadyInv, NEW s \in Synchronizers, NEW h \in Heights, VoteToVoid(s, h)
  PROVE  FileKept
<1>1. Revote(s, h) /\ UNCHANGED syncTables /\ SameActivation
  BY DEF VoteToVoid, Revote, SameActivation
<1>2. UNCHANGED endorsement \/ VoidEndorsements(h)
  BY <1>1 DEF Revote, OpenRevote, JoinRevote
<1>3. ASSUME NEW c \in Blocks
      PROVE  \/ \A p \in Scopes : endorsement'[p][c] = endorsement[p][c]
             \/ \A p \in Scopes : endorsement'[p][c] = NoRow
  BY <1>2 DEF VoidEndorsements
<1> QED
  BY <1>1, <1>3, VoidedRows, FilesLeftAlone

\* No call of the administrator moves the activation while the configurations agree.
LEMMA ConfigureActivation ==
  ASSUME FixedActivation, ActivationOfConfigs, NEW c \in Configs, Configure(c), config \in ConfigType
  PROVE  SameActivation
<1>1. c.xsat_stake_activation_height = config.xsat_stake_activation_height
  BY DEF FixedActivation, ActivationOfConfigs
<1>2. c \in ConfigType
  BY TablesAssumption DEF TablesAssumption
<1> QED
  BY <1>1, <1>2 DEF Configure, SameActivation, ConfigType

\* No configuration completes the endorsements of a block.
LEMMA AdministerFile ==
  ASSUME FixedActivation, ReadyInv, Administer
  PROVE  FileKept /\ SameActivation
<1>1. UNCHANGED <<syncTables, endorsement>>
  BY DEF Administer, Configure, StakeChange
<1>2. config \in ConfigType
  BY FileTypes, InvTypes DEF TablesTypeOK
<1>3. SameActivation
  <2>1. CASE \E c \in Configs : Configure(c)
    BY <1>2, <2>1, ConfigureActivation DEF ReadyInv
  <2>2. CASE UNCHANGED config
    BY <2>2 DEF SameActivation
  <2> QED
    BY <2>1, <2>2 DEF Administer, StakeChange
<1> QED
  BY <1>1, <1>3, VoidedRows, FilesLeftAlone

\* A verification puts the miner first while the window is open, and others last.
LEMMA PassKeepsFirst ==
  ASSUME ReadyInv, NEW b \in Blocks, NEW s \in Synchronizers,
         \A i \in DOMAIN passed_index[b] : passed_index[b][i] # s
  PROVE  LET y == Pass(SyncNow, s, b) IN
         /\ y.window \subseteq miner_window \cup {b} /\ block_miner \subseteq y.known /\ b \in y.known
         /\ MinerFirst(y, b)
         /\ s # Miner[b] => \A i \in DOMAIN y.passed[b] :
              y.passed[b][i] = s \/ \E j \in DOMAIN passed_index[b] : y.passed[b][i] = passed_index[b][j]
         /\ \A c \in Blocks \ {b} : y.passed[c] = passed_index[c]
<1> DEFINE q == passed_index[b]
<1>1. PICK y : y = Pass(SyncNow, s, b)
  OBVIOUS
<1>2. passed_index \in [Blocks -> Seq(Synchronizers)] /\ q \in Seq(Synchronizers)
  BY FileTypes
<1>3. /\ y.window = IF b \notin block_miner /\ Miner[b] # NoAccount THEN miner_window \cup {b}
                                                                  ELSE miner_window
      /\ y.known = block_miner \cup {b}
      /\ y.passed = [passed_index EXCEPT ![b] = IF s = Miner[b] /\ b \in y.window THEN <<s>> \o q
                                                                                ELSE Append(q, s)]
  BY <1>1 DEF Pass, SyncNow
<1>4. y.passed[b] = (IF s = Miner[b] /\ b \in y.window THEN <<s>> \o q ELSE Append(q, s))
      /\ \A c \in Blocks \ {b} : y.passed[c] = passed_index[c]
  BY <1>2, <1>3
<1>5. b \in y.window => Miner[b] # NoAccount /\ \A i \in DOMAIN q : i > 1 => q[i] # Miner[b]
  <2>1. CASE b \in miner_window
    BY <2>1 DEF ReadyInv, WindowsHaveMiners
  <2>2. CASE b \notin miner_window
    <3>1. b \in y.window => b \notin block_miner /\ Miner[b] # NoAccount
      BY <1>3, <2>2
    <3>2. b \notin block_miner => q = << >>
      BY DEF ReadyInv, PassedAreKnown
    <3> QED
      BY <3>1, <3>2
  <2> QED
    BY <2>1, <2>2
<1>6. ASSUME s = Miner[b], b \in y.window PROVE MinerFirst(y, b)
  <2>1. y.passed[b] = <<s>> \o q
    BY <1>4, <1>6
  <2>2. \A i \in DOMAIN (<<s>> \o q) : i > 1 => i - 1 \in DOMAIN q /\ (<<s>> \o q)[i] = q[i - 1]
    BY <1>2
  <2> QED
    BY <1>5, <1>6, <2>1, <2>2 DEF MinerFirst
<1>7. ASSUME ~(s = Miner[b] /\ b \in y.window)
      PROVE  /\ MinerFirst(y, b)
             /\ \A i \in DOMAIN y.passed[b] : y.passed[b][i] = s \/ \E j \in DOMAIN q : y.passed[b][i] = q[j]
  <2>1. y.passed[b] = Append(q, s)
    BY <1>4, <1>7
  <2>2. \A i \in DOMAIN Append(q, s) : (i \in DOMAIN q /\ Append(q, s)[i] = q[i]) \/ Append(q, s)[i] = s
    BY <1>2
  <2>3. MinerFirst(y, b)
    BY <1>5, <1>7, <2>1, <2>2 DEF MinerFirst
  <2> QED
    BY <2>1, <2>2, <2>3
<1>8. MinerFirst(y, b) /\ (s # Miner[b] => \A i \in DOMAIN y.passed[b] :
        y.passed[b][i] = s \/ \E j \in DOMAIN q : y.passed[b][i] = q[j])
  BY <1>6, <1>7
<1>9. y.window \subseteq miner_window \cup {b} /\ block_miner \subseteq y.known /\ b \in y.known
  BY <1>3
<1> QED
  BY <1>1, <1>4, <1>8, <1>9

\* verify within the window of the miner.
LEMMA VerifiedFile ==
  ASSUME ReadyInv, NEW s \in Synchronizers, NEW b \in Blocks, Verified(s, b)
  PROVE  FileKept
<1>1. PICK y : y = Pass(SyncNow, s, b)
  OBVIOUS
<1>2. /\ SyncReady(y, b)
      /\ \A i \in DOMAIN passed_index[b] : passed_index[b][i] # s
  BY <1>1, ReadyPassed, FileTypes DEF Verified, ConsensusInv
<1>3. /\ y.window \subseteq miner_window \cup {b} /\ block_miner \subseteq y.known /\ b \in y.known
      /\ MinerFirst(y, b)
      /\ s # Miner[b] => \A i \in DOMAIN y.passed[b] :
           y.passed[b][i] = s \/ \E j \in DOMAIN passed_index[b] : y.passed[b][i] = passed_index[b][j]
      /\ \A c \in Blocks \ {b} : y.passed[c] = passed_index[c]
  BY <1>1, <1>2, PassKeepsFirst
<1>4. UNCHANGED endorsement /\ SameActivation
  BY DEF Verified, SameActivation
<1>5. CASE s # Miner[b] /\ b \in y.window
  <2>1. passed_index' = y.passed /\ block_miner' = y.known /\ miner_window' = y.window
    BY <1>1, <1>5 DEF Verified, SetSync
  <2>2. \A c \in Blocks :
          is_endorsement_consensus_reached(endorsement, c)' => is_endorsement_consensus_reached(endorsement, c)
    BY <1>4, SameRowsSameCount
  <2>3. MinerFirst(SyncNow, b)'
    BY <1>3, <2>1 DEF MinerFirst, SyncNow
  <2>4. ASSUME is_endorsement_consensus_reached(endorsement, b)' PROVE NoMinerOnFile(b)'
    <3>1. is_endorsement_consensus_reached(endorsement, b)
      BY <2>2, <2>4
    <3>2. \A j \in DOMAIN passed_index[b] : passed_index[b][j] # Miner[b]
      <4>1. CASE passed_index[b] = << >>
        BY <4>1
      <4>2. CASE passed_index[b] # << >>
        BY <3>1, <4>2 DEF ReadyInv, EndorsedAwaitMiner, Passed, SyncNow
      <4> QED
        BY <4>1, <4>2
    <3>3. Miner[b] # NoAccount
      BY <1>3, <1>5 DEF MinerFirst
    <3> QED
      BY <1>3, <1>5, <2>1, <3>2, <3>3 DEF NoMinerOnFile
  <2> QED
    BY <1>3, <2>1, <2>2, <2>3, <2>4, FileStep
<1>6. CASE ~(s # Miner[b] /\ b \in y.window)
  <2>1. Consensus(endorsement, y, b)
    BY <1>1, <1>6 DEF Verified
  <2>2. Consensus(endorsement', y, b)
    BY <1>4, <2>1
  <2> QED
    BY <1>2, <1>3, <1>4, <2>2, ConsensusReady
<1> QED
  BY <1>5, <1>6

\* verify after the window was missed.
LEMMA VerifiedLateFile ==
  ASSUME ReadyInv, NEW s \in Synchronizers, NEW b \in Blocks, VerifiedLate(s, b)
  PROVE  FileKept
<1>1. UNCHANGED endorsement /\ SameActivation /\ Consensus(endorsement, SyncNow, b)
  BY DEF VerifiedLate, SameActivation
<1>2. Consensus(endorsement', SyncNow, b)
  BY <1>1
<1>3. SyncReady(SyncNow, b)
  BY UncheckedAboveTip, ReadyNow, FileTypes DEF VerifiedLate, ConsensusInv
<1>4. SyncNow.window = miner_window /\ SyncNow.known = block_miner /\ SyncNow.passed = passed_index
  BY DEF SyncNow
<1> QED
  BY <1>1, <1>2, <1>3, <1>4, MinerFirstNow, ConsensusReady

\* Who withdraws leaves the others in their order.
LEMMA WithdrawnFile ==
  ASSUME ReadyInv, NEW s \in Synchronizers, NEW b \in Blocks, Withdrawn(s, b)
  PROVE  FileKept
<1>1. PICK q : q = passed_index[b]
  OBVIOUS
<1>2. PICK r : r = RemoveFirst(q, s)
  OBVIOUS
<1>3. passed_index \in [Blocks -> Seq(Synchronizers)] /\ q \in Seq(Synchronizers)
  BY <1>1, FileTypes
<1>4. passed_index' = [passed_index EXCEPT ![b] = r] /\ UNCHANGED <<block_miner, miner_window, endorsement>>
      /\ SameActivation
  BY <1>1, <1>2 DEF Withdrawn, SameActivation
<1>5. passed_index'[b] = r /\ \A c \in Blocks \ {b} : passed_index'[c] = passed_index[c]
  BY <1>3, <1>4
<1>6. \A i \in DOMAIN r : \E j \in DOMAIN q : r[i] = q[j] /\ (i > 1 => j > 1)
  <2> DEFINE Shifted == \A i \in DOMAIN r : \E j \in DOMAIN q : r[i] = q[j] /\ (i > 1 => j > 1)
  <2>1. r = q => Shifted
    OBVIOUS
  <2>2. ASSUME NEW k \in 1..Len(q), q[k] = s, r \in Seq(Synchronizers), Len(r) = Len(q) - 1,
               \A i \in 1..(Len(q) - 1) : r[i] = q[IF i < k THEN i ELSE i + 1]
        PROVE  Shifted
    <3> SUFFICES ASSUME NEW i \in DOMAIN r
                 PROVE  \E j \in DOMAIN q : r[i] = q[j] /\ (i > 1 => j > 1)
      OBVIOUS
    <3>1. PICK j : j = IF i < k THEN i ELSE i + 1
      OBVIOUS
    <3>2. i \in 1..(Len(q) - 1) /\ Len(q) \in Nat
      BY <1>3, <2>2
    <3>3. r[i] = q[j] /\ j \in DOMAIN q /\ (i > 1 => j > 1)
      BY <1>3, <2>2, <3>1, <3>2
    <3> QED
      BY <3>3
  <2> HIDE DEF Shifted
  <2>3. Shifted
    BY <1>2, <1>3, <2>1, <2>2, RemoveFirstShape
  <2> QED
    BY <2>3 DEF Shifted
<1>7. q = << >> => r = << >>
  <2>1. ASSUME q = << >>, r # << >> PROVE FALSE
    <3>1. r = q \/ r \in Seq(Synchronizers)
      BY <1>2, <1>3, RemoveFirstShape
    <3>2. r \in Seq(Synchronizers)
      BY <1>3, <3>1
    <3>3. 1 \in DOMAIN r
      BY <2>1, <3>2
    <3> QED
      BY <1>6, <2>1, <3>3
  <2> QED
    BY <2>1
<1>8. \A c \in Blocks :
        is_endorsement_consensus_reached(endorsement, c)' => is_endorsement_consensus_reached(endorsement, c)
  BY <1>4, SameRowsSameCount
<1>9. MinerFirst(SyncNow, b) /\ (b \notin block_miner => q = << >>)
  BY <1>1, MinerFirstNow
<1>10. MinerFirst(SyncNow, b)'
  BY <1>1, <1>4, <1>5, <1>6, <1>9 DEF MinerFirst, SyncNow
<1>11. ASSUME r # << >>, is_endorsement_consensus_reached(endorsement, b)' PROVE NoMinerOnFile(b)'
  <2>1. NoMinerOnFile(b)
    BY <1>1, <1>7, <1>8, <1>11 DEF ReadyInv, EndorsedAwaitMiner, NoMinerOnFile, Passed, SyncNow
  <2> QED
    BY <1>1, <1>5, <1>6, <2>1 DEF NoMinerOnFile
<1> QED
  BY <1>4, <1>5, <1>7, <1>8, <1>9, <1>10, <1>11, FileStep

\* A window that is missed leaves nobody first.
LEMMA TimePassesFile ==
  ASSUME ReadyInv, NEW b \in Blocks, TimePasses(b)
  PROVE  FileKept
<1>1. UNCHANGED <<passed_index, block_miner, endorsement>> /\ SameActivation
      /\ miner_window' \subseteq miner_window
  BY DEF TimePasses, WindowExpires, syncTables, SameActivation
<1>2. \A c \in Blocks :
        is_endorsement_consensus_reached(endorsement, c)' => is_endorsement_consensus_reached(endorsement, c)
  BY <1>1, SameRowsSameCount
<1> QED
  BY <1>1, <1>2 DEF ReadyInv, WindowsHaveMiners, PassedAreKnown, EndorsedAwaitMiner, FileKept, Passed, SyncNow

\* processblock writes no file, and its erasure only voids endorsements.
LEMMA ParseBlockFile ==
  ASSUME ReadyInv, NEW s \in Synchronizers, NEW b \in Blocks, NEW rows \in ProcessRows,
         ParseBlock(s, b, rows)
  PROVE  FileKept
<1>1. ProcessBlock(s, b, rows) /\ UNCHANGED syncTables /\ SameActivation
  BY DEF ParseBlock, SameActivation
<1>2. UNCHANGED endorsement \/ EraseEndorsements(migrating_height)
  BY <1>1 DEF ProcessBlock, DeleteData, DeletePending, DeleteSpent, StoreIrreversible,
     DistributeRewards, ParseRows
<1>3. ASSUME NEW c \in Blocks
      PROVE  \/ \A p \in Scopes : endorsement'[p][c] = endorsement[p][c]
             \/ \A p \in Scopes : endorsement'[p][c] = NoRow
  BY <1>2 DEF EraseEndorsements
<1> QED
  BY <1>1, <1>3, VoidedRows, FilesLeftAlone

\* Every step of the composition keeps the files.
LEMMA ReadyNext ==
  ASSUME FixedActivation, ReadyInv, [ConsensusNext]_consensusVars
  PROVE  ReadyInv'
<1>1. ConsensusInv'
  BY ConsensusNextStep DEF ReadyInv
<1>2. CASE UNCHANGED consensusVars
  <2>1. UNCHANGED syncTables /\ SameActivation /\ UNCHANGED endorsement
    BY <1>2 DEF consensusVars, SameActivation
  <2>2. FileKept
    BY <2>1, VoidedRows, FilesLeftAlone
  <2> QED
    BY <1>1, <2>1, <2>2 DEF FileKept, ReadyInv, ActivationOfConfigs, SameActivation
<1>3. CASE ConsensusNext
  <2>1. FileKept
    BY <1>3, EndorseBlockFile, VoteToVoidFile, AdministerFile, VerifiedFile, VerifiedLateFile,
       WithdrawnFile, ParseBlockFile, TimePassesFile DEF ConsensusNext, VerifyBlock
  <2>2. SameActivation
    <3>1. CASE Administer
      BY <3>1, AdministerFile
    <3>2. CASE ~Administer
      <4>1. UNCHANGED config
        BY <1>3, <3>2 DEF ConsensusNext, EndorseBlock, EndorseTables, VoteToVoid, Revote, VerifyBlock,
           Verified, VerifiedLate, Withdrawn, ParseBlock, TimePasses, WindowExpires
      <4> QED
        BY <4>1 DEF SameActivation
    <3> QED
      BY <3>1, <3>2
  <2> QED
    BY <1>1, <2>1, <2>2 DEF FileKept, ReadyInv, ActivationOfConfigs, SameActivation
<1> QED
  BY <1>2, <1>3

\* There is nothing on file at first.
LEMMA InitReadyInv ==
  ASSUME ConsensusInit
  PROVE  ReadyInv
<1>1. ConsensusInv
  BY InitConsensusInv
<1>2. ActivationOfConfigs
  BY DEF ConsensusInit, EndorseInit, ActivationOfConfigs
<1>3. WindowsHaveMiners /\ PassedAreKnown /\ EndorsedAwaitMiner
  BY DEF ConsensusInit, SyncInit, WindowsHaveMiners, PassedAreKnown, EndorsedAwaitMiner, Passed, SyncNow
<1> QED
  BY <1>1, <1>2, <1>3 DEF ReadyInv

\* While the activation height is not moved, no order of endorsements, revotes,
\* verifications, withdrawals and expiring windows leaves a ready block that was
\* verified by its miner, or that has none, without its consensus row.
THEOREM ReadyBlocksAreStoredHolds == FixedActivation => (ConsensusSpec => []ReadyBlocksAreStored)
<1> SUFFICES ASSUME FixedActivation PROVE ConsensusSpec => []ReadyBlocksAreStored
  OBVIOUS
<1>1. ReadyInv => ReadyBlocksAreStored
  <2> SUFFICES ASSUME ReadyInv, NEW b \in Blocks, MayReachConsensus(endorsement, SyncNow, b)
               PROVE  \E i \in DOMAIN passed_index[b] : Miner[b] \notin {NoAccount, passed_index[b][i]}
    BY DEF ReadyBlocksAreStored
  <2>1. passed_index[b] # << >> /\ passed_index[b] \in Seq(Synchronizers)
    BY FileTypes DEF MayReachConsensus, Passed, SyncNow
  <2>2. 1 \in DOMAIN passed_index[b]
    BY <2>1
  <2>3. Miner[b] # NoAccount /\ \A i \in DOMAIN passed_index[b] : passed_index[b][i] # Miner[b]
    BY DEF ReadyInv, EndorsedAwaitMiner, MayReachConsensus
  <2> QED
    BY <2>2, <2>3
<1>2. ReadyInv /\ [ConsensusNext]_consensusVars => ReadyInv'
  BY ReadyNext
<1>3. ConsensusInit => ReadyInv
  BY InitReadyInv
<1> QED
  BY <1>1, <1>2, <1>3, PTL DEF ConsensusSpec
-----------------------------------------------------------------------------
(***************************************************************************)
(* The chain and its ledger.                                               *)
(***************************************************************************)
\* To the tables of utxomng.xsat each step of the composition does what the calls do
\* that it makes.
LEMMA ConsensusStepOfTables ==
  ASSUME ConsensusInv, [ConsensusNext]_consensusVars
  PROVE  UtxoTablesStep
<1>0. UtxoInv
  BY DEF ConsensusInv
<1>1. ASSUME UNCHANGED utxoVars PROVE UtxoTablesStep
  BY <1>1 DEF UtxoTablesStep
<1>2. ASSUME NEW v \in Validators, NEW b \in Blocks, EndorseBlock(v, b) PROVE UtxoTablesStep
  <2>1. CASE SendsConsensus(v, b)
    <3>1. MayEndorse(Height[b]) /\ Consensus(endorsement', SyncNow, b)
      BY <1>2, <2>1 DEF EndorseBlock, EndorseTables
    <3>2. irreversible_height < Height[b] /\ migrating_height # Height[b]
      BY <3>1 DEF MayEndorse
    <3>3. SyncReady(SyncNow, b)
      <4>1. status = "distributing_rewards" => migrating_height = irreversible_height + 1
        BY <1>0 DEF UtxoInv, PhasesAlternate, MigratedBlockIsParsed
      <4>2. Height[b] > Floor
        BY <3>2, <4>1, InvTypes, Heights0 DEF Floor
      <4> QED
        BY <1>0, <4>2, ReadyNow
    <3> QED
      BY <3>1, <3>3 DEF UtxoTablesStep
  <2>2. CASE ~SendsConsensus(v, b)
    BY <1>1, <1>2, <2>2 DEF EndorseBlock
  <2> QED
    BY <2>1, <2>2
<1>3. ASSUME NEW s \in Synchronizers, NEW h \in Heights, VoteToVoid(s, h) PROVE UtxoTablesStep
  BY <1>1, <1>3 DEF VoteToVoid
<1>4. ASSUME Administer PROVE UtxoTablesStep
  BY <1>1, <1>4 DEF Administer
<1>5. ASSUME NEW s \in Synchronizers, NEW b \in Blocks, VerifyBlock(s, b) PROVE UtxoTablesStep
  BY <1>0, <1>5, VerificationOfTables DEF VerifyBlock
<1>6. ASSUME NEW s \in Synchronizers, NEW b \in Blocks, NEW rows \in ProcessRows, ParseBlock(s, b, rows)
      PROVE  UtxoTablesStep
  BY <1>6 DEF ParseBlock, UtxoTablesStep
<1>7. ASSUME NEW b \in Blocks, TimePasses(b) PROVE UtxoTablesStep
  <2>1. CASE WindowExpires(b)
    BY <1>1, <2>1 DEF WindowExpires
  <2>2. CASE ~WindowExpires(b)
    BY <1>7, <2>2 DEF TimePasses, UtxoTablesStep
  <2> QED
    BY <2>1, <2>2
<1>8. CASE UNCHANGED consensusVars
  BY <1>1, <1>8 DEF consensusVars
<1> QED
  BY <1>2, <1>3, <1>4, <1>5, <1>6, <1>7, <1>8 DEF ConsensusNext

\* The composition starts where utxomng.xsat does.
LEMMA ConsensusStarts == ConsensusInit => UtxoSpecInit
BY DEF ConsensusInit, EndorseInit, UtxoSpecInit

\* With real endorsements, votes that void them and configurations that change, the
\* blocks utxomng.xsat stores still only grow by children of the tip that were agreed
\* on with their line of descendants.
THEOREM ConsensusImplementsChain == ConsensusSpec => ImplementsIrreversibleChain
<1>1. ConsensusInit => Promise!ChainInit
  BY ConsensusStarts, ChainStarts
<1>2. ConsensusInv /\ ConsensusInv' /\ [ConsensusNext]_consensusVars => [Promise!ChainNext]_Promise!chainVars
  BY ConsensusStepOfTables, ChainStep DEF ConsensusInv
<1> QED
  BY <1>1, <1>2, ConsensusInvHolds, PTL DEF ConsensusSpec, ImplementsIrreversibleChain, Promise!ChainSpec

\* And the UTXO set stays that of the chain followed by the rows migrated so far
\* (migrate, delete_data and parse of utxomng.xsat).
THEOREM ConsensusKeepsLedger == ConsensusSpec => []LedgerInv
<1>1. ConsensusInit => LedgerInv
  BY ConsensusStarts, InitUtxoInv, LedgerInit DEF LedgerInv
<1>2. LedgerInv /\ ConsensusInv /\ ConsensusInv' /\ [ConsensusNext]_consensusVars => LedgerInv'
  BY ConsensusStepOfTables, LedgerNext DEF LedgerInv, LedgerKept, ConsensusInv
<1> QED
  BY <1>1, <1>2, ConsensusInvHolds, PTL DEF ConsensusSpec

\* And num_utxos counts it, where no output comes twice.
THEOREM ConsensusKeepsUtxoSet ==
  ASSUME OutputsOnce
  PROVE  ConsensusSpec => []UtxoSetIsLedger
<1> DEFINE Counted == LedgerInv /\ num_utxos = Cardinality(utxo)
<1>1. ConsensusInit => Counted
  BY ConsensusStarts, InitUtxoInv, LedgerInit DEF LedgerInv
<1>2. Counted /\ ConsensusInv /\ ConsensusInv' /\ [ConsensusNext]_consensusVars => Counted'
  BY ConsensusStepOfTables, LedgerNext DEF LedgerInv, LedgerKept, ConsensusInv
<1>3. Counted => UtxoSetIsLedger
  BY DEF LedgerInv, UtxoSetIsLedger
<1> QED
  BY <1>1, <1>2, <1>3, ConsensusInvHolds, PTL DEF ConsensusSpec
=============================================================================
