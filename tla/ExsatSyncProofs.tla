-------------------------- MODULE ExsatSyncProofs --------------------------
(***************************************************************************)
(* Proofs about the uploads and the chain together.  Each component was    *)
(* proved against an environment of its own; here every step of the        *)
(* composition is shown to be one that the environments allow, which needs *)
(* what only the composition knows: whoever is on file has a bucket that   *)
(* says so, and whoever waits for a miner is on file.                      *)
(***************************************************************************)
EXTENDS ExsatSync, UtxoManageProofs, BlockSyncProofs

\* A height that is settled has no endorsements, and a block in consensus is not on file.
LEMMA SettledIsNotReady ==
  ASSUME ExsatSyncInv, NEW b \in Blocks, check_consensus(b)
  PROVE  ~MayReachConsensus(endorsement, SyncNow, b)
<1>1. UtxoInv /\ ErasedBelowFloor
  BY DEF ExsatSyncInv
<1>2. CASE b \in consensus_block
  BY <1>1, <1>2 DEF UtxoInv, NoSecondConsensus, MayReachConsensus
<1>3. CASE \E c \in block : HeightOf(c) = Height[b]
  <2>1. Height[b] <= Floor
    BY <1>1, <1>3 DEF UtxoInv, OneBlockPerHeight
  <2>2. endorsement["btc"][b] = NoRow
    BY <1>1, <2>1 DEF ErasedBelowFloor, Scopes
  <2> QED
    BY <2>2 DEF MayReachConsensus, is_endorsement_consensus_reached, reached_consensus, NoRow
<1> QED
  BY <1>2, <1>3 DEF check_consensus

\* delbucket of a synchronizer that is not on file leaves the file as it is.
LEMMA NothingToRemove ==
  ASSUME NEW q, NEW e, \A i \in DOMAIN q : q[i] # e
  PROVE  RemoveFirst(q, e) = q
BY DEF RemoveFirst

-----------------------------------------------------------------------------
(***************************************************************************)
(* Every step of the composition is one that utxomng.xsat expects.         *)
(***************************************************************************)
\* An upload leaves the tables of utxomng.xsat alone.
LEMMA UploadIsStutter ==
  ASSUME NEW s \in Synchronizers, NEW b \in Blocks, UploadBlock(s, b)
  PROVE  UNCHANGED utxoSpecVars
BY DEF UploadBlock

\* delbucket withdraws a verification, if there was one.
LEMMA WithdrawIsWithdrawn ==
  ASSUME ExsatSyncInv, NEW s \in Synchronizers, NEW b \in Blocks, DelBucket(s, b),
         UNCHANGED <<utxoVars, synchronizer, endorsement, config>>
  PROVE  Withdrawn(s, b) \/ UNCHANGED utxoSpecVars
<1>1. passed_index \in [Blocks -> Seq(Synchronizers)]
  BY DEF ExsatSyncInv, UtxoInv, MigrationWindow, UtxoTypeOK, SyncTypeOK
<1>2. /\ passed_index' = [passed_index EXCEPT ![b] = RemoveFirst(passed_index[b], s)]
      /\ block_miner' = block_miner /\ miner_window' = miner_window
  BY DEF DelBucket, SetSync, Unpassed, SyncNow
<1>3. CASE \E i \in DOMAIN passed_index[b] : passed_index[b][i] = s
  BY <1>2, <1>3 DEF Withdrawn
<1>4. CASE \A i \in DOMAIN passed_index[b] : passed_index[b][i] # s
  <2>1. passed_index' = passed_index
    BY <1>1, <1>2, <1>4, NothingToRemove
  <2> QED
    BY <1>2, <2>1 DEF utxoSpecVars, syncTables
<1> QED
  BY <1>3, <1>4

\* Who gets to the last step of verify was not on file.
LEMMA FirstPass ==
  ASSUME ExsatSyncInv, NEW s \in Synchronizers, NEW b \in Blocks, MayVerifyParent(s, b)
  PROVE  /\ ~check_consensus(b) /\ Prev[b] \in consensus_block \cup block
         /\ \A i \in DOMAIN passed_index[b] : passed_index[b][i] # s
<1>1. ~check_consensus(b) /\ Prev[b] \in consensus_block \cup block
  BY DEF MayVerifyParent, ParentReached
<1>2. bucket[s][b].status \notin Marks
  BY DEF MayVerifyParent, Marks
<1> QED
  BY <1>1, <1>2, NotOnFile DEF ExsatSyncInv

\* The last step of verify that has to wait,
LEMMA WaitIsVerified ==
  ASSUME ExsatSyncInv, NEW s \in Synchronizers, NEW b \in Blocks, VerifyWaits(s, b),
         UNCHANGED <<utxoVars, synchronizer, endorsement, config>>
  PROVE  Verified(s, b)
<1>1. MayVerifyParent(s, b) /\ MustWait(Pass(SyncNow, s, b), s, b) /\ SetSync(Pass(SyncNow, s, b))
  BY DEF VerifyWaits
<1> QED
  BY <1>1, FirstPass DEF Verified, MustWait

\* the one that calls consensus,
LEMMA PassIsVerified ==
  ASSUME ExsatSyncInv, NEW s \in Synchronizers, NEW b \in Blocks, VerifyPasses(s, b),
         StoreBlock(endorsement, Pass(SyncNow, s, b), Marked(s, b), b),
         UNCHANGED <<endorsement, config>>
  PROVE  Verified(s, b)
<1>1. MayVerifyParent(s, b) /\ ~MustWait(Pass(SyncNow, s, b), s, b)
  BY DEF VerifyPasses
<1>2. Consensus(endorsement, Pass(SyncNow, s, b), b)
  BY DEF StoreBlock
<1> QED
  BY <1>1, <1>2, FirstPass DEF Verified, MustWait

\* and the one that is repeated after the window of the miner.
LEMMA LatePassIsVerified ==
  ASSUME ExsatSyncInv, NEW s \in Synchronizers, NEW b \in Blocks, VerifyAfterWindow(s, b),
         StoreBlock(endorsement, SyncNow, Marked(s, b), b), UNCHANGED <<endorsement, config>>
  PROVE  VerifiedLate(s, b)
<1>1. /\ bucket[s][b].status = "waiting_miner_verification" /\ ~check_consensus(b)
      /\ b \notin miner_window
  BY DEF VerifyAfterWindow
<1>2. OnFile(s, b)
  BY <1>1 DEF ExsatSyncInv, WaitersInOrder, WaitersOnFile
<1>3. Consensus(endorsement, SyncNow, b)
  BY DEF StoreBlock
<1> QED
  BY <1>1, <1>2, <1>3 DEF VerifiedLate, OnFile

\* Every step is one of utxomng.xsat or leaves it alone.
LEMMA StepIsUtxoStep ==
  ASSUME ExsatSyncInv, [ExsatSyncNext]_exsatSyncVars
  PROVE  [UtxoNext]_utxoSpecVars
<1>1. ASSUME NEW s \in Synchronizers, NEW b \in Blocks, UploadBlock(s, b)
      PROVE  UNCHANGED utxoSpecVars
  BY <1>1, UploadIsStutter
<1>2. ASSUME NEW s \in Synchronizers, NEW b \in Blocks, WithdrawOrWait(s, b)
      PROVE  Withdrawn(s, b) \/ Verified(s, b) \/ UNCHANGED utxoSpecVars
  BY <1>2, WithdrawIsWithdrawn, WaitIsVerified DEF WithdrawOrWait
<1>3. ASSUME NEW s \in Synchronizers, NEW b \in Blocks, VerifyStoredBlock(s, b)
      PROVE  Verified(s, b) \/ VerifiedLate(s, b)
  BY <1>3, PassIsVerified, LatePassIsVerified DEF VerifyStoredBlock
<1>4. ASSUME NEW s \in Scopes, NEW b \in Blocks, EndorseUpload(s, b)
      PROVE  Endorsed(s, b)
  BY <1>4 DEF EndorseUpload
<1>5. ASSUME NEW s \in Synchronizers, NEW b \in Blocks, NEW rows \in ProcessRows, ParseUpload(s, b, rows)
      PROVE  ProcessBlock(s, b, rows) /\ UNCHANGED <<syncTables, synchronizer, config>>
  BY <1>5 DEF ParseUpload
<1>6. ASSUME NEW b \in Blocks, SyncTimePasses(b)
      PROVE  \/ WindowExpires(b)
             \/ /\ ParserTimeout(b)
                /\ UNCHANGED <<chainTables, irreversible_hash, migrationVars, parsing_height, parsed,
                     uploader, utxoTables, block, syncTables, synchronizer, endorsement, config>>
  BY <1>6 DEF SyncTimePasses
<1>7. CASE UNCHANGED exsatSyncVars
  BY <1>7 DEF exsatSyncVars
<1>8. CASE ExsatSyncNext
  BY <1>1, <1>2, <1>3, <1>4, <1>5, <1>6, <1>8 DEF ExsatSyncNext, UtxoNext, UtxoStep
<1> QED
  BY <1>7, <1>8

-----------------------------------------------------------------------------
(***************************************************************************)
(* And one that blksync.xsat expects of utxomng.xsat.                      *)
(***************************************************************************)
\* consensus with its call back stores the block for both contracts, or for neither.
LEMMA StoreBlockIsExpected ==
  ASSUME NEW t, NEW y, NEW rows, NEW b \in Blocks, StoreBlock(t, y, rows, b)
  PROVE  UNCHANGED block /\ StoreOrReturn(y, rows, b)
<1>1. CASE MayReachConsensus(t, y, b)
  <2>1. /\ consensus_block' = consensus_block \cup {b}
        /\ uploader' = [uploader EXCEPT ![b] = PassedBy(y, b)]
        /\ IF Miner[b] = NoAccount THEN UNCHANGED synchronizer ELSE updateheight(Miner[b], Height[b])
        /\ SetSync(Forget(y, b)) /\ UNCHANGED block
    BY <1>1 DEF StoreBlock, Consensus
  <2>2. MayErase(y, rows, b) /\ bucket' = Erased(y, rows, b)
    BY <1>1 DEF StoreBlock
  <2> QED
    BY <1>1, <2>1, <2>2 DEF StoreOrReturn, Store, MayReachConsensus
<1>2. CASE ~MayReachConsensus(t, y, b)
  <2>1. SetSync(y) /\ UNCHANGED <<utxoVars, synchronizer>>
    BY <1>2 DEF StoreBlock, Consensus
  <2>2. bucket' = rows
    BY <1>2 DEF StoreBlock
  <2> QED
    BY <2>1, <2>2 DEF StoreOrReturn, utxoVars, chainTables
<1> QED
  BY <1>1, <1>2

\* blkendt.xsat endorses no block of a settled height.
LEMMA EndorsedIsUnsettled ==
  ASSUME ExsatSyncInv, NEW s \in Scopes, NEW b \in Blocks, Endorsed(s, b), b \notin consensus_block
  PROVE  ~check_consensus(b)
<1>1. irreversible_height < Height[b] /\ migrating_height # Height[b]
  BY DEF Endorsed
<1>2. UtxoInv /\ irreversible_height \in Nat /\ Height[b] \in Nat
  BY Heights0 DEF ExsatSyncInv, UtxoInv, MigrationWindow, UtxoTypeOK, TablesTypeOK
<1>3. status = "distributing_rewards" => migrating_height = irreversible_height + 1
  BY <1>2 DEF UtxoInv, PhasesAlternate, MigratedBlockIsParsed
<1>4. Height[b] > Floor
  BY <1>1, <1>2, <1>3 DEF Floor
<1>5. \A c \in block : HeightOf(c) <= Floor
  BY <1>2 DEF UtxoInv, OneBlockPerHeight
<1>6. \A c \in block : HeightOf(c) # Height[b]
  <2>1. Floor \in Nat
    BY <1>2 DEF UtxoInv, MigrationWindow, UtxoTypeOK, TablesTypeOK, Floor
  <2> QED
    BY <1>2, <1>4, <1>5, <2>1
<1> QED
  BY <1>6 DEF check_consensus

\* An endorsement stores a block that was waiting for it, or leaves the uploads alone.
LEMMA EndorsementIsExpected ==
  ASSUME ExsatSyncInv, NEW s \in Scopes, NEW b \in Blocks, EndorseUpload(s, b)
  PROVE  EndorsementArrives(b) \/ UNCHANGED uploadVars
<1>1. StoreBlock(endorsement', SyncNow, bucket, b) /\ UNCHANGED block_chunk /\ Endorsed(s, b)
  BY DEF EndorseUpload
<1>2. CASE Store(SyncNow, bucket, b)
  <2>1. b \notin consensus_block
    BY <1>2 DEF Store, ExsatSyncInv, UtxoInv, NoSecondConsensus
  <2>2. ~check_consensus(b)
    BY <1>1, <2>1, EndorsedIsUnsettled
  <2> QED
    BY <1>1, <1>2, <2>2, StoreBlockIsExpected DEF EndorsementArrives
<1>3. CASE SetSync(SyncNow) /\ bucket' = bucket /\ UNCHANGED <<consensus_block, uploader, synchronizer>>
  BY <1>1, <1>3, StoreBlockIsExpected DEF SetSync, SyncNow, uploadVars, bucketVars, syncTables
<1> QED
  BY <1>1, <1>2, <1>3, StoreBlockIsExpected DEF StoreOrReturn

\* What becomes irreversible is the next block of the chain.
LEMMA StoredBlockIsExpected ==
  ASSUME ExsatSyncInv, StoreIrreversible, status = "deleting_data",
         block_chunk' = IF block' = block THEN block_chunk ELSE ChunksAfter(migrating_hash),
         UNCHANGED <<bucket, syncTables, synchronizer>>
  PROVE  migrating_hash \in Blocks /\ ChainProceeds(migrating_hash)
<1> DEFINE m == migrating_hash
<1>1. UtxoInv /\ migrating_height # 0
  BY DEF ExsatSyncInv, UtxoInv, PhasesAlternate
<1>2. /\ m \in Blocks /\ Height[m] = migrating_height /\ Prev[m] = irreversible_hash
      /\ irreversible_height \in Nat /\ migrating_height = irreversible_height + 1
  BY <1>1, WhileMigrating
<1>3. m \in consensus_block
  BY <1>1 DEF UtxoInv, MigratedBlockIsParsed, MigrationWindow, UtxoTypeOK
<1>4. Prev[m] \in block /\ \A c \in block : HeightOf(c) <= irreversible_height
  BY <1>1, <1>2 DEF UtxoInv, OneBlockPerHeight, Floor
<1>5. \A c \in block : HeightOf(c) < Height[m]
  <2>1. \A c \in block : HeightOf(c) \in Int
    <3>1. block \subseteq Blocks \cup {Genesis}
      BY <1>1 DEF UtxoInv, MigrationWindow, UtxoTypeOK, SyncTypeOK
    <3> QED
      BY <3>1, Heights0
  <2> QED
    BY <1>2, <1>4, <2>1
<1>6. HeightOf(m) = Height[m]
  BY <1>2, Heights0
<1>7. m \notin block
  BY <1>2, <1>5, <1>6
<1>8. /\ block' = block \cup {m}
      /\ consensus_block' = {c \in consensus_block : Height[c] # Height[m]}
      /\ uploader' = [c \in Blocks |-> IF c \in consensus_block' THEN uploader[c] ELSE NoAccount]
  BY <1>2, <1>3 DEF StoreIrreversible
<1>9. block_chunk' = ChunksAfter(m)
  BY <1>7, <1>8
<1> QED
  BY <1>2, <1>3, <1>4, <1>5, <1>8, <1>9 DEF ChainProceeds

\* processblock touches the uploads only then.
LEMMA ParsingIsExpected ==
  ASSUME ExsatSyncInv, NEW s \in Synchronizers, NEW b \in Blocks, NEW rows \in ProcessRows,
         ParseUpload(s, b, rows)
  PROVE  (ChainProceeds(migrating_hash) /\ migrating_hash \in Blocks) \/ UNCHANGED uploadVars
<1>1. /\ ProcessBlock(s, b, rows)
      /\ block_chunk' = IF block' = block THEN block_chunk ELSE ChunksAfter(migrating_hash)
      /\ UNCHANGED <<bucket, syncTables, synchronizer, config>>
  BY DEF ParseUpload
<1>2. CASE Phase = "deleting_data" /\ StoreIrreversible
  <2>1. status = "deleting_data"
    BY <1>2 DEF Phase
  <2> QED
    BY <1>1, <1>2, <2>1, StoredBlockIsExpected
<1>3. CASE Migrate(rows) \/ DeletePending(rows) \/ DeleteSpent(rows) \/ DistributeRewards
           \/ ParseRows(s, b, rows)
  <2>1. UNCHANGED <<consensus_block, uploader, block>>
    BY <1>3 DEF Migrate, DeletePending, DeleteSpent, DistributeRewards, ParseRows, consensusRows, utxoTables
  <2> QED
    BY <1>1, <2>1 DEF uploadVars, bucketVars
<1> QED
  BY <1>1, <1>2, <1>3 DEF ProcessBlock, DeleteData

\* Every step is one of blksync.xsat or leaves it alone.
LEMMA StepIsUploadStep ==
  ASSUME ExsatSyncInv, [ExsatSyncNext]_exsatSyncVars
  PROVE  [BlockSyncStep]_uploadVars
<1>1. ASSUME NEW s \in Synchronizers, NEW b \in Blocks, UploadBlock(s, b)
      PROVE  BlockSyncStep
  BY <1>1 DEF UploadBlock, BlockSyncStep, utxoSpecVars, utxoVars, chainTables
<1>2. ASSUME NEW s \in Synchronizers, NEW b \in Blocks, WithdrawOrWait(s, b)
      PROVE  BlockSyncStep
  BY <1>2 DEF WithdrawOrWait, BlockSyncStep, utxoVars, chainTables
<1>3. ASSUME NEW s \in Synchronizers, NEW b \in Blocks, VerifyStoredBlock(s, b)
      PROVE  BlockSyncStep
  BY <1>3, StoreBlockIsExpected DEF VerifyStoredBlock, BlockSyncStep, VerifyChain
<1>4. ASSUME NEW s \in Scopes, NEW b \in Blocks, EndorseUpload(s, b)
      PROVE  BlockSyncStep \/ UNCHANGED uploadVars
  BY <1>4, EndorsementIsExpected DEF BlockSyncStep
<1>5. ASSUME NEW s \in Synchronizers, NEW b \in Blocks, NEW rows \in ProcessRows, ParseUpload(s, b, rows)
      PROVE  BlockSyncStep \/ UNCHANGED uploadVars
  BY <1>5, ParsingIsExpected DEF BlockSyncStep
<1>6. ASSUME NEW b \in Blocks, SyncTimePasses(b)
      PROVE  BlockSyncStep \/ UNCHANGED uploadVars
  <2>1. CASE WindowExpires(b)
    <3>1. MinerWindowExpires(b)
      BY <1>6, <2>1 DEF SyncTimePasses, WindowExpires, MinerWindowExpires, utxoVars, chainTables
    <3> QED
      BY <3>1 DEF BlockSyncStep
  <2>2. CASE UNCHANGED <<chainTables, uploader, block, syncTables, synchronizer>>
    BY <1>6, <2>2 DEF SyncTimePasses, uploadVars, chainTables
  <2> QED
    BY <1>6, <2>1, <2>2 DEF SyncTimePasses
<1>7. CASE UNCHANGED exsatSyncVars
  BY <1>7 DEF exsatSyncVars, utxoSpecVars, utxoVars, chainTables, uploadVars
<1>8. CASE ExsatSyncNext
  BY <1>1, <1>2, <1>3, <1>4, <1>5, <1>6, <1>8 DEF ExsatSyncNext
<1> QED
  BY <1>7, <1>8

-----------------------------------------------------------------------------
\* No endorsement comes back below a height that was erased, and the erasure comes
\* before the tip moves.
LEMMA ErasedStep ==
  ASSUME UtxoInv, ErasedBelowFloor, [UtxoNext]_utxoSpecVars
  PROVE  ErasedBelowFloor'
<1>1. /\ endorsement \in EndorsementType /\ irreversible_height \in Nat /\ migrating_height \in Nat
      /\ \A b \in Blocks : Height[b] \in Nat
      /\ status = "distributing_rewards" => migrating_height # 0
      /\ migrating_height # 0 => migrating_height = irreversible_height + 1
  BY Heights0 DEF EndorsementType, UtxoInv, MigrationWindow, UtxoTypeOK, TablesTypeOK, PhasesAlternate,
     MigratedBlockIsParsed
<1>2. ASSUME NEW t, NEW y, NEW b, Consensus(t, y, b)
      PROVE  Floor' = Floor
  <2>1. UNCHANGED <<irreversible_height, status>>
    BY <1>2 DEF Consensus, utxoVars, chainTables
  <2>2. migrating_height # 0 => migrating_height' = migrating_height
    BY <1>2 DEF Consensus, utxoVars, chainTables, NextIrreversible
  <2> QED
    BY <1>1, <2>1, <2>2 DEF Floor
<1>3. ASSUME Floor' = Floor, UNCHANGED endorsement
      PROVE  ErasedBelowFloor'
  BY <1>3 DEF ErasedBelowFloor
<1>4. ASSUME NEW s \in Scopes, NEW b \in Blocks, Endorsed(s, b)
      PROVE  ErasedBelowFloor'
  <2>1. PICK row : endorsement' = [endorsement EXCEPT ![s][b] = row]
    BY <1>4 DEF Endorsed
  <2>2. Floor' = Floor /\ Height[b] > Floor
    BY <1>1, <1>2, <1>4 DEF Endorsed, Floor
  <2>3. ~(Height[b] <= Floor)
    BY <1>1, <2>2 DEF Floor
  <2>4. \A x \in Scopes, c \in Blocks : c # b => endorsement'[x][c] = endorsement[x][c]
    BY <1>1, <2>1 DEF EndorsementType
  <2> QED
    BY <2>2, <2>3, <2>4 DEF ErasedBelowFloor
<1>5. ASSUME NEW s \in Synchronizers, NEW b \in Blocks, Verified(s, b) \/ VerifiedLate(s, b)
      PROVE  Floor' = Floor /\ UNCHANGED endorsement
  <2>1. UNCHANGED endorsement
    BY <1>5 DEF Verified, VerifiedLate
  <2>2. CASE UNCHANGED utxoVars
    BY <2>1, <2>2 DEF Floor, utxoVars, chainTables
  <2> QED
    BY <1>2, <1>5, <2>1, <2>2 DEF Verified, VerifiedLate
<1>6. ASSUME NEW s \in Synchronizers, NEW b \in Blocks, Withdrawn(s, b)
      PROVE  Floor' = Floor /\ UNCHANGED endorsement
  BY <1>6 DEF Withdrawn, Floor, utxoVars, chainTables
<1>7. ASSUME NEW s \in Synchronizers, NEW b \in Blocks, NEW rows \in ProcessRows,
             ProcessBlock(s, b, rows)
      PROVE  ErasedBelowFloor'
  <2>1. CASE Phase = "migrating" /\ Migrate(rows) /\ UNCHANGED endorsement
    <3>1. status # "distributing_rewards" /\ status' # "distributing_rewards"
      BY <2>1 DEF Phase, Migrate
    <3>2. UNCHANGED irreversible_height
      BY <2>1 DEF Migrate
    <3> QED
      BY <1>3, <2>1, <3>1, <3>2 DEF Floor
  <2>2. CASE (DeletePending(rows) \/ DeleteSpent(rows)) /\ UNCHANGED <<irreversible_height, migrating_height>>
    <3>1. UNCHANGED <<status, endorsement>>
      BY <2>2 DEF DeletePending, DeleteSpent
    <3> QED
      BY <1>3, <2>2, <3>1 DEF Floor
  <2>3. CASE Phase = "deleting_data" /\ StoreIrreversible /\ UNCHANGED <<irreversible_height, migrating_height>>
    <3>1. status = "deleting_data" /\ migrating_height # 0
      BY <2>3 DEF Phase, UtxoInv, PhasesAlternate
    <3>2. Floor' = irreversible_height + 1 /\ Floor = irreversible_height
      BY <1>1, <2>3, <3>1 DEF Floor, StoreIrreversible
    <3>3. endorsement' = [x \in Scopes |-> [c \in Blocks |->
            IF Height[c] = migrating_height THEN NoRow ELSE endorsement[x][c]]]
      BY <2>3 DEF StoreIrreversible, EraseEndorsements
    <3>4. \A c \in Blocks : Height[c] <= irreversible_height + 1 =>
            Height[c] <= Floor \/ Height[c] = migrating_height
      BY <1>1, <3>1, <3>2
    <3> QED
      BY <3>2, <3>3, <3>4 DEF ErasedBelowFloor
  <2>4. CASE Phase = "distributing_rewards" /\ DistributeRewards
    <3>1. status = "distributing_rewards"
      BY <2>4 DEF Phase
    <3>2. Floor' = Floor /\ UNCHANGED endorsement
      BY <2>4, <3>1 DEF Floor, DistributeRewards
    <3> QED
      BY <1>3, <3>2
  <2>5. CASE Phase = "parsing" /\ ParseRows(s, b, rows)
    <3>1. status # "distributing_rewards" /\ status' # "distributing_rewards"
      BY <2>5 DEF Phase, ParseRows
    <3>2. UNCHANGED <<irreversible_height, endorsement>>
      BY <2>5 DEF ParseRows
    <3> QED
      BY <1>3, <3>1, <3>2 DEF Floor
  <2> QED
    BY <1>7, <2>1, <2>2, <2>3, <2>4, <2>5 DEF ProcessBlock, DeleteData
<1>8. ASSUME UNCHANGED <<chainTables, endorsement>>
      PROVE  ErasedBelowFloor'
  BY <1>3, <1>8 DEF Floor, chainTables
<1>9. ASSUME NEW s \in Synchronizers, NEW b \in Blocks, Verified(s, b) \/ VerifiedLate(s, b) \/ Withdrawn(s, b)
      PROVE  ErasedBelowFloor'
  BY <1>3, <1>5, <1>6, <1>9
<1>11. ASSUME NEW b \in Blocks, WindowExpires(b)
       PROVE  ErasedBelowFloor'
  <2>1. UNCHANGED <<chainTables, endorsement>>
    BY <1>11 DEF WindowExpires, utxoVars
  <2> QED
    BY <1>8, <2>1
<1>12. CASE UtxoNext
  BY <1>4, <1>7, <1>8, <1>9, <1>11, <1>12 DEF UtxoNext, UtxoStep
<1>10. CASE UNCHANGED utxoSpecVars
  BY <1>8, <1>10 DEF utxoSpecVars, utxoVars
<1> QED
  BY <1>10, <1>12

-----------------------------------------------------------------------------
\* A block whose rows stay as they are.
LEMMA WaitersStay ==
  ASSUME ExsatSyncInv, NEW c \in Blocks,
         \A s \in Synchronizers : bucket'[s][c] = bucket[s][c],
         passed_index'[c] = passed_index[c], c \in miner_window' <=> c \in miner_window,
         \A x \in Scopes : endorsement'[x][c] \in {endorsement[x][c], NoRow},
         UNCHANGED config, check_consensus(c) => check_consensus(c)'
  PROVE  WaitersInOrder(c)'
<1>1. passed_index[c] \in Seq(Synchronizers) /\ WaitersInOrder(c)
  BY DEF ExsatSyncInv, UtxoInv, MigrationWindow, UtxoTypeOK, SyncTypeOK
<1>2. \A i \in DOMAIN passed_index[c] : passed_index[c][i] \in Synchronizers
  BY <1>1
<1>3. AllWait(c) => AllWait(c)'
  BY <1>2 DEF AllWait
<1>4. WaitersOnFile(c) => WaitersOnFile(c)'
  BY DEF WaitersOnFile, OnFile
<1>5. ~reached_consensus(NoRow)
  BY DEF reached_consensus, NoRow
<1>6. \A x \in Scopes : reached_consensus(endorsement'[x][c]) => reached_consensus(endorsement[x][c])
  BY <1>5
<1>7. is_endorsement_consensus_reached(endorsement, c)' => is_endorsement_consensus_reached(endorsement, c)
  BY <1>6 DEF is_endorsement_consensus_reached, is_xsat_consensus_active, Scopes, reached_consensus,
     num_validators, num_reached_consensus
<1>8. MayReachConsensus(endorsement, SyncNow, c)' => MayReachConsensus(endorsement, SyncNow, c)
  BY <1>7 DEF MayReachConsensus, Passed, WaitsForMiner, PassedBy, SyncNow
<1> QED
  BY <1>1, <1>3, <1>4, <1>8 DEF WaitersInOrder

-----------------------------------------------------------------------------
(***************************************************************************)
(* Who waits, and for what.                                                *)
(***************************************************************************)
\* A row that is removed takes no other with it.
LEMMA RemoveFirstKeeps ==
  ASSUME NEW S, NEW q \in Seq(S), NEW e, NEW i \in DOMAIN q, q[i] # e
  PROVE  \E j \in DOMAIN RemoveFirst(q, e) : RemoveFirst(q, e)[j] = q[i]
<1>1. PICK r : r = RemoveFirst(q, e)
  OBVIOUS
<1>2. ASSUME NEW k \in 1..Len(q), q[k] = e, r \in Seq(S), Len(r) = Len(q) - 1,
             \A j \in 1..(Len(q) - 1) : r[j] = q[IF j < k THEN j ELSE j + 1]
      PROVE  \E j \in DOMAIN r : r[j] = q[i]
  <2>1. DOMAIN r = 1..(Len(q) - 1) /\ Len(q) \in Nat /\ i \in 1..Len(q) /\ i # k
    BY <1>2
  <2>2. CASE i < k
    BY <1>2, <2>1, <2>2
  <2>3. CASE i > k
    <3>1. i - 1 \in 1..(Len(q) - 1) /\ ~(i - 1 < k) /\ (i - 1) + 1 = i
      BY <2>1, <2>3
    <3> QED
      BY <1>2, <2>1, <3>1
  <2> QED
    BY <2>1, <2>2, <2>3
<1> QED
  BY <1>1, <1>2, RemoveFirstShape

\* Who is on file after s passed b: s and who was before.
LEMMA PassOnFile ==
  ASSUME ExsatSyncInv, NEW s \in Synchronizers, NEW b \in Blocks, ~check_consensus(b),
         bucket[s][b].status \notin Marks, NEW t \in Synchronizers
  PROVE  (\E i \in DOMAIN Pass(SyncNow, s, b).passed[b] : Pass(SyncNow, s, b).passed[b][i] = t)
           <=> t = s \/ OnFile(t, b)
<1> DEFINE y == Pass(SyncNow, s, b)
           q == passed_index[b]
           r == y.passed[b]
           n == Len(q)
<1>1. q \in Seq(Synchronizers) /\ BlockSyncInv /\ passed_index \in [Blocks -> Seq(Synchronizers)]
  BY DEF ExsatSyncInv, BlockSyncInv, BlockSyncTypeOK, SyncTypeOK
<1>2. n \in Nat /\ DOMAIN q = 1..n
  BY <1>1
<1>3. r = IF s = Miner[b] /\ b \in y.window THEN <<s>> \o q ELSE Append(q, s)
  BY <1>1 DEF Pass, SyncNow
<1>4. \A i \in DOMAIN r : r[i] = s \/ \E j \in DOMAIN q : q[j] = r[i]
  BY <1>1, PassEffect
<1>5. /\ \E i \in DOMAIN r : r[i] = s
      /\ \A j \in DOMAIN q : \E i \in DOMAIN r : r[i] = q[j]
  <2> HIDE DEF q, r
  <2>1. CASE r = <<s>> \o q
    <3>1. <<s>> \in Seq(Synchronizers) /\ Len(<<s>>) = 1 /\ <<s>>[1] = s
      OBVIOUS
    <3>2. /\ r \in Seq(Synchronizers) /\ Len(r) = 1 + n
          /\ \A i \in 1..(1 + n) : r[i] = IF i <= 1 THEN <<s>>[i] ELSE q[i - 1]
      BY <1>1, <2>1, <3>1, ConcatProperties, Zenon
    <3>3. DOMAIN r = 1..(1 + n)
      BY <3>2, LenProperties
    <3> HIDE DEF n
    <3>4. r[1] = s /\ 1 \in DOMAIN r
      BY <1>2, <3>1, <3>2, <3>3
    <3>5. \A j \in 1..n : j + 1 \in 1..(1 + n) /\ ~(j + 1 <= 1) /\ (j + 1) - 1 = j
      BY <1>2
    <3>6. \A j \in 1..n : r[j + 1] = q[j] /\ j + 1 \in DOMAIN r
      BY <3>2, <3>3, <3>5
    <3> QED
      BY <1>2, <3>4, <3>6
  <2>2. CASE r = Append(q, s)
    <3>1. /\ r \in Seq(Synchronizers) /\ Len(r) = n + 1
          /\ \A i \in 1..n : r[i] = q[i]
          /\ r[n + 1] = s
      BY <1>1, <2>2, AppendProperties
    <3>2. DOMAIN r = 1..(n + 1)
      BY <3>1, LenProperties
    <3> QED
      BY <1>2, <3>1, <3>2
  <2> QED
    BY <1>3, <2>1, <2>2
<1> HIDE DEF r
<1>6. (\E i \in DOMAIN r : r[i] = t) <=> t = s \/ OnFile(t, b)
  BY <1>4, <1>5 DEF OnFile
<1> QED
  BY <1>6 DEF r

\* The facts about the file that the following steps use.
LEMMA FileFacts ==
  ASSUME ExsatSyncInv, NEW b \in Blocks
  PROVE  /\ passed_index \in [Blocks -> Seq(Synchronizers)]
         /\ \A i \in DOMAIN passed_index[b] : passed_index[b][i] \in Synchronizers
         /\ IsInjective(passed_index[b])
         /\ b \in miner_window /\ OnFile(Miner[b], b) => Head(passed_index[b]) = Miner[b]
         /\ passed_index[b] # << >> => b \in block_miner
         /\ bucket \in [Synchronizers -> [Blocks -> BucketType]]
         /\ miner_window \subseteq block_miner
         /\ WaitersInOrder(b)
<1>1. BlockSyncInv /\ WaitersInOrder(b)
  BY DEF ExsatSyncInv
<1>2. /\ passed_index \in [Blocks -> Seq(Synchronizers)]
      /\ bucket \in [Synchronizers -> [Blocks -> BucketType]]
      /\ miner_window \subseteq block_miner
  BY <1>1 DEF BlockSyncInv, BlockSyncTypeOK, SyncTypeOK
<1>3. \A i \in DOMAIN passed_index[b] : passed_index[b][i] \in Synchronizers
  <2>1. passed_index[b] \in Seq(Synchronizers)
    BY <1>2
  <2> QED
    BY <2>1
<1>4. /\ IsInjective(passed_index[b])
      /\ b \in miner_window /\ OnFile(Miner[b], b) => Head(passed_index[b]) = Miner[b]
  BY <1>1 DEF BlockSyncInv, MinerComesFirst, OnFile, Range
<1>5. passed_index[b] # << >> => b \in block_miner
  BY <1>1 DEF BlockSyncInv, PassedInv
<1> QED
  BY <1>1, <1>2, <1>3, <1>4, <1>5

\* What the readiness of a block depends on.
LEMMA ReadyDepends ==
  ASSUME NEW b \in Blocks, UNCHANGED config, endorsement'["btc"][b] = endorsement["btc"][b],
         endorsement'["xsat"][b] = endorsement["xsat"][b]
  PROVE  is_endorsement_consensus_reached(endorsement, b)' <=> is_endorsement_consensus_reached(endorsement, b)
BY DEF is_endorsement_consensus_reached, is_xsat_consensus_active, reached_consensus,
   num_validators, num_reached_consensus

\* While the miner has its window and everyone else on file waits, a block becomes
\* ready only with everyone waiting: had its miner come, it would come first.
LEMMA MinerNotYet ==
  ASSUME ExsatSyncInv, NEW b \in Blocks, ~check_consensus(b), b \in miner_window,
         is_endorsement_consensus_reached(endorsement, b)
  PROVE  \/ MayReachConsensus(endorsement, SyncNow, b) /\ AllWait(b)
         \/ ~OnFile(Miner[b], b) /\ AllWait(b)
<1>1. WaitersOnFile(b) /\ (MayReachConsensus(endorsement, SyncNow, b) => AllWait(b))
  BY FileFacts DEF WaitersInOrder
<1>2. CASE ~MayReachConsensus(endorsement, SyncNow, b)
  <2>1. passed_index[b] = << >> \/ Head(passed_index[b]) # Miner[b]
    BY <1>2 DEF MayReachConsensus, Passed, WaitsForMiner, PassedBy, SyncNow
  <2>2. ~OnFile(Miner[b], b)
    <3>1. CASE passed_index[b] = << >>
      <4>1. DOMAIN passed_index[b] = {}
        BY <3>1
      <4> QED
        BY <4>1 DEF OnFile
    <3> QED
      BY <2>1, <3>1, FileFacts
  <2>3. \A i \in DOMAIN passed_index[b] :
          bucket[passed_index[b][i]][b].status = "waiting_miner_verification"
    <3> SUFFICES ASSUME NEW i \in DOMAIN passed_index[b]
                 PROVE  bucket[passed_index[b][i]][b].status = "waiting_miner_verification"
      OBVIOUS
    <3>1. passed_index[b][i] \in Synchronizers /\ OnFile(passed_index[b][i], b)
      BY FileFacts DEF OnFile
    <3> QED
      BY <1>1, <2>2, <3>1 DEF WaitersOnFile
  <2> QED
    BY <2>2, <2>3 DEF AllWait
<1> QED
  BY <1>1, <1>2

\* The bucket of one synchronizer changes that was not marked and is not.
LEMMA UploadKeepsWaiters ==
  ASSUME ExsatSyncInv, NEW s \in Synchronizers, NEW b \in Blocks,
         UNCHANGED <<syncTables, endorsement, config, block, consensus_block>>,
         NEW row, bucket' = [bucket EXCEPT ![s][b] = row],
         check_consensus(b) \/ (bucket[s][b].status \notin Marks /\ row.status \notin Marks),
         NEW c \in Blocks
  PROVE  WaitersInOrder(c)'
<1>1. check_consensus(c)' <=> check_consensus(c)
  BY DEF check_consensus, HeightOf
<1>2. \A t \in Synchronizers : ~(t = s /\ b = c) => bucket'[t][c] = bucket[t][c]
  BY FileFacts
<1>3. passed_index' = passed_index /\ miner_window' = miner_window
  BY DEF syncTables
<1>4. CASE b # c
  BY <1>1, <1>2, <1>3, <1>4, WaitersStay
<1>5. CASE b = c /\ ~check_consensus(b)
  <2>1. WaitersOnFile(c) /\ (MayReachConsensus(endorsement, SyncNow, c) => AllWait(c))
    BY <1>5, FileFacts DEF WaitersInOrder
  <2>2. \A i \in DOMAIN passed_index[c] : passed_index[c][i] # s
    BY <1>5, NotOnFile DEF ExsatSyncInv
  <2>3. bucket'[s][c].status # "waiting_miner_verification"
    <3>1. bucket'[s][c] = row
      BY <1>5, FileFacts
    <3> QED
      BY <1>5, <3>1 DEF Marks
  <2>4. WaitersOnFile(c)'
    BY <1>2, <1>3, <2>1, <2>2, <2>3 DEF WaitersOnFile, OnFile
  <2>5. AllWait(c) => AllWait(c)'
    BY <1>2, <1>3, <2>2, FileFacts DEF AllWait
  <2>6. MayReachConsensus(endorsement, SyncNow, c)' => MayReachConsensus(endorsement, SyncNow, c)
    <3>1. is_endorsement_consensus_reached(endorsement, c)' <=> is_endorsement_consensus_reached(endorsement, c)
      BY ReadyDepends
    <3> QED
      BY <1>3, <3>1 DEF MayReachConsensus, Passed, WaitsForMiner, PassedBy, SyncNow
  <2> QED
    BY <2>1, <2>4, <2>5, <2>6 DEF WaitersInOrder
<1>6. CASE b = c /\ check_consensus(b)
  BY <1>1, <1>6 DEF WaitersInOrder
<1> QED
  BY <1>4, <1>5, <1>6

\* What the uploads and the verification of the data write.
LEMMA UploadWrites ==
  ASSUME ExsatSyncInv, NEW s \in Synchronizers, NEW b \in Blocks, Upload(s, b) \/ VerifyData(s, b)
  PROVE  \E row : /\ bucket' = [bucket EXCEPT ![s][b] = row]
                  /\ \/ check_consensus(b)
                     \/ bucket[s][b].status \notin Marks /\ row.status \notin Marks
<1> DEFINE old == bucket[s][b]
<1>1. bucket \in [Synchronizers -> [Blocks -> BucketType]] /\ old \in BucketType
  BY FileFacts
<1>2. ASSUME NEW size \in Sizes, NEW n \in NumsChunks, InitBucket(s, b, size, n)
      PROVE  /\ bucket' = [bucket EXCEPT ![s][b] = Initialized(old, size, n)]
             /\ old.status \notin Marks /\ Initialized(old, size, n).status \notin Marks
  <2>1. Initialized(old, size, n).status = "uploading"
    BY <1>1 DEF Initialized, BucketType
  <2> QED
    BY <1>2, <2>1 DEF InitBucket, HasBucket, Marks
<1>3. ASSUME NEW r \in BucketType
      PROVE  Filled(r).status \notin Marks
  BY DEF Filled, BucketType, Marks
<1>4. ASSUME NEW id \in ChunkIds, NEW data \in Chunks, PushChunk(s, b, id, data)
      PROVE  /\ bucket' = [bucket EXCEPT ![s][b] = Filled(Pushed(s, b, id, data))]
             /\ old.status \notin Marks /\ Filled(Pushed(s, b, id, data)).status \notin Marks
  <2>1. Filled(Pushed(s, b, id, data)).status \in {"upload_complete", "uploading"}
    BY <1>1 DEF Filled, Pushed, BucketType
  <2> QED
    BY <1>4, <2>1 DEF PushChunk, MayPush, Uploads, Marks
<1>5. ASSUME NEW id \in ChunkIds, DelChunk(s, b, id)
      PROVE  /\ bucket' = [bucket EXCEPT ![s][b] = Filled(Deleted(s, b, id))]
             /\ old.status \notin Marks /\ Filled(Deleted(s, b, id)).status \notin Marks
  <2>1. Filled(Deleted(s, b, id)).status \in {"upload_complete", "uploading"}
    BY <1>1 DEF Filled, Deleted, BucketType
  <2> QED
    BY <1>5, <2>1 DEF DelChunk, MayDelete, Uploads, Marks
<1>6. Failed(old).status \notin Marks
  BY <1>1 DEF Failed, BucketType, Marks
<1>7. bucket' = [bucket EXCEPT ![s][b] = Failed(@)] => bucket' = [bucket EXCEPT ![s][b] = Failed(old)]
  BY <1>1
<1>8. CASE VerifyReached(s, b)
  BY <1>7, <1>8 DEF VerifyReached
<1>9. CASE VerifyBits(s, b)
  BY <1>6, <1>7, <1>9 DEF VerifyBits, Marks
<1>10. CASE VerifyMerkle(s, b)
  <2>1. old.status \notin Marks
    BY <1>10 DEF VerifyMerkle, Marks
  <2>2. CASE bucket' = [bucket EXCEPT ![s][b] = Failed(@)]
    BY <1>6, <1>7, <2>1, <2>2
  <2>3. ASSUME NEW info, bucket' = [bucket EXCEPT ![s][b].verify_info = info, ![s][b].status =
                         IF Processed(info) THEN "verify_parent_hash" ELSE "verify_merkle"]
        PROVE  \E row : bucket' = [bucket EXCEPT ![s][b] = row] /\ row.status \notin Marks
    <3> DEFINE row == [old EXCEPT !.verify_info = info, !.status =
                         IF Processed(info) THEN "verify_parent_hash" ELSE "verify_merkle"]
    <3>1. bucket' = [bucket EXCEPT ![s][b] = row]
      BY <1>1, <2>3
    <3>2. row.status \notin Marks
      BY <1>1 DEF Marks, BucketType
    <3> QED
      BY <3>1, <3>2
  <2> QED
    BY <1>10, <2>1, <2>2, <2>3 DEF VerifyMerkle
<1> HIDE DEF old
<1> QED
  BY <1>2, <1>4, <1>5, <1>8, <1>9, <1>10 DEF Upload, VerifyData, old

\* delbucket takes the synchronizer from the file with its bucket.
LEMMA WithdrawKeepsWaiters ==
  ASSUME ExsatSyncInv, NEW s \in Synchronizers, NEW b \in Blocks, DelBucket(s, b),
         UNCHANGED <<endorsement, config, block, consensus_block>>, NEW c \in Blocks
  PROVE  WaitersInOrder(c)'
<1> DEFINE q == passed_index[b]
           r == RemoveFirst(q, s)
<1>1. /\ passed_index' = [passed_index EXCEPT ![b] = r]
      /\ block_miner' = block_miner /\ miner_window' = miner_window
      /\ bucket' = [bucket EXCEPT ![s][b] = NoBucket]
  BY DEF DelBucket, SetSync, Unpassed, SyncNow
<1>2. /\ \A t \in Synchronizers, d \in Blocks :
           bucket'[t][d] = IF t = s /\ d = b THEN NoBucket ELSE bucket[t][d]
      /\ \A d \in Blocks : passed_index'[d] = IF d = b THEN r ELSE passed_index[d]
  BY <1>1, FileFacts
<1>3. check_consensus(c)' <=> check_consensus(c)
  BY DEF check_consensus, HeightOf
<1>4. CASE c # b
  BY <1>1, <1>2, <1>3, <1>4, WaitersStay
<1>5. CASE c = b /\ ~check_consensus(b)
  <2>1. WaitersOnFile(b) /\ (MayReachConsensus(endorsement, SyncNow, b) => AllWait(b))
    BY <1>5, FileFacts DEF WaitersInOrder
  <2>2. q \in Seq(Synchronizers) /\ IsInjective(q)
    BY FileFacts
  <2>3. /\ \A i \in DOMAIN r : r[i] # s /\ \E j \in DOMAIN q : q[j] = r[i]
        /\ r # << >> => q # << >>
    BY <2>2, RemoveFirstOrder
  <2>4. \A i \in DOMAIN q : q[i] # s => \E j \in DOMAIN r : r[j] = q[i]
    BY <2>2, RemoveFirstKeeps
  <2> HIDE DEF r
  <2>5. r \in Seq(Synchronizers)
    BY <2>2, RemoveFirstOrder DEF r
  <2>6. \A t \in Synchronizers : OnFile(t, b)' <=> OnFile(t, b) /\ t # s
    BY <1>2, <2>3, <2>4 DEF OnFile
  <2>7. WaitersOnFile(b)'
    <3> SUFFICES ASSUME NEW t \in Synchronizers
                 PROVE  /\ bucket'[t][b].status = "waiting_miner_verification" => OnFile(t, b)'
                        /\ OnFile(t, b)' /\ b \in miner_window /\ t # Miner[b] =>
                             bucket'[t][b].status = "waiting_miner_verification"
      BY <1>1 DEF WaitersOnFile
    <3>1. bucket'[s][b].status = "none"
      BY <1>2 DEF NoBucket
    <3>2. t # s => bucket'[t][b] = bucket[t][b]
      BY <1>2
    <3> QED
      BY <2>1, <2>6, <3>1, <3>2 DEF WaitersOnFile
  <2>8. AllWait(b) => AllWait(b)'
    <3>1. \A i \in DOMAIN r : r[i] \in Synchronizers
      BY <2>5
    <3> QED
      BY <1>2, <2>3, <3>1 DEF AllWait
  <2>9. ASSUME MayReachConsensus(endorsement, SyncNow, b)'
        PROVE  AllWait(b)
    <3>1. is_endorsement_consensus_reached(endorsement, b)
      BY <2>9, ReadyDepends DEF MayReachConsensus
    <3>2. r # << >> /\ (Miner[b] = NoAccount \/ Head(r) = Miner[b] \/ b \notin miner_window)
      BY <1>1, <1>2, <2>9 DEF MayReachConsensus, Passed, WaitsForMiner, PassedBy, SyncNow
    <3>3. q # << >>
      BY <2>3, <3>2
    <3>4. CASE b \in miner_window
      BY <1>5, <3>1, <3>4, MinerNotYet
    <3>5. CASE b \notin miner_window
      BY <2>1, <3>1, <3>3, <3>5 DEF MayReachConsensus, Passed, WaitsForMiner, SyncNow
    <3> QED
      BY <3>4, <3>5
  <2> QED
    BY <1>5, <2>7, <2>8, <2>9 DEF WaitersInOrder
<1>6. CASE c = b /\ check_consensus(b)
  BY <1>3, <1>6 DEF WaitersInOrder
<1> QED
  BY <1>4, <1>5, <1>6

\* Who has to wait joins those who do.
LEMMA WaitKeepsWaiters ==
  ASSUME ExsatSyncInv, NEW s \in Synchronizers, NEW b \in Blocks, VerifyWaits(s, b),
         UNCHANGED <<endorsement, config, block, consensus_block>>, NEW c \in Blocks
  PROVE  WaitersInOrder(c)'
<1> DEFINE y == Pass(SyncNow, s, b)
<1>1. /\ bucket[s][b].status = "verify_parent_hash" /\ ~check_consensus(b)
      /\ s # Miner[b] /\ b \in y.window
      /\ passed_index' = y.passed /\ block_miner' = y.known /\ miner_window' = y.window
      /\ bucket' = [bucket EXCEPT ![s][b].status = "waiting_miner_verification"]
  BY DEF VerifyWaits, MayVerifyParent, ParentReached, MustWait, SetSync
<1>2. bucket[s][b].status \notin Marks
  BY <1>1 DEF Marks
<1>3. /\ \A d \in Blocks \ {b} : y.passed[d] = passed_index[d]
      /\ y.window \ {b} = miner_window \ {b}
      /\ \A i \in DOMAIN y.passed[b] : y.passed[b][i] = s \/
           \E j \in DOMAIN passed_index[b] : passed_index[b][j] = y.passed[b][i]
      /\ y.passed \in [Blocks -> Seq(Synchronizers)]
  BY <1>1, <1>2, PassEffect DEF ExsatSyncInv
<1>4. \A t \in Synchronizers : (\E i \in DOMAIN y.passed[b] : y.passed[b][i] = t) <=> t = s \/ OnFile(t, b)
  BY <1>1, <1>2, PassOnFile
<1>5. b \in miner_window \/ passed_index[b] = << >>
  BY FileFacts, <1>1 DEF Pass, SyncNow
<1> HIDE DEF y
<1>6. /\ \A t \in Synchronizers, d \in Blocks : ~(t = s /\ d = b) => bucket'[t][d] = bucket[t][d]
      /\ bucket'[s][b].status = "waiting_miner_verification"
  BY <1>1, FileFacts DEF BucketType
<1>7. check_consensus(c)' <=> check_consensus(c)
  BY DEF check_consensus, HeightOf
<1>8. CASE c # b
  <2>1. c \in miner_window' <=> c \in miner_window
    BY <1>1, <1>3, <1>8
  <2>2. passed_index'[c] = passed_index[c] /\ \A t \in Synchronizers : bucket'[t][c] = bucket[t][c]
    BY <1>1, <1>3, <1>6, <1>8
  <2> QED
    BY <1>7, <2>1, <2>2, WaitersStay
<1>9. CASE c = b
  <2>1. WaitersOnFile(b) /\ (MayReachConsensus(endorsement, SyncNow, b) => AllWait(b))
    BY <1>1, FileFacts DEF WaitersInOrder
  <2>2. \A t \in Synchronizers : OnFile(t, b)' <=> t = s \/ OnFile(t, b)
    BY <1>1, <1>4 DEF OnFile
  <2>3. passed_index[b] = << >> => \A t \in Synchronizers : ~OnFile(t, b)
    <3>1. passed_index[b] = << >> => DOMAIN passed_index[b] = {}
      OBVIOUS
    <3> QED
      BY <3>1 DEF OnFile
  <2>4. WaitersOnFile(b)'
    <3> SUFFICES ASSUME NEW t \in Synchronizers
                 PROVE  /\ bucket'[t][b].status = "waiting_miner_verification" => OnFile(t, b)'
                        /\ OnFile(t, b)' /\ t # Miner[b] =>
                             bucket'[t][b].status = "waiting_miner_verification"
      BY DEF WaitersOnFile
    <3>1. CASE t = s
      BY <1>6, <2>2, <3>1
    <3>2. CASE t # s
      BY <1>5, <1>6, <2>1, <2>2, <2>3, <3>2 DEF WaitersOnFile
    <3> QED
      BY <3>1, <3>2
  <2>5. AllWait(b) => AllWait(b)'
    <3>1. ASSUME AllWait(b), NEW i \in DOMAIN y.passed[b]
          PROVE  bucket'[y.passed[b][i]][b].status = "waiting_miner_verification"
      <4>1. CASE y.passed[b][i] = s
        BY <1>6, <4>1
      <4>2. CASE y.passed[b][i] # s
        <5>1. PICK j \in DOMAIN passed_index[b] : passed_index[b][j] = y.passed[b][i]
          BY <1>3, <4>2
        <5>2. y.passed[b][i] \in Synchronizers
          BY <5>1, FileFacts
        <5> QED
          BY <1>6, <3>1, <4>2, <5>1, <5>2 DEF AllWait
      <4> QED
        BY <4>1, <4>2
    <3> QED
      BY <1>1, <3>1 DEF AllWait
  <2>6. ASSUME MayReachConsensus(endorsement, SyncNow, b)'
        PROVE  AllWait(b)
    <3>1. is_endorsement_consensus_reached(endorsement, b)
      BY <2>6, ReadyDepends DEF MayReachConsensus
    <3>2. CASE b \in miner_window
      BY <1>1, <3>1, <3>2, MinerNotYet
    <3>3. CASE passed_index[b] = << >>
      <4>1. DOMAIN passed_index[b] = {}
        BY <3>3
      <4> QED
        BY <4>1 DEF AllWait
    <3> QED
      BY <1>5, <3>2, <3>3
  <2> QED
    BY <1>9, <2>4, <2>5, <2>6 DEF WaitersInOrder
<1> QED
  BY <1>8, <1>9

\* A call of consensus stores the block, or leaves who waits.
LEMMA StoreBlockKeepsWaiters ==
  ASSUME ExsatSyncInv, NEW b \in Blocks, NEW y, NEW rows, StoreBlock(endorsement', y, rows, b),
         UNCHANGED config,
         \A d \in Blocks \ {b} : /\ y.passed[d] = passed_index[d]
                                 /\ \A x \in Scopes : endorsement'[x][d] = endorsement[x][d]
                                 /\ \A t \in Synchronizers : rows[t][d] = bucket[t][d],
         y.passed \in [Blocks -> Seq(Synchronizers)],
         rows \in [Synchronizers -> [Blocks -> BucketType]],
         y.window \ {b} = miner_window \ {b},
         ~check_consensus(b) => \A t \in Synchronizers :
           /\ rows[t][b].status = "waiting_miner_verification" =>
                \E i \in DOMAIN y.passed[b] : y.passed[b][i] = t
           /\ (\E i \in DOMAIN y.passed[b] : y.passed[b][i] = t) /\ b \in y.window /\ t # Miner[b] =>
                rows[t][b].status = "waiting_miner_verification",
         NEW c \in Blocks
  PROVE  WaitersInOrder(c)'
<1>1. block' = block /\ (consensus_block' = consensus_block \/ consensus_block' = consensus_block \cup {b})
  BY DEF StoreBlock, Consensus, utxoVars, chainTables
<1>2. \A d \in Blocks : check_consensus(d) => check_consensus(d)'
  BY <1>1 DEF check_consensus, HeightOf
<1>3. ASSUME MayReachConsensus(endorsement', y, b)
      PROVE  check_consensus(b)' /\ bucket' = [rows EXCEPT ![PassedBy(y, b)][b] = NoBucket]
             /\ passed_index' = [y.passed EXCEPT ![b] = << >>] /\ miner_window' = y.window \ {b}
  <2>1. /\ consensus_block' = consensus_block \cup {b} /\ SetSync(Forget(y, b))
        /\ bucket' = Erased(y, rows, b)
    BY <1>3 DEF StoreBlock, Consensus
  <2> QED
    BY <2>1 DEF SetSync, Forget, Erased, check_consensus
<1>4. ASSUME ~MayReachConsensus(endorsement', y, b)
      PROVE  /\ bucket' = rows /\ passed_index' = y.passed /\ miner_window' = y.window
             /\ UNCHANGED consensus_block
  BY <1>4 DEF StoreBlock, Consensus, SetSync, utxoVars, chainTables
<1>5. CASE c # b
  <2>1. /\ passed_index'[c] = passed_index[c]
        /\ c \in miner_window' <=> c \in miner_window
        /\ \A t \in Synchronizers : bucket'[t][c] = bucket[t][c]
    <3>1. CASE MayReachConsensus(endorsement', y, b)
      <4> DEFINE p == PassedBy(y, b)
      <4>1. /\ passed_index' = [y.passed EXCEPT ![b] = << >>] /\ miner_window' = y.window \ {b}
            /\ bucket' = [rows EXCEPT ![p][b] = NoBucket]
        BY <1>3, <3>1
      <4> HIDE DEF p
      <4>2. passed_index'[c] = passed_index[c]
        BY <1>5, <4>1
      <4>3. c \in miner_window' <=> c \in miner_window
        BY <1>5, <4>1
      <4>4. \A t \in Synchronizers : bucket'[t][c] = rows[t][c]
        BY <1>5, <4>1
      <4> QED
        BY <1>5, <4>2, <4>3, <4>4
    <3>2. CASE ~MayReachConsensus(endorsement', y, b)
      BY <1>4, <1>5, <3>2
    <3> QED
      BY <3>1, <3>2
  <2>2. \A x \in Scopes : endorsement'[x][c] \in {endorsement[x][c], NoRow}
    BY <1>5
  <2> QED
    BY <1>2, <2>1, <2>2, WaitersStay
<1>6. CASE c = b /\ MayReachConsensus(endorsement', y, b)
  BY <1>3, <1>6 DEF WaitersInOrder
<1>7. CASE c = b /\ ~MayReachConsensus(endorsement', y, b)
  <2>1. /\ bucket' = rows /\ passed_index' = y.passed /\ miner_window' = y.window
    BY <1>4, <1>7
  <2>2. ~MayReachConsensus(endorsement, SyncNow, b)'
    <3>1. SyncNow'.passed = y.passed /\ SyncNow'.window = y.window
      BY <2>1 DEF SyncNow
    <3> QED
      BY <1>7, <3>1 DEF MayReachConsensus, Passed, WaitsForMiner, PassedBy, is_endorsement_consensus_reached,
         is_xsat_consensus_active
  <2>3. ~check_consensus(b) => WaitersOnFile(b)'
    BY <2>1 DEF WaitersOnFile, OnFile
  <2> QED
    BY <1>2, <1>7, <2>2, <2>3 DEF WaitersInOrder
<1> QED
  BY <1>5, <1>6, <1>7

\* The last step of verify.
LEMMA StoredKeepsWaiters ==
  ASSUME ExsatSyncInv, NEW s \in Synchronizers, NEW b \in Blocks, VerifyStoredBlock(s, b),
         NEW c \in Blocks
  PROVE  WaitersInOrder(c)'
<1>1. UNCHANGED <<endorsement, config>>
  BY DEF VerifyStoredBlock
<1>2. BlockSyncInv /\ passed_index \in [Blocks -> Seq(Synchronizers)]
  BY FileFacts DEF ExsatSyncInv
<1>3. CASE /\ VerifyPasses(s, b)
           /\ StoreBlock(endorsement, Pass(SyncNow, s, b), Marked(s, b), b)
  <2> DEFINE y == Pass(SyncNow, s, b)
             rows == Marked(s, b)
  <2>1. /\ bucket[s][b].status = "verify_parent_hash" /\ ~check_consensus(b)
        /\ s = Miner[b] \/ b \notin y.window
    BY <1>3 DEF VerifyPasses, MayVerifyParent, ParentReached, MustWait
  <2>2. bucket[s][b].status \notin Marks
    BY <2>1 DEF Marks
  <2>3. /\ y.passed \in [Blocks -> Seq(Synchronizers)]
        /\ \A d \in Blocks \ {b} : y.passed[d] = passed_index[d]
        /\ y.window \ {b} = miner_window \ {b}
    BY <1>2, <2>1, <2>2, PassEffect
  <2>4. \A t \in Synchronizers : (\E i \in DOMAIN y.passed[b] : y.passed[b][i] = t) <=> t = s \/ OnFile(t, b)
    BY <2>1, <2>2, PassOnFile
  <2>5. b \in y.window => b \in miner_window \/ passed_index[b] = << >>
    BY FileFacts DEF Pass, SyncNow
  <2>6. /\ rows \in [Synchronizers -> [Blocks -> BucketType]]
        /\ \A t \in Synchronizers : /\ \A d \in Blocks \ {b} : rows[t][d] = bucket[t][d]
                                    /\ t # s => rows[t][b] = bucket[t][b]
        /\ rows[s][b].status = "verify_pass"
    BY <1>2, <2>1, MarkedEffect
  <2> HIDE DEF y, rows
  <2>7. WaitersOnFile(b)
    BY <2>1, FileFacts DEF WaitersInOrder
  <2>8. passed_index[b] = << >> => \A t \in Synchronizers : ~OnFile(t, b)
    <3>1. passed_index[b] = << >> => DOMAIN passed_index[b] = {}
      OBVIOUS
    <3> QED
      BY <3>1 DEF OnFile
  <2>9. ASSUME NEW t \in Synchronizers
        PROVE  /\ rows[t][b].status = "waiting_miner_verification" =>
                    \E i \in DOMAIN y.passed[b] : y.passed[b][i] = t
               /\ (\E i \in DOMAIN y.passed[b] : y.passed[b][i] = t) /\ b \in y.window /\ t # Miner[b] =>
                    rows[t][b].status = "waiting_miner_verification"
    <3>1. CASE t = s
      BY <2>1, <2>6, <3>1
    <3>2. CASE t # s
      BY <2>4, <2>5, <2>6, <2>7, <2>8, <3>2 DEF WaitersOnFile
    <3> QED
      BY <3>1, <3>2
  <2>10. StoreBlock(endorsement', y, rows, b)
    BY <1>1, <1>3 DEF y, rows
  <2> QED
    BY <1>1, <2>3, <2>6, <2>9, <2>10, StoreBlockKeepsWaiters
<1>4. CASE /\ VerifyAfterWindow(s, b)
           /\ StoreBlock(endorsement, SyncNow, Marked(s, b), b)
  <2> DEFINE rows == Marked(s, b)
  <2>1. /\ bucket[s][b].status = "waiting_miner_verification" /\ ~check_consensus(b)
        /\ b \notin miner_window
    BY <1>4 DEF VerifyAfterWindow
  <2>2. /\ rows \in [Synchronizers -> [Blocks -> BucketType]]
        /\ \A t \in Synchronizers : /\ \A d \in Blocks \ {b} : rows[t][d] = bucket[t][d]
                                    /\ t # s => rows[t][b] = bucket[t][b]
        /\ rows[s][b].status = "verify_pass"
    BY <1>2, <2>1, MarkedEffect
  <2> HIDE DEF rows
  <2>3. WaitersOnFile(b)
    BY <2>1, FileFacts DEF WaitersInOrder
  <2>4. StoreBlock(endorsement', SyncNow, rows, b)
    BY <1>1, <1>4 DEF rows
  <2>5. SyncNow.passed = passed_index /\ SyncNow.window = miner_window
    BY DEF SyncNow
  <2>6. ASSUME NEW t \in Synchronizers
        PROVE  /\ rows[t][b].status = "waiting_miner_verification" =>
                    \E i \in DOMAIN SyncNow.passed[b] : SyncNow.passed[b][i] = t
               /\ b \notin SyncNow.window
    BY <2>1, <2>2, <2>3, <2>5 DEF WaitersOnFile, OnFile
  <2> QED
    BY <1>1, <1>2, <2>2, <2>4, <2>5, <2>6, StoreBlockKeepsWaiters
<1> QED
  BY <1>3, <1>4 DEF VerifyStoredBlock

\* An endorsement.
LEMMA EndorsementKeepsWaiters ==
  ASSUME ExsatSyncInv, NEW s \in Scopes, NEW b \in Blocks, EndorseUpload(s, b), NEW c \in Blocks
  PROVE  WaitersInOrder(c)'
<1>1. StoreBlock(endorsement', SyncNow, bucket, b) /\ Endorsed(s, b)
  BY DEF EndorseUpload
<1>2. UNCHANGED config
  BY <1>1 DEF Endorsed
<1>3. PICK row : endorsement' = [endorsement EXCEPT ![s][b] = row]
  BY <1>1 DEF Endorsed
<1>4. endorsement \in EndorsementType
  BY DEF ExsatSyncInv, UtxoInv, MigrationWindow, UtxoTypeOK, TablesTypeOK, EndorsementType
<1>5. \A d \in Blocks \ {b}, x \in Scopes : endorsement'[x][d] = endorsement[x][d]
  BY <1>3, <1>4 DEF EndorsementType
<1>6. SyncNow.passed = passed_index /\ SyncNow.window = miner_window
  BY DEF SyncNow
<1>7. ~check_consensus(b) => WaitersOnFile(b)
  BY FileFacts DEF WaitersInOrder
<1>8. /\ passed_index \in [Blocks -> Seq(Synchronizers)]
      /\ bucket \in [Synchronizers -> [Blocks -> BucketType]]
  BY FileFacts
<1> QED
  BY <1>1, <1>2, <1>5, <1>6, <1>7, <1>8, StoreBlockKeepsWaiters DEF WaitersOnFile, OnFile

\* The window of a miner closes.
LEMMA WindowKeepsWaiters ==
  ASSUME ExsatSyncInv, NEW b \in Blocks, WindowExpires(b), UNCHANGED bucketVars, NEW c \in Blocks
  PROVE  WaitersInOrder(c)'
<1>1. /\ b \in miner_window /\ miner_window' = miner_window \ {b}
      /\ UNCHANGED <<utxoVars, passed_index, endorsement, config, bucket>>
  BY DEF WindowExpires, bucketVars
<1>2. UNCHANGED <<consensus_block, block>>
  BY <1>1 DEF utxoVars, chainTables
<1>3. check_consensus(c)' <=> check_consensus(c)
  BY <1>2 DEF check_consensus, HeightOf
<1>4. CASE c # b
  BY <1>1, <1>3, <1>4, WaitersStay
<1>5. CASE c = b /\ ~check_consensus(b)
  <2>1. WaitersOnFile(b)
    BY <1>5, FileFacts DEF WaitersInOrder
  <2>2. WaitersOnFile(b)'
    BY <1>1, <2>1 DEF WaitersOnFile, OnFile
  <2>3. ASSUME MayReachConsensus(endorsement, SyncNow, b)'
        PROVE  AllWait(b)'
    <3>1. is_endorsement_consensus_reached(endorsement, b)
      BY <1>1, <2>3, ReadyDepends DEF MayReachConsensus
    <3>2. AllWait(b)
      BY <1>1, <1>5, <3>1, MinerNotYet
    <3> QED
      BY <1>1, <3>2 DEF AllWait
  <2> QED
    BY <1>5, <2>2, <2>3 DEF WaitersInOrder
<1>6. CASE c = b /\ check_consensus(b)
  BY <1>3, <1>6 DEF WaitersInOrder
<1> QED
  BY <1>4, <1>5, <1>6

\* processblock, and the timeouts of the parsers.
LEMMA ParsingKeepsWaiters ==
  ASSUME ExsatSyncInv, UNCHANGED <<bucket, syncTables, config>>,
         \/ UNCHANGED <<endorsement, block, consensus_block>>
         \/ \E s \in Synchronizers, b \in Blocks, rows \in ProcessRows : ProcessBlock(s, b, rows),
         NEW c \in Blocks
  PROVE  WaitersInOrder(c)'
<1>1. passed_index' = passed_index /\ miner_window' = miner_window
  BY DEF syncTables
<1>2. CASE UNCHANGED <<endorsement, block, consensus_block>>
  <2>1. check_consensus(c)' <=> check_consensus(c)
    BY <1>2 DEF check_consensus, HeightOf
  <2> QED
    BY <1>1, <1>2, <2>1, WaitersStay
<1>3. ASSUME NEW s \in Synchronizers, NEW b \in Blocks, NEW rows \in ProcessRows, ProcessBlock(s, b, rows),
             ~UNCHANGED <<endorsement, block, consensus_block>>
      PROVE  WaitersInOrder(c)'
  <2>1. Phase = "deleting_data" /\ StoreIrreversible
    BY <1>3 DEF ProcessBlock, DeleteData, Migrate, DeletePending, DeleteSpent, DistributeRewards, ParseRows,
       consensusRows, utxoTables
  <2>2. UtxoInv /\ migrating_height # 0 /\ status = "deleting_data"
    BY <2>1 DEF ExsatSyncInv, UtxoInv, PhasesAlternate, Phase
  <2> DEFINE m == migrating_hash
  <2>3. m \in Blocks /\ Height[m] = migrating_height /\ m \in consensus_block
    BY <2>2 DEF UtxoInv, MigratedBlockIsParsed, MigrationWindow, UtxoTypeOK, PhasesAlternate, NoBlock
  <2>4. /\ block' = block \cup {m}
        /\ consensus_block' = {d \in consensus_block : Height[d] # migrating_height}
        /\ \A x \in Scopes : endorsement'[x][c] \in {endorsement[x][c], NoRow}
    BY <2>1, <2>3 DEF StoreIrreversible, EraseEndorsements
  <2>5. HeightOf(m) = Height[m]
    BY <2>3, SyncAssumption DEF HeightOf
  <2>6. check_consensus(c) => check_consensus(c)'
    BY <2>3, <2>4, <2>5 DEF check_consensus, HeightOf
  <2> QED
    BY <1>1, <2>4, <2>6, WaitersStay
<1> QED
  BY <1>2, <1>3

-----------------------------------------------------------------------------
\* Every step keeps who waits in order.
LEMMA StepKeepsWaiters ==
  ASSUME ExsatSyncInv, [ExsatSyncNext]_exsatSyncVars, NEW c \in Blocks
  PROVE  WaitersInOrder(c)'
<1>1. ASSUME NEW s \in Synchronizers, NEW b \in Blocks, UploadBlock(s, b)
      PROVE  WaitersInOrder(c)'
  <2>1. UNCHANGED <<syncTables, endorsement, config, block, consensus_block>>
    BY <1>1 DEF UploadBlock, utxoSpecVars, utxoVars, chainTables
  <2>2. PICK row : /\ bucket' = [bucket EXCEPT ![s][b] = row]
                   /\ \/ check_consensus(b)
                      \/ bucket[s][b].status \notin Marks /\ row.status \notin Marks
    BY <1>1, UploadWrites DEF UploadBlock
  <2> QED
    BY <2>1, <2>2, UploadKeepsWaiters
<1>2. ASSUME NEW s \in Synchronizers, NEW b \in Blocks, WithdrawOrWait(s, b)
      PROVE  WaitersInOrder(c)'
  <2>1. UNCHANGED <<endorsement, config, block, consensus_block>>
    BY <1>2 DEF WithdrawOrWait, utxoVars, chainTables
  <2> QED
    BY <1>2, <2>1, WithdrawKeepsWaiters, WaitKeepsWaiters DEF WithdrawOrWait
<1>3. ASSUME NEW s \in Synchronizers, NEW b \in Blocks, VerifyStoredBlock(s, b)
      PROVE  WaitersInOrder(c)'
  BY <1>3, StoredKeepsWaiters
<1>4. ASSUME NEW s \in Scopes, NEW b \in Blocks, EndorseUpload(s, b)
      PROVE  WaitersInOrder(c)'
  BY <1>4, EndorsementKeepsWaiters
<1>5. ASSUME NEW s \in Synchronizers, NEW b \in Blocks, NEW rows \in ProcessRows, ParseUpload(s, b, rows)
      PROVE  WaitersInOrder(c)'
  <2>1. ProcessBlock(s, b, rows) /\ UNCHANGED <<bucket, syncTables, config>>
    BY <1>5 DEF ParseUpload
  <2> QED
    BY <2>1, ParsingKeepsWaiters
<1>6. ASSUME NEW b \in Blocks, SyncTimePasses(b)
      PROVE  WaitersInOrder(c)'
  <2>1. CASE WindowExpires(b)
    BY <1>6, <2>1, WindowKeepsWaiters DEF SyncTimePasses
  <2>2. CASE UNCHANGED <<chainTables, block, syncTables, endorsement, config>>
    <3>1. UNCHANGED <<bucket, consensus_block>>
      BY <1>6, <2>2 DEF SyncTimePasses, bucketVars, chainTables
    <3> QED
      BY <2>2, <3>1, ParsingKeepsWaiters
  <2> QED
    BY <1>6, <2>1, <2>2 DEF SyncTimePasses
<1>7. CASE UNCHANGED exsatSyncVars
  <2>1. UNCHANGED <<bucket, syncTables, config, endorsement, block, consensus_block>>
    BY <1>7 DEF exsatSyncVars, bucketVars, utxoSpecVars, utxoVars, chainTables
  <2> QED
    BY <2>1, ParsingKeepsWaiters
<1>8. CASE ExsatSyncNext
  BY <1>1, <1>2, <1>3, <1>4, <1>5, <1>6, <1>8 DEF ExsatSyncNext
<1> QED
  BY <1>7, <1>8

-----------------------------------------------------------------------------
(***************************************************************************)
(* The theorems.                                                           *)
(***************************************************************************)
\* The inductive invariant holds at first,
LEMMA ExsatSyncStart == ExsatSyncInit => ExsatSyncInv
<1> SUFFICES ASSUME ExsatSyncInit PROVE ExsatSyncInv
  OBVIOUS
<1>1. UtxoSpecInit /\ BlockSyncInit
  BY DEF ExsatSyncInit
<1>2. UtxoInv
  BY <1>1, InitUtxoInv
<1>3. BlockSyncSpecInit
  BY <1>1 DEF UtxoSpecInit, UtxoInit, BlockSyncSpecInit
<1>4. BlockSyncInv
  BY <1>3, InitBlockSyncInv
<1>5. ErasedBelowFloor
  BY <1>1 DEF UtxoSpecInit, ErasedBelowFloor
<1>6. ASSUME NEW b \in Blocks PROVE WaitersInOrder(b)
  <2>1. passed_index[b] = << >> /\ DOMAIN passed_index[b] = {}
    BY <1>1 DEF UtxoSpecInit, SyncInit
  <2>2. \A s \in Synchronizers : bucket[s][b].status = "none"
    BY <1>1 DEF BlockSyncInit, NoBucket
  <2> QED
    BY <2>1, <2>2 DEF WaitersInOrder, WaitersOnFile, OnFile, AllWait
<1> QED
  BY <1>2, <1>4, <1>5, <1>6 DEF ExsatSyncInv

\* and every step keeps it.
LEMMA ExsatSyncStep ==
  ASSUME ExsatSyncInv, [ExsatSyncNext]_exsatSyncVars
  PROVE  ExsatSyncInv'
<1>1. UtxoInv /\ BlockSyncInv /\ ErasedBelowFloor
  BY DEF ExsatSyncInv
<1>2. [UtxoNext]_utxoSpecVars
  BY StepIsUtxoStep
<1>3. UtxoInv'
  BY <1>1, <1>2, NextUtxoInv
<1>4. BlockSyncInv'
  BY <1>1, StepIsUploadStep, StepKeepsBlockSyncInv
<1>5. ErasedBelowFloor'
  BY <1>1, <1>2, ErasedStep
<1>6. \A b \in Blocks : WaitersInOrder(b)'
  BY StepKeepsWaiters
<1> QED
  BY <1>3, <1>4, <1>5, <1>6 DEF ExsatSyncInv

\* The two contracts together keep the invariants of each, which were proved of each
\* against its own environment.
THEOREM ExsatSyncInvHolds == ExsatSyncSpec => []ExsatSyncInv
<1>1. ExsatSyncInv /\ [ExsatSyncNext]_exsatSyncVars => ExsatSyncInv'
  BY ExsatSyncStep
<1> QED
  BY ExsatSyncStart, <1>1, PTL DEF ExsatSyncSpec

\* blksync.xsat does to utxomng.xsat nothing but what its environment may do, so that
\* what is proved of utxomng.xsat alone holds with the uploads.
THEOREM SyncImplementsUtxo == ExsatSyncSpec => UtxoSpec
<1>1. ExsatSyncInit => UtxoSpecInit
  BY DEF ExsatSyncInit
<1>2. ExsatSyncInv /\ [ExsatSyncNext]_exsatSyncVars => [UtxoNext]_utxoSpecVars
  BY StepIsUtxoStep
<1> QED
  BY <1>1, <1>2, ExsatSyncInvHolds, PTL DEF ExsatSyncSpec, UtxoSpec

\* So the tip of the composition moves along one chain of blocks in consensus.
THEOREM SyncImplementsChain == ExsatSyncSpec => ImplementsIrreversibleChain
BY SyncImplementsUtxo, ImplementsChain

\* And the buckets, the verifications on file and the data of the stored blocks stay
\* as blksync.xsat keeps them.
THEOREM SyncKeepsUploads ==
  ExsatSyncSpec => []BucketsMatchChunks /\ []ConsensusDataIsTheBlock /\ []MinerComesFirst /\ []ChunksHaveOwners
<1>1. ExsatSyncInv => BucketsMatchChunks
  BY DEF ExsatSyncInv, BlockSyncInv, BucketsMatchChunks, RowInv, HasBucket, Data
<1>2. ExsatSyncInv => ConsensusDataIsTheBlock /\ MinerComesFirst /\ ChunksHaveOwners
  BY DEF ExsatSyncInv, BlockSyncInv, ConsensusInv, ConsensusDataIsTheBlock, BlockSyncTypeOK
<1> QED
  BY <1>1, <1>2, ExsatSyncInvHolds, PTL

\* A block is parsed from the chunks of the bucket that was found to be the block.
THEOREM ParsedDataIsTheBlockHolds == ExsatSyncSpec => []ParsedDataIsTheBlock
<1>1. ExsatSyncInv => ParsedDataIsTheBlock
  <2> SUFFICES ASSUME ExsatSyncInv, NEW b \in DOMAIN parsing_progress_of
               PROVE  Data(uploader[b], b) = Content[b]
    BY DEF ParsedDataIsTheBlock
  <2>1. b \in consensus_block /\ b \in Blocks
    BY DEF ExsatSyncInv, UtxoInv, ParsingInOrder, MigrationWindow, UtxoTypeOK
  <2> QED
    BY <2>1 DEF ExsatSyncInv, BlockSyncInv, ConsensusInv
<1> QED
  BY <1>1, ExsatSyncInvHolds, PTL

\* A block that is verified, endorsed and past its miner's priority, and yet not
\* stored, has a synchronizer whose next verify stores it.
THEOREM ReadyBlocksHaveAWaiterHolds == ExsatSyncSpec => []ReadyBlocksHaveAWaiter
<1>1. ExsatSyncInv => ReadyBlocksHaveAWaiter
  <2> SUFFICES ASSUME ExsatSyncInv, NEW b \in Blocks, MayReachConsensus(endorsement, SyncNow, b)
               PROVE  \E s \in Synchronizers : bucket[s][b].status = "waiting_miner_verification"
    BY DEF ReadyBlocksHaveAWaiter
  <2>1. ~check_consensus(b)
    BY SettledIsNotReady
  <2>2. AllWait(b) /\ passed_index[b] # << >>
    BY <2>1 DEF ExsatSyncInv, WaitersInOrder, MayReachConsensus, Passed, SyncNow
  <2>3. passed_index[b] \in Seq(Synchronizers)
    BY FileFacts
  <2>4. 1 \in DOMAIN passed_index[b]
    BY <2>2, <2>3, EmptySeq, LenProperties
  <2> QED
    BY <2>2, <2>4, FileFacts DEF AllWait
<1> QED
  BY <1>1, ExsatSyncInvHolds, PTL
=============================================================================
