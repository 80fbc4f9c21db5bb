---------------------------- MODULE ExsatSync ----------------------------
(***************************************************************************)
(* blksync.xsat and utxomng.xsat together: the last step of verify stores  *)
(* the block in the same transaction, which erases the bucket of the       *)
(* synchronizer it came from, and processblock deletes the chunks of the   *)
(* heights it finished.  The endorsements come from UtxoManage's           *)
(* environment.                                                            *)
(***************************************************************************)
EXTENDS BlockSync, UtxoManage

exsatSyncVars == <<bucketVars, utxoSpecVars>>

\* consensus on the endorsements t, with the call back of blksync.xsat.
StoreBlock(t, y, rows, b) ==
  /\ Consensus(t, y, b)
  /\ IF MayReachConsensus(t, y, b)
       THEN MayErase(y, rows, b) /\ bucket' = Erased(y, rows, b)
       ELSE bucket' = rows

UploadBlock(s, b) ==
  /\ Upload(s, b) \/ VerifyData(s, b)
  /\ UNCHANGED utxoSpecVars

WithdrawOrWait(s, b) ==
  /\ DelBucket(s, b) \/ VerifyWaits(s, b)
  /\ UNCHANGED <<utxoVars, synchronizer, endorsement, config>>

VerifyStoredBlock(s, b) ==
  /\ \/ /\ VerifyPasses(s, b)
        /\ StoreBlock(endorsement, Pass(SyncNow, s, b), Marked(s, b), b)
     \/ /\ VerifyAfterWindow(s, b)
        /\ StoreBlock(endorsement, SyncNow, Marked(s, b), b)
  /\ UNCHANGED <<endorsement, config>>

EndorseUpload(s, b) ==
  /\ Endorsed(s, b)
  /\ StoreBlock(endorsement', SyncNow, bucket, b)
  /\ UNCHANGED block_chunk

ParseUpload(s, b, rows) ==
  /\ ProcessBlock(s, b, rows)
  /\ block_chunk' = IF block' = block THEN block_chunk ELSE ChunksAfter(migrating_hash)
  /\ UNCHANGED <<bucket, syncTables, synchronizer, config>>

SyncTimePasses(b) ==
  /\ \/ WindowExpires(b)
     \/ /\ ParserTimeout(b)
        /\ UNCHANGED <<chainTables, irreversible_hash, migrationVars, parsing_height, parsed,
                       uploader, utxoTables, block, syncTables, synchronizer, endorsement, config>>
  /\ UNCHANGED bucketVars

ExsatSyncInit == UtxoSpecInit /\ BlockSyncInit

ExsatSyncNext ==
  \/ \E s \in Synchronizers, b \in Blocks : UploadBlock(s, b)
  \/ \E s \in Synchronizers, b \in Blocks : WithdrawOrWait(s, b)
  \/ \E s \in Synchronizers, b \in Blocks : VerifyStoredBlock(s, b)
  \/ \E s \in Scopes, b \in Blocks : EndorseUpload(s, b)
  \/ \E s \in Synchronizers, b \in Blocks, rows \in ProcessRows : ParseUpload(s, b, rows)
  \/ \E b \in Blocks : SyncTimePasses(b)

ExsatSyncSpec == ExsatSyncInit /\ [][ExsatSyncNext]_exsatSyncVars

-----------------------------------------------------------------------------
\* A block that is verified, endorsed and free of its miner's priority is
\* stored at once, except when a synchronizer was told to wait for the miner:
\* then its own verify, called again, stores the block.
ReadyBlocksHaveAWaiter ==
  \A b \in Blocks :
    MayReachConsensus(endorsement, SyncNow, b) =>
      \E s \in Synchronizers : bucket[s][b].status = "waiting_miner_verification"

\* The rows a parser reads come from the chunks of the bucket that verify found
\* to be the block, whatever is deleted meanwhile.
ParsedDataIsTheBlock ==
  \A b \in DOMAIN parsing_progress_of : Data(uploader[b], b) = Content[b]

-----------------------------------------------------------------------------
(***************************************************************************)
(* What the steps of the composition preserve, beside the invariants of    *)
(* its parts.                                                              *)
(***************************************************************************)
OnFile(s, b) == \E i \in DOMAIN passed_index[b] : passed_index[b][i] = s

\* Who waits for the miner of b is on file and, in the window of the miner, whoever
\* else is on file waits.
WaitersOnFile(b) ==
  \A s \in Synchronizers :
    /\ bucket[s][b].status = "waiting_miner_verification" => OnFile(s, b)
    /\ OnFile(s, b) /\ b \in miner_window /\ s # Miner[b] =>
         bucket[s][b].status = "waiting_miner_verification"

\* Everyone who verified b waits.
AllWait(b) ==
  \A i \in DOMAIN passed_index[b] :
    bucket[passed_index[b][i]][b].status = "waiting_miner_verification"

\* No endorsement survives the erasure of its height.
ErasedBelowFloor ==
  \A s \in Scopes, b \in Blocks : Height[b] <= Floor => endorsement[s][b] = NoRow

WaitersInOrder(b) ==
  ~check_consensus(b) =>
    /\ WaitersOnFile(b)
    /\ MayReachConsensus(endorsement, SyncNow, b) => AllWait(b)

ExsatSyncInv ==
  /\ UtxoInv /\ BlockSyncInv /\ ErasedBelowFloor
  /\ \A b \in Blocks : WaitersInOrder(b)
=============================================================================
