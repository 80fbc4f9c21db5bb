----------------------------- MODULE BlockSync -----------------------------
(***************************************************************************)
(* blksync.xsat: a synchronizer uploads a block in chunks into a bucket of *)
(* its own, then calls verify until the data is found to be the block, its *)
(* parent has reached consensus and the miner of the block had its time.   *)
(*                                                                         *)
(* The data of a block is a sequence of units: the header with the number  *)
(* of transactions that follow, then the transactions.  The merkle roots   *)
(* kept between two calls of verify stand for the transactions they are    *)
(* computed from.  A synchronizer has at most one bucket per block, which  *)
(* identifies it here; the fees that every action pays are left out.       *)
(***************************************************************************)
EXTENDS SyncTables, FiniteSetsExt, SequencesExt

CONSTANTS
  Units,                     \* headers and transactions
  HeaderOf,                  \* HeaderOf[u]: the block whose header u is, or NoHeader
  NoHeader,
  num_transactions,          \* num_transactions[u]: how many are to follow the header u
  Content,                   \* Content[b]: the data the hash of b commits to
  Chunks,                    \* what a call of pushchunk may carry
  ChunkIds,
  Sizes,                     \* values of block_size
  NumsChunks,                \* values of num_chunks
  ExpectedBits,              \* the blocks with the difficulty their ancestors require
  num_slots,                 \* of every synchronizer_row
  num_txs_per_verification,  \* config of utxomng.xsat
  num_retain_data_blocks

ASSUME BlockSyncAssumption ==
  /\ HeaderOf \in [Units -> Blocks \cup {NoHeader}]
  /\ NoHeader \notin Blocks
  /\ num_transactions \in [Units -> Nat]
  /\ Content \in [Blocks -> Seq(Units)]
  /\ \A b \in Blocks : /\ Len(Content[b]) > 1
                       /\ HeaderOf[Content[b][1]] = b
                       /\ num_transactions[Content[b][1]] = Len(Content[b]) - 1
  /\ \A u, v \in Units :  \* what is decoded of a header: not how its count is encoded
       /\ HeaderOf[u] # NoHeader
       /\ HeaderOf[u] = HeaderOf[v] /\ num_transactions[u] = num_transactions[v]
       => u = v
  /\ Chunks \subseteq Seq(Units) \ {<< >>}
  /\ ChunkIds \subseteq 0..255
  /\ Sizes \subseteq Nat \ {0} /\ NumsChunks \subseteq Nat \ {0}
  /\ ExpectedBits \subseteq Blocks
  /\ num_slots \in Nat
  /\ num_txs_per_verification \in Nat \ {0}
  /\ num_retain_data_blocks \in Nat \ {0}

VARIABLES
  bucket,      \* blockbuckets, by synchronizer and block
  block_chunk  \* block.chunk: the chunks of a bucket by chunk_id

bucketVars == <<bucket, block_chunk>>

(***************************************************************************)
(* verify_info: the number of transactions and those whose merkle roots    *)
(* were computed.  No transactions stand for the absence of the value.     *)
(***************************************************************************)
NoInfo == [num |-> 0, relay |-> << >>]

NoBucket == [status |-> "none", size |-> 0, num_chunks |-> 0, uploaded_size |-> 0,
             uploaded_num_chunks |-> 0, verify_info |-> NoInfo]

HasBucket(rows, s, b) == rows[s][b].status # "none"

Uploads == {"uploading", "upload_complete", "verify_fail"}
in_verifiable ==
  {"upload_complete", "verify_merkle", "verify_parent_hash", "waiting_miner_verification"}

\* read_bucket: the chunks in the order of their ids.
Flattened(chunks) ==
  LET data[ids \in SUBSET DOMAIN chunks] ==
        IF ids = {} THEN << >> ELSE data[ids \ {Max(ids)}] \o chunks[Max(ids)]
  IN data[DOMAIN chunks]

Data(s, b) == Flattened(block_chunk[s][b])

NoChunks == << >>

-----------------------------------------------------------------------------
Initialized(old, size, n) == [old EXCEPT !.size = size, !.num_chunks = n, !.status = "uploading"]

\* initbucket.  A bucket that failed, or is still being filled, is initialized
\* again and keeps the chunks it has.
InitBucket(s, b, size, n) ==
  /\ synchronizer[s].registered
  /\ ~check_consensus(b)
  /\ IF HasBucket(bucket, s, b)
       THEN bucket[s][b].status \in {"uploading", "verify_fail"}
       ELSE /\ \/ synchronizer[s].produced_block_limit = 0
               \/ Height[b] <= synchronizer[s].produced_block_limit
                               + synchronizer[s].latest_produced_block_height
            /\ Cardinality({c \in Blocks : HasBucket(bucket, s, c)}) < num_slots
  /\ bucket' = [bucket EXCEPT ![s][b] = Initialized(@, size, n)]
  /\ UNCHANGED block_chunk

\* The status that follows a change of the chunks.
Filled(row) ==
  [row EXCEPT !.status = IF row.uploaded_size = row.size /\ row.uploaded_num_chunks = row.num_chunks
                           THEN "upload_complete" ELSE "uploading"]

ChunkSize(s, b, id) == IF id \in DOMAIN block_chunk[s][b] THEN Len(block_chunk[s][b][id]) ELSE 0

\* Mutant: a chunk that is pushed again is counted again.
Pushed_Twice(s, b, id, data) ==
  [bucket[s][b] EXCEPT
     !.uploaded_num_chunks = IF id \in DOMAIN block_chunk[s][b] THEN @ ELSE @ + 1,
     !.uploaded_size = @ + Len(data)]

Pushed(s, b, id, data) ==
  [bucket[s][b] EXCEPT
     !.uploaded_num_chunks = IF id \in DOMAIN block_chunk[s][b] THEN @ ELSE @ + 1,
     !.uploaded_size = @ + Len(data) - ChunkSize(s, b, id)]

\* Mutant: a chunk may still be replaced between two calls of verify.
MayPush_Verifying(s, b) ==
  /\ ~check_consensus(b)
  /\ bucket[s][b].status \in Uploads \cup {"verify_merkle"}

MayPush(s, b) == ~check_consensus(b) /\ bucket[s][b].status \in Uploads

\* pushchunk stores a chunk or replaces it.
PushChunk(s, b, id, data) ==
  /\ MayPush(s, b)
  /\ Pushed(s, b, id, data).uploaded_num_chunks <= bucket[s][b].num_chunks
  /\ Pushed(s, b, id, data).uploaded_size <= bucket[s][b].size
  /\ bucket' = [bucket EXCEPT ![s][b] = Filled(Pushed(s, b, id, data))]
  /\ block_chunk' = [block_chunk EXCEPT ![s][b] = Put(@, id, data)]

MayDelete(s, b, id) == bucket[s][b].status \in Uploads /\ id \in DOMAIN block_chunk[s][b]

Deleted(s, b, id) ==
  [bucket[s][b] EXCEPT !.uploaded_num_chunks = @ - 1, !.uploaded_size = @ - ChunkSize(s, b, id)]

DelChunk(s, b, id) ==
  /\ MayDelete(s, b, id)
  /\ bucket' = [bucket EXCEPT ![s][b] = Filled(Deleted(s, b, id))]
  /\ block_chunk' = [block_chunk EXCEPT ![s][b] = Restrict(@, DOMAIN @ \ {id})]

\* Mutant: the verification that is on file stays.
Unpassed_Kept(s, b) == SyncNow

\* The tables without what s verified of b.
Unpassed(s, b) == [SyncNow EXCEPT !.passed[b] = RemoveFirst(@, s)]

\* delbucket, in any status.
DelBucket(s, b) ==
  /\ HasBucket(bucket, s, b)
  /\ bucket' = [bucket EXCEPT ![s][b] = NoBucket]
  /\ block_chunk' = [block_chunk EXCEPT ![s][b] = NoChunks]
  /\ SetSync(Unpassed(s, b))

-----------------------------------------------------------------------------
(***************************************************************************)
(* verify.                                                                 *)
(***************************************************************************)
\* check_fail.
Failed(row) == [row EXCEPT !.status = "verify_fail", !.verify_info = NoInfo]

\* The block has reached consensus meanwhile.
VerifyReached(s, b) ==
  /\ bucket[s][b].status \in in_verifiable
  /\ check_consensus(b)
  /\ bucket' = [bucket EXCEPT ![s][b] = Failed(@)]
  /\ UNCHANGED block_chunk

\* The position check_merkle continues at, in units.
processed_position(info) == IF info.relay = << >> THEN 0 ELSE 1 + Len(info.relay)

HeaderFails(s, b) == LET u == Data(s, b)[1] IN HeaderOf[u] # b \/ num_transactions[u] = 0

\* verify_info with the next batch of transactions; the first call reads the
\* header.
NextInfo(s, b) ==
  LET info == bucket[s][b].verify_info
      num == IF info.relay = << >> THEN num_transactions[Data(s, b)[1]] ELSE info.num
      from == 1 + Len(info.relay)
      rows == Min({num_txs_per_verification, num - Len(info.relay)})
  IN [num |-> num, relay |-> info.relay \o SubSeq(Data(s, b), from + 1, from + rows)]

\* Beyond the data the deserialization fails, which aborts the call.
BatchReadable(s, b) ==
  LET info == bucket[s][b].verify_info
      num == IF info.relay = << >> THEN num_transactions[Data(s, b)[1]] ELSE info.num
  IN 1 + Len(info.relay) + Min({num_txs_per_verification, num - Len(info.relay)})
       <= Len(Data(s, b))

Processed(info) == info.num = Len(info.relay)

\* Mutant: the merkle root is not compared.
BatchFails_Unchecked(s, b, info) ==
  \/ Processed(info) /\ processed_position(info) < bucket[s][b].size
  \/ ~Processed(info) /\ processed_position(info) = bucket[s][b].size

\* data_exceeds, missing_block_data and merkle_invalid.
BatchFails(s, b, info) ==
  \/ Processed(info) /\ processed_position(info) < bucket[s][b].size
  \/ ~Processed(info) /\ processed_position(info) = bucket[s][b].size
  \/ Processed(info) /\ info.relay # Tail(Content[b])

(***************************************************************************)
(* check_merkle, a batch of transactions per call.  check_transaction has  *)
(* no return statement for a transaction without fault, so the batch may   *)
(* fail nevertheless; the other rules of a valid block end alike.          *)
(***************************************************************************)
VerifyMerkle(s, b) ==
  /\ bucket[s][b].status \in {"upload_complete", "verify_merkle"}
  /\ ~check_consensus(b)
  /\ IF bucket[s][b].verify_info.relay = << >> /\ HeaderFails(s, b)
       THEN bucket' = [bucket EXCEPT ![s][b] = Failed(@)]
       ELSE /\ BatchReadable(s, b)
            /\ LET info == NextInfo(s, b) IN
                 \/ bucket' = [bucket EXCEPT ![s][b] = Failed(@)]
                 \/ /\ ~BatchFails(s, b, info)
                    /\ bucket' = [bucket EXCEPT ![s][b].verify_info = info, ![s][b].status =
                         IF Processed(info) THEN "verify_parent_hash" ELSE "verify_merkle"]
  /\ UNCHANGED block_chunk

\* Mutant: the parent is not looked up.
ParentReached_Orphan(b) == ~check_consensus(b)

\* get_ancestor finds the parent among the blocks in consensus or irreversible.
ParentReached(b) == ~check_consensus(b) /\ Prev[b] \in consensus_block \cup block

VerifyBits(s, b) ==
  /\ bucket[s][b].status = "verify_parent_hash"
  /\ ParentReached(b) /\ b \notin ExpectedBits
  /\ bucket' = [bucket EXCEPT ![s][b] = Failed(@)]
  /\ UNCHANGED block_chunk

(***************************************************************************)
(* The last step of verify.  The block is put on file; in the window of    *)
(* another synchronizer, its miner, it has to wait, else the bucket is     *)
(* marked and utxomng.xsat's consensus is called with these tables, which  *)
(* is the other conjunct of the step.                                      *)
(***************************************************************************)
MayVerifyParent(s, b) ==
  /\ bucket[s][b].status = "verify_parent_hash"
  /\ ParentReached(b) /\ b \in ExpectedBits

MustWait(y, s, b) == s # Miner[b] /\ b \in y.window

VerifyWaits(s, b) ==
  LET y == Pass(SyncNow, s, b) IN
  /\ MayVerifyParent(s, b)
  /\ MustWait(y, s, b)
  /\ SetSync(y)
  /\ bucket' = [bucket EXCEPT ![s][b].status = "waiting_miner_verification"]
  /\ UNCHANGED block_chunk

Marked(s, b) == [bucket EXCEPT ![s][b].status = "verify_pass"]

VerifyPasses(s, b) ==
  /\ MayVerifyParent(s, b)
  /\ ~MustWait(Pass(SyncNow, s, b), s, b)
  /\ UNCHANGED block_chunk

VerifyAfterWindow(s, b) ==
  /\ bucket[s][b].status = "waiting_miner_verification"
  /\ ~check_consensus(b)
  /\ b \in block_miner \ miner_window
  /\ UNCHANGED block_chunk

-----------------------------------------------------------------------------
\* consensus, called back by utxomng.xsat for the block it stores: the bucket
\* must be there and is erased, its chunks stay.
MayErase(y, rows, b) == HasBucket(rows, PassedBy(y, b), b)
Erased(y, rows, b) == [rows EXCEPT ![PassedBy(y, b)][b] = NoBucket]

(***************************************************************************)
(* The environment: utxomng.xsat::consensus stores a verified block or,    *)
(* while its endorsements are missing, returns; it may also be called for  *)
(* an endorsement.  processblock then makes one block of a height          *)
(* irreversible and has the chunks deleted that are not needed any more.   *)
(***************************************************************************)
Store(y, rows, b) ==
  /\ Passed(y, b) /\ ~WaitsForMiner(y, b)
  /\ MayErase(y, rows, b)
  /\ bucket' = Erased(y, rows, b)
  /\ SetSync(Forget(y, b))
  /\ consensus_block' = consensus_block \cup {b}
  /\ uploader' = [uploader EXCEPT ![b] = PassedBy(y, b)]
  /\ IF Miner[b] = NoAccount THEN UNCHANGED synchronizer ELSE updateheight(Miner[b], Height[b])

StoreOrReturn(y, rows, b) ==
  \/ Store(y, rows, b)
  \/ SetSync(y) /\ bucket' = rows /\ UNCHANGED <<consensus_block, uploader, synchronizer>>

\* Mutant: the chunks of the blocks that lost the fork stay.
ChunksAfter_LosersKept(b) ==
  [s \in Synchronizers |-> [c \in Blocks |->
     IF Height[c] = Height[b] - num_retain_data_blocks /\ c \in block /\ ~HasBucket(bucket, s, c)
       THEN NoChunks ELSE block_chunk[s][c]]]

\* Mutant: one block too few is retained.
ChunksAfter_OneLess(b) ==
  [s \in Synchronizers |-> [c \in Blocks |->
     IF \/ Height[c] = Height[b] /\ c # b /\ s = uploader[c]
        \/ /\ Height[c] = Height[b] - num_retain_data_blocks + 1
           /\ c \in block \cup {b} /\ ~HasBucket(bucket, s, c)
       THEN NoChunks ELSE block_chunk[s][c]]]

\* Mutant: the walk over the consensus rows does not end with the height.
ChunksAfter_NoEnd(b) ==
  [s \in Synchronizers |-> [c \in Blocks |->
     IF \/ Height[c] >= Height[b] /\ c # b /\ s = uploader[c]
        \/ Height[c] = Height[b] - num_retain_data_blocks /\ c \in block /\ ~HasBucket(bucket, s, c)
       THEN NoChunks ELSE block_chunk[s][c]]]

\* delchunks for the other blocks in consensus at the height of b, and for the
\* irreversible block num_retain_data_blocks below: theirs are the chunks that
\* no bucket owns.
ChunksAfter(b) ==
  [s \in Synchronizers |-> [c \in Blocks |->
     IF \/ Height[c] = Height[b] /\ c # b /\ s = uploader[c]
        \/ Height[c] = Height[b] - num_retain_data_blocks /\ c \in block /\ ~HasBucket(bucket, s, c)
       THEN NoChunks ELSE block_chunk[s][c]]]

ChainProceeds(b) ==
  /\ b \in consensus_block
  /\ Prev[b] \in block /\ \A c \in block : HeightOf(c) < Height[b]
  /\ block' = block \cup {b}
  /\ consensus_block' = {c \in consensus_block : Height[c] # Height[b]}
  /\ uploader' = [c \in Blocks |-> IF c \in consensus_block' THEN uploader[c] ELSE NoAccount]
  /\ block_chunk' = ChunksAfter(b)
  /\ UNCHANGED <<bucket, syncTables, synchronizer>>

EndorsementArrives(b) ==
  /\ ~check_consensus(b)
  /\ Store(SyncNow, bucket, b)
  /\ UNCHANGED <<block, block_chunk>>

MinerWindowExpires(b) ==
  /\ b \in miner_window
  /\ miner_window' = miner_window \ {b}
  /\ UNCHANGED <<bucketVars, passed_index, block_miner, consensus_block, uploader, block,
                 synchronizer>>

-----------------------------------------------------------------------------
BlockSyncInit ==
  /\ bucket = [s \in Synchronizers |-> [b \in Blocks |-> NoBucket]]
  /\ block_chunk = [s \in Synchronizers |-> [b \in Blocks |-> NoChunks]]

Upload(s, b) ==
  \/ \E size \in Sizes, n \in NumsChunks : InitBucket(s, b, size, n)
  \/ \E id \in ChunkIds, data \in Chunks : PushChunk(s, b, id, data)
  \/ \E id \in ChunkIds : DelChunk(s, b, id)

VerifyData(s, b) == VerifyReached(s, b) \/ VerifyMerkle(s, b) \/ VerifyBits(s, b)

VerifyChain(s, b) ==
  \/ VerifyPasses(s, b) /\ StoreOrReturn(Pass(SyncNow, s, b), Marked(s, b), b)
  \/ VerifyAfterWindow(s, b) /\ StoreOrReturn(SyncNow, Marked(s, b), b)

\* What of the shared tables this component does not touch.
otherTables == <<config, endorsement, head_height, irreversible_height, migrating_height,
                 parsed_height, status>>
uploadVars == <<bucketVars, syncTables, consensus_block, uploader, block, synchronizer>>
blockSyncVars == <<uploadVars, otherTables>>

BlockSyncSpecInit ==
  /\ BlockSyncInit /\ SyncInit
  /\ consensus_block = {} /\ block = {Genesis}
  /\ uploader = [b \in Blocks |-> NoAccount]
  /\ head_height = START_HEIGHT /\ irreversible_height = START_HEIGHT
  /\ parsed_height = START_HEIGHT /\ migrating_height = 0 /\ status = "waiting"
  /\ config \in Configs
  /\ endorsement = [s \in Scopes |-> [b \in Blocks |-> NoRow]]
  /\ \E limit \in ProducedLimits : synchronizer = [s \in Synchronizers |->
       [registered |-> TRUE, produced_block_limit |-> limit,
        latest_produced_block_height |-> START_HEIGHT]]

BlockSyncStep ==
  \/ \E s \in Synchronizers, b \in Blocks :
       /\ Upload(s, b) \/ VerifyData(s, b)
       /\ UNCHANGED <<syncTables, consensus_block, uploader, block, synchronizer>>
  \/ \E s \in Synchronizers, b \in Blocks :
       /\ DelBucket(s, b) \/ VerifyWaits(s, b)
       /\ UNCHANGED <<consensus_block, uploader, block, synchronizer>>
  \/ \E s \in Synchronizers, b \in Blocks :
       VerifyChain(s, b) /\ UNCHANGED block
  \/ \E b \in Blocks : ChainProceeds(b) \/ EndorsementArrives(b) \/ MinerWindowExpires(b)

BlockSyncNext == BlockSyncStep /\ UNCHANGED otherTables

BlockSyncSpec == BlockSyncSpecInit /\ [][BlockSyncNext]_blockSyncVars

-----------------------------------------------------------------------------
InfoType == [num : Nat, relay : Seq(Units)]
BucketType ==
  [status : {"none", "verify_pass"} \cup Uploads \cup in_verifiable, size : Nat, num_chunks : Nat,
   uploaded_size : Nat, uploaded_num_chunks : Nat, verify_info : InfoType]

ChunkTables == UNION {[ids -> Chunks] : ids \in SUBSET ChunkIds}

BlockSyncTypeOK ==
  /\ SyncTypeOK
  /\ consensus_block \subseteq Blocks
  /\ bucket \in [Synchronizers -> [Blocks -> BucketType]]
  /\ block_chunk \in [Synchronizers -> [Blocks -> ChunkTables]]

\* The counters of a bucket are those of its chunks through any order of
\* pushes, replacements, deletions and initializations (they are unsigned, and
\* would wrap), and what is verified is all there: check_merkle reads to `size`.
BucketsMatchChunks == BlockSyncTypeOK /\
  \A s \in Synchronizers, b \in Blocks : LET row == bucket[s][b] IN
    HasBucket(bucket, s, b) =>
      /\ row.uploaded_size = Len(Data(s, b))
      /\ row.uploaded_num_chunks = Cardinality(DOMAIN block_chunk[s][b])
      /\ row.status \in in_verifiable \cup {"verify_pass"} =>
           row.uploaded_size = row.size /\ row.uploaded_num_chunks = row.num_chunks

\* A verification spread over several calls is about one and the same data:
\* what earlier calls hashed is still the beginning of the bucket, and a bucket
\* that can be changed has no verification to be continued.
VerifiedPrefix ==
  \A s \in Synchronizers, b \in Blocks : LET row == bucket[s][b] IN
    IF row.status \in Uploads \cup {"none"}
      THEN row.verify_info = NoInfo
      ELSE /\ row.verify_info # NoInfo
           /\ IsPrefix(row.verify_info.relay, Tail(Data(s, b)))

\* The data kept for a block in consensus is that of the block, until it is
\* parsed and as long as the height is open: utxomng.xsat reads the header and
\* the transactions from these chunks and checks neither again.
ConsensusDataIsTheBlock ==
  \A b \in consensus_block :
    /\ uploader[b] # NoAccount
    /\ Data(uploader[b], b) = Content[b]

\* Each verification on file has its bucket with the miners it found: consensus
\* aborts, and the endorsement or verification with it, if the bucket is gone,
\* and dereferences verify_info.
PassedRowsHaveBuckets ==
  \A b \in Blocks, s \in Synchronizers :
    ~check_consensus(b) /\ (\E i \in DOMAIN passed_index[b] : passed_index[b][i] = s) =>
      /\ bucket[s][b].status \in {"verify_pass", "waiting_miner_verification"}
      /\ bucket[s][b].verify_info # NoInfo

\* A synchronizer is on file at most once per block, and the miner of the block
\* before the others while its window is open: consensus takes the first row.
MinerComesFirst ==
  \A b \in Blocks :
    /\ IsInjective(passed_index[b])
    /\ b \in miner_window /\ Miner[b] \in Range(passed_index[b]) => Head(passed_index[b]) = Miner[b]

\* No chunk is left behind: it belongs to a bucket its synchronizer may still
\* delete, to a block in consensus or to an irreversible one.
ChunksHaveOwners ==
  \A s \in Synchronizers, b \in Blocks :
    block_chunk[s][b] # NoChunks =>
      HasBucket(bucket, s, b) \/ b \in block \/ s = uploader[b]

\* The data of the last num_retain_data_blocks irreversible blocks is kept.
RetainedBlocksHaveData ==
  \A b \in block \ {Genesis} :
    (\A c \in block : HeightOf(c) < Height[b] + num_retain_data_blocks) =>
      \E s \in Synchronizers : Data(s, b) = Content[b]

(***************************************************************************)
(* What the steps of BlockSync preserve.  A row and its chunks agree       *)
(* whatever the other tables hold; what the tables say of each other       *)
(* settles which rows and chunks a step may still reach.                   *)
(***************************************************************************)
\* What verify has found of the data of the block.
VerifiedInv(row, data, b) ==
  LET info == row.verify_info IN
  /\ row.status \in Uploads => info = NoInfo
  /\ row.status = "verify_merkle" =>
       /\ HeaderOf[data[1]] = b
       /\ info.num = num_transactions[data[1]]
       /\ Len(info.relay) \in 1..(info.num - 1)
       /\ 1 + Len(info.relay) <= Len(data)
       /\ info.relay = SubSeq(data, 2, 1 + Len(info.relay))
  /\ row.status \in {"verify_parent_hash", "waiting_miner_verification", "verify_pass"} =>
       data = Content[b] /\ info.relay = Tail(data)

\* A bucket with its chunks.
RowInv(row, chunks, b) ==
  IF row.status = "none" THEN row = NoBucket
  ELSE /\ row.size > 0
       /\ row.uploaded_size = Len(Flattened(chunks))
       /\ row.uploaded_num_chunks = Cardinality(DOMAIN chunks)
       /\ row.status \in in_verifiable \cup {"verify_pass"} =>
            row.uploaded_size = row.size /\ row.uploaded_num_chunks = row.num_chunks
       /\ VerifiedInv(row, Flattened(chunks), b)

\* The verifications on file, by block.
PassedInv(b) ==
  /\ passed_index[b] # << >> => b \in block_miner
  /\ ~check_consensus(b) => \A i \in DOMAIN passed_index[b] :
       bucket[passed_index[b][i]][b].status \in {"verify_pass", "waiting_miner_verification"}

\* The data of the blocks in consensus is out of reach of the uploads.
ConsensusInv ==
  /\ consensus_block \cap block = {}
  /\ \A b \in Blocks :
       IF b \in consensus_block
         THEN /\ uploader[b] # NoAccount
              /\ ~HasBucket(bucket, uploader[b], b)
              /\ Data(uploader[b], b) = Content[b]
         ELSE uploader[b] = NoAccount

RetainedInv ==
  \A b \in block \ {Genesis} :
    (\A c \in block : HeightOf(c) < Height[b] + num_retain_data_blocks) =>
      \E s \in Synchronizers : ~HasBucket(bucket, s, b) /\ Data(s, b) = Content[b]

BlockSyncInv ==
  /\ BlockSyncTypeOK
  /\ \A s \in Synchronizers, b \in Blocks : RowInv(bucket[s][b], block_chunk[s][b], b)
  /\ \A b \in Blocks : PassedInv(b)
  /\ MinerComesFirst
  /\ ConsensusInv
  /\ ChunksHaveOwners
  /\ RetainedInv
=============================================================================
