-------------------------- MODULE BlockSyncProofs --------------------------
(***************************************************************************)
(* What the specification of BlockSync implies for every value of the      *)
(* constants, and its proof.  BlockSyncInv is inductive: the lemmas first  *)
(* say what a chunk adds to the data of a bucket and what a batch adds to  *)
(* its verification, then what each action writes, and last that what it   *)
(* writes leaves the other buckets, the file of verifications and the data *)
(* of the stored blocks as the invariant has them.                         *)
(***************************************************************************)
EXTENDS BlockSync, FoldTheorems, SequenceTheorems

\* The lengths of the chunks of a bucket, by chunk_id.
ChunkLengths(chunks) == [id \in DOMAIN chunks |-> Len(chunks[id])]

\* A chunk is not empty and there are finitely many of a bucket.
LEMMA ChunkFacts ==
  ASSUME NEW chunks \in ChunkTables
  PROVE  /\ IsFiniteSet(DOMAIN chunks)
         /\ DOMAIN chunks \in SUBSET ChunkIds /\ DOMAIN chunks \in SUBSET Nat
         /\ \A id \in DOMAIN chunks : /\ chunks[id] \in Chunks
                                      /\ chunks[id] \in Seq(Units) /\ Len(chunks[id]) \in Nat \ {0}
<1>1. PICK ids \in SUBSET ChunkIds : chunks \in [ids -> Chunks]
  BY DEF ChunkTables
<1>2. ids = DOMAIN chunks /\ ids \in SUBSET (0..255) /\ \A id \in ids : chunks[id] \in Chunks
  BY <1>1, BlockSyncAssumption
<1>3. IsFiniteSet(ids)
  <2>1. IsFiniteSet(0..255)
    BY FS_Interval, 0 \in Int, 255 \in Int
  <2> QED
    BY ONLY <1>2, <2>1, FS_Subset
<1>4. \A data \in Chunks : data \in Seq(Units) /\ Len(data) \in Nat \ {0}
  BY BlockSyncAssumption, EmptySeq
<1>5. ids \in SUBSET ChunkIds /\ ids \in SUBSET Nat
  BY <1>2
<1> QED
  BY ONLY <1>2, <1>3, <1>4, <1>5

\* The recursive function that Flattened defines exists.
LEMMA FlattenedIsFold ==
  ASSUME NEW chunks \in ChunkTables
  PROVE  \E data :
           /\ data[{}] = << >>
           /\ \A ids \in SUBSET DOMAIN chunks : ids # {} =>
                data[ids] = data[ids \ {Max(ids)}] \o chunks[Max(ids)]
           /\ Flattened(chunks) = data[DOMAIN chunks]
<1> DEFINE S == DOMAIN chunks
           Is(data) == data = [ids \in SUBSET S |->
             IF ids = {} THEN << >> ELSE data[ids \ {Max(ids)}] \o chunks[Max(ids)]]
           data == CHOOSE d : Is(d)
           pick == [ids \in SUBSET S |-> Max(ids)]
           step == [p \in S \X Seq(Units) |-> p[2] \o chunks[p[1]]]
<1>1. Flattened(chunks) = data[S]
  BY DEF Flattened
<1>2. IsFiniteSet(S) /\ \A ids \in SUBSET S : ids # {} => Max(ids) \in ids
  <2>1. S \in SUBSET (0..255) /\ IsFiniteSet(S)
    BY ChunkFacts, BlockSyncAssumption
  <2> HIDE DEF S
  <2>2. \A ids \in SUBSET S : ids # {} => Max(ids) \in ids
    BY ONLY <2>1, 255 \in Nat, MaxIsGreatest
  <2> QED
    BY <2>1, <2>2
<1>3. << >> \in Seq(Units)
  OBVIOUS
<1>4. step \in [S \X Seq(Units) -> Seq(Units)]
  <2>1. \A id \in S : chunks[id] \in Seq(Units)
    BY ChunkFacts
  <2> HIDE DEF S
  <2> QED
    BY <2>1, ConcatProperties
<1>5. PICK f \in [SUBSET S -> Seq(Units)] : IsFold(f, S, << >>, pick, step)
  <2>1. \A s \in SUBSET S : s # {} => pick[s] \in s
    BY <1>2
  <2> HIDE DEF S, pick, step
  <2> QED
    BY <1>2, <1>3, <1>4, <2>1, FoldExists
<1>6. \A ids \in SUBSET S : ids # {} =>
        /\ step[<<pick[ids], f[ids \ {pick[ids]}]>>] = f[ids \ {Max(ids)}] \o chunks[Max(ids)]
  <2> SUFFICES ASSUME NEW ids \in SUBSET S, ids # {}
               PROVE  step[<<pick[ids], f[ids \ {pick[ids]}]>>] = f[ids \ {Max(ids)}] \o chunks[Max(ids)]
    OBVIOUS
  <2>1. pick[ids] = Max(ids) /\ Max(ids) \in S /\ f[ids \ {Max(ids)}] \in Seq(Units)
    BY <1>2, <1>5
  <2> HIDE DEF S, pick
  <2> QED
    BY <2>1
<1>7. Is(f)
  <2> HIDE DEF S, pick, step
  <2> QED
    BY <1>5, <1>6 DEF IsFold
<1>8. Is(data)
  <2> HIDE DEF Is
  <2> QED
    BY <1>7
<1>9. data = [ids \in SUBSET S |->
         IF ids = {} THEN << >> ELSE data[ids \ {Max(ids)}] \o chunks[Max(ids)]]
  BY <1>8
<1> HIDE DEF data
<1> QED
  BY <1>1, <1>9

\* Flattened takes every chunk once: the data is as long as they are together.
LEMMA FlattenedLength ==
  ASSUME NEW chunks \in ChunkTables
  PROVE  /\ Flattened(chunks) \in Seq(Units)
         /\ Len(Flattened(chunks)) = SumFunctionOnSet(ChunkLengths(chunks), DOMAIN chunks)
<1> DEFINE S == DOMAIN chunks
           f == ChunkLengths(chunks)
<1>1. PICK data :
        /\ data[{}] = << >>
        /\ \A ids \in SUBSET S : ids # {} =>
             data[ids] = data[ids \ {Max(ids)}] \o chunks[Max(ids)]
        /\ Flattened(chunks) = data[S]
  BY FlattenedIsFold
<1> DEFINE P == {n \in Nat : \A ids \in SUBSET S : Cardinality(ids) = n =>
                   data[ids] \in Seq(Units) /\ Len(data[ids]) = SumFunctionOnSet(f, ids)}
<1>2. IsFiniteSet(S) /\ S \in SUBSET (0..255)
      /\ \A id \in S : chunks[id] \in Seq(Units) /\ f[id] = Len(chunks[id]) /\ f[id] \in Nat
  BY ChunkFacts, BlockSyncAssumption DEF ChunkLengths
<1> HIDE DEF S, f
<1>3. \A ids \in SUBSET S : IsFiniteSet(ids) /\ Cardinality(ids) \in Nat
  BY <1>2, FS_Subset, FS_CardinalityType
<1>4. 0 \in P
  <2> SUFFICES ASSUME NEW ids \in SUBSET S, Cardinality(ids) = 0
               PROVE  data[ids] \in Seq(Units) /\ Len(data[ids]) = SumFunctionOnSet(f, ids)
    OBVIOUS
  <2>1. ids = {}
    BY <1>3, FS_EmptySet
  <2> QED
    BY <1>1, <2>1, SumEmpty, EmptySeq
<1>5. ASSUME NEW n \in P PROVE n + 1 \in P
  <2> SUFFICES ASSUME NEW ids \in SUBSET S, Cardinality(ids) = n + 1
               PROVE  data[ids] \in Seq(Units) /\ Len(data[ids]) = SumFunctionOnSet(f, ids)
    OBVIOUS
  <2>1. ids # {}
    <3>1. n + 1 # 0
      OBVIOUS
    <3> QED
      BY <3>1, FS_EmptySet
  <2>2. PICK m \in ids : m = Max(ids)
    <3>1. ids \in SUBSET (0..255)
      BY <1>2
    <3>2. Max(ids) \in ids
      BY ONLY <2>1, <3>1, 255 \in Nat, MaxIsGreatest
    <3> QED
      BY <3>2
  <2>3. Cardinality(ids \ {m}) = n
    BY <1>3, FS_RemoveElement
  <2>4. data[ids \ {m}] \in Seq(Units) /\ Len(data[ids \ {m}]) = SumFunctionOnSet(f, ids \ {m})
    BY <2>3
  <2>5. SumFunctionOnSet(f, ids) = f[m] + SumFunctionOnSet(f, ids \ {m})
    <3>1. IsFiniteSet(ids) /\ \A x \in ids : f[x] \in Int
      BY <1>2, <1>3
    <3> QED
      BY ONLY <3>1, m \in ids, SumRemove
  <2>6. data[ids] = data[ids \ {m}] \o chunks[m]
    BY <1>1, <2>1, <2>2
  <2>7. chunks[m] \in Seq(Units) /\ Len(chunks[m]) = f[m] /\ f[m] \in Nat
    BY <1>2
  <2>8. /\ data[ids \ {m}] \o chunks[m] \in Seq(Units)
        /\ Len(data[ids \ {m}] \o chunks[m]) = Len(data[ids \ {m}]) + Len(chunks[m])
    BY ONLY <2>4, <2>7, ConcatProperties
  <2>9. Len(data[ids \ {m}]) \in Nat
    BY <2>4, LenProperties
  <2> QED
    BY ONLY <2>4, <2>5, <2>6, <2>7, <2>8, <2>9
<1>6. P = Nat
  <2>1. P \in SUBSET Nat
    OBVIOUS
  <2> HIDE DEF P
  <2> QED
    BY <1>4, <1>5, <2>1, SetOfNaturals
<1> QED
  BY <1>1, <1>3, <1>6 DEF S, f

\* A chunk that is stored counts with its length in place of the one it replaces.
LEMMA PutLength ==
  ASSUME NEW chunks \in ChunkTables, NEW id \in ChunkIds, NEW data \in Chunks
  PROVE  /\ Put(chunks, id, data) \in ChunkTables
         /\ Len(Flattened(Put(chunks, id, data))) =
              Len(Flattened(chunks)) + Len(data) - (IF id \in DOMAIN chunks THEN Len(chunks[id]) ELSE 0)
         /\ Cardinality(DOMAIN Put(chunks, id, data)) =
              Cardinality(DOMAIN chunks) + (IF id \in DOMAIN chunks THEN 0 ELSE 1)
<1> DEFINE S == DOMAIN chunks
           put == Put(chunks, id, data)
           T == DOMAIN put
           f == ChunkLengths(chunks)
           g == ChunkLengths(put)
<1>1. T = S \cup {id} /\ put = [x \in T |-> IF x = id THEN data ELSE chunks[x]]
  BY DEF Put
<1>2. IsFiniteSet(S) /\ S \in SUBSET ChunkIds
      /\ \A x \in S : chunks[x] \in Chunks /\ Len(chunks[x]) \in Nat
  BY ChunkFacts
<1>3. put \in ChunkTables
  <2>1. T \in SUBSET ChunkIds /\ put \in [T -> Chunks]
    <3> HIDE DEF S, T, put
    <3> QED
      BY <1>1, <1>2
  <2> HIDE DEF T, put
  <2> QED
    BY <2>1 DEF ChunkTables
<1>4. Len(data) \in Nat
  BY BlockSyncAssumption
<1>5. /\ \A x \in S : f[x] = Len(chunks[x]) /\ f[x] \in Nat
      /\ \A x \in T : g[x] = IF x = id THEN Len(data) ELSE Len(chunks[x])
  <2> HIDE DEF S, T, put
  <2> QED
    BY <1>1, <1>2 DEF ChunkLengths, S, T
<1>6. /\ Len(Flattened(chunks)) = SumFunctionOnSet(f, S)
      /\ Len(Flattened(put)) = SumFunctionOnSet(g, T)
  <2> HIDE DEF put
  <2> QED
    BY <1>3, FlattenedLength
<1> HIDE DEF S, T, put, f, g
<1>7. CASE id \in S
  <2>1. T = S
    BY <1>1, <1>7
  <2>2. SumFunctionOnSet(g, S) = SumFunctionOnSet(f, S) - f[id] + g[id]
    <3>1. g[id] \in Int /\ \A y \in S : f[y] \in Int
      BY <1>4, <1>5, <1>7, <2>1
    <3>2. \A y \in S \ {id} : g[y] = f[y]
      BY <1>5, <2>1
    <3> QED
      BY ONLY <1>2, <1>7, <3>1, <3>2, SumUpdate
  <2>3. SumFunctionOnSet(f, S) \in Int
    BY <1>2, <1>5, SumType
  <2>4. Cardinality(S) \in Nat
    BY <1>2, FS_CardinalityType
  <2>5. f[id] = Len(chunks[id]) /\ f[id] \in Nat /\ g[id] = Len(data)
    BY <1>5, <1>7, <2>1
  <2>6. Len(Flattened(put)) = Len(Flattened(chunks)) + Len(data) - Len(chunks[id])
    <3>1. Len(Flattened(put)) = SumFunctionOnSet(g, S)
      BY ONLY <1>6, <2>1
    <3> QED
      BY ONLY <1>4, <1>6, <2>2, <2>3, <2>5, <3>1
  <2> QED
    BY <1>3, <1>7, <2>1, <2>4, <2>6 DEF S, T, put
<1>8. CASE id \notin S
  <2>1. SumFunctionOnSet(g, S) = SumFunctionOnSet(f, S)
    <3>1. \A x \in S : f[x] \in Int /\ g[x] = f[x]
      BY <1>1, <1>5, <1>8
    <3> QED
      BY ONLY <1>2, <3>1, SumEqual
  <2>2. SumFunctionOnSet(g, T) = SumFunctionOnSet(g, S) + g[id] /\ g[id] = Len(data)
    <3>1. \A x \in S \cup {id} : g[x] \in Int
      BY <1>1, <1>2, <1>4, <1>5
    <3>2. SumFunctionOnSet(g, S \cup {id}) = SumFunctionOnSet(g, S) + g[id]
      BY ONLY <1>2, <1>8, <3>1, SumInsert
    <3>3. g[id] = Len(data)
      BY <1>1, <1>5
    <3> QED
      BY <1>1, <3>2, <3>3
  <2>3. SumFunctionOnSet(f, S) \in Int
    BY <1>2, <1>5, SumType
  <2>4. Cardinality(T) = Cardinality(S) + 1
    BY <1>1, <1>2, <1>8, FS_AddElement
  <2>5. Len(Flattened(put)) = Len(Flattened(chunks)) + Len(data) - 0
    BY ONLY <1>4, <1>6, <2>1, <2>2, <2>3
  <2> QED
    BY <1>3, <1>8, <2>4, <2>5 DEF S, T, put
<1> QED
  BY <1>7, <1>8 DEF S

\* A chunk that is deleted takes its length away.
LEMMA RestrictLength ==
  ASSUME NEW chunks \in ChunkTables, NEW id \in DOMAIN chunks
  PROVE  LET rest == Restrict(chunks, DOMAIN chunks \ {id}) IN
         /\ rest \in ChunkTables
         /\ Len(Flattened(rest)) = Len(Flattened(chunks)) - Len(chunks[id])
         /\ Cardinality(DOMAIN rest) = Cardinality(DOMAIN chunks) - 1
<1> DEFINE S == DOMAIN chunks
           rest == Restrict(chunks, S \ {id})
           f == ChunkLengths(chunks)
           g == ChunkLengths(rest)
<1>1. DOMAIN rest = S \ {id} /\ rest = [x \in S \ {id} |-> chunks[x]]
  BY DEF Restrict
<1>2. IsFiniteSet(S) /\ S \in SUBSET ChunkIds
      /\ \A x \in S : chunks[x] \in Chunks /\ Len(chunks[x]) \in Nat
  BY ChunkFacts
<1>3. rest \in ChunkTables
  <2>1. S \ {id} \in SUBSET ChunkIds /\ rest \in [S \ {id} -> Chunks]
    <3> HIDE DEF S, rest
    <3> QED
      BY <1>1, <1>2
  <2> HIDE DEF S, rest
  <2> QED
    BY <2>1 DEF ChunkTables
<1>5. /\ \A x \in S : f[x] = Len(chunks[x]) /\ f[x] \in Int
      /\ \A x \in S \ {id} : g[x] = f[x]
  <2> HIDE DEF S, rest
  <2> QED
    BY <1>1, <1>2 DEF ChunkLengths, S
<1>6. /\ Len(Flattened(chunks)) = SumFunctionOnSet(f, S)
      /\ Len(Flattened(rest)) = SumFunctionOnSet(g, S \ {id})
  <2> HIDE DEF rest
  <2> QED
    BY <1>1, <1>3, FlattenedLength
<1> HIDE DEF S, rest, f, g
<1>7. id \in S
  BY DEF S
<1>8. IsFiniteSet(S \ {id}) /\ Cardinality(S \ {id}) = Cardinality(S) - 1
  BY <1>2, <1>7, FS_RemoveElement, FS_Subset
<1>9. SumFunctionOnSet(g, S \ {id}) = SumFunctionOnSet(f, S \ {id})
  BY ONLY <1>5, <1>8, SumEqual
<1>10. SumFunctionOnSet(f, S) = f[id] + SumFunctionOnSet(f, S \ {id})
  BY ONLY <1>2, <1>5, <1>7, SumRemove
<1>11. SumFunctionOnSet(f, S \ {id}) \in Int
  BY ONLY <1>5, <1>8, SumType
<1>12. f[id] = Len(chunks[id]) /\ f[id] \in Int
  BY <1>5, <1>7
<1>13. Len(Flattened(rest)) = Len(Flattened(chunks)) - Len(chunks[id])
  BY ONLY <1>6, <1>9, <1>10, <1>11, <1>12
<1> QED
  BY <1>1, <1>3, <1>8, <1>13 DEF S, rest

-----------------------------------------------------------------------------
\* What the type invariant says of a bucket and its chunks.
LEMMA RowTypes ==
  ASSUME BlockSyncTypeOK, NEW s \in Synchronizers, NEW b \in Blocks
  PROVE  /\ bucket[s][b] \in BucketType
         /\ block_chunk[s][b] \in ChunkTables
         /\ Data(s, b) \in Seq(Units) /\ Len(Data(s, b)) \in Nat
         /\ Cardinality(DOMAIN block_chunk[s][b]) \in Nat
<1>1. bucket[s][b] \in BucketType
  BY DEF BlockSyncTypeOK
<1>2. block_chunk[s][b] \in ChunkTables
  BY DEF BlockSyncTypeOK
<1>3. Data(s, b) \in Seq(Units)
  BY <1>2, FlattenedLength DEF Data
<1>4. Cardinality(DOMAIN block_chunk[s][b]) \in Nat
  BY <1>2, ChunkFacts, FS_CardinalityType
<1> QED
  BY <1>1, <1>2, <1>3, <1>4

\* The bucket of s for b becomes `row` with the chunks `chunks`: what a step
\* has to establish for it.
RowWritten(s, b, row, chunks) ==
  /\ row \in BucketType /\ chunks \in ChunkTables
  /\ bucket' = [bucket EXCEPT ![s][b] = row]
  /\ block_chunk' = [block_chunk EXCEPT ![s][b] = chunks]
  /\ RowInv(row, chunks, b)
  /\ row.status = "none" => chunks = NoChunks
  /\ HasBucket(bucket, s, b) \/ ~check_consensus(b)
  /\ chunks = block_chunk[s][b] \/ HasBucket(bucket, s, b)

\* The chunks of no bucket: none, while the block can be uploaded.
LEMMA NoBucketNoChunks ==
  ASSUME BlockSyncInv, NEW s \in Synchronizers, NEW b \in Blocks,
         ~HasBucket(bucket, s, b), ~check_consensus(b)
  PROVE  block_chunk[s][b] = NoChunks
<1>1. b \notin consensus_block /\ b \notin block
  BY SyncAssumption DEF check_consensus, HeightOf
<1>2. uploader[b] = NoAccount
  BY <1>1 DEF BlockSyncInv, ConsensusInv
<1> QED
  BY <1>1, <1>2, SyncAssumption DEF BlockSyncInv, ChunksHaveOwners

\* Nothing flattens to nothing.
LEMMA NoChunksFacts ==
  /\ NoChunks \in ChunkTables /\ DOMAIN NoChunks = {}
  /\ Len(Flattened(NoChunks)) = 0 /\ Cardinality(DOMAIN NoChunks) = 0
<1>1. DOMAIN NoChunks = {} /\ NoChunks \in [{} -> Chunks]
  BY DEF NoChunks
<1>2. NoChunks \in ChunkTables
  BY <1>1 DEF ChunkTables
<1>3. Len(Flattened(NoChunks)) = SumFunctionOnSet(ChunkLengths(NoChunks), {})
  BY <1>1, <1>2, FlattenedLength
<1> QED
  BY <1>1, <1>2, <1>3, SumEmpty, FS_EmptySet

\* A step that leaves the chunks alone writes them again.
LEMMA ChunksKept ==
  ASSUME BlockSyncTypeOK, UNCHANGED block_chunk, NEW s \in Synchronizers, NEW b \in Blocks
  PROVE  block_chunk' = [block_chunk EXCEPT ![s][b] = block_chunk[s][b]]
BY DEF BlockSyncTypeOK

\* initbucket changes a row that is not verified yet, and keeps its chunks.
LEMMA InitBucketWrites ==
  ASSUME BlockSyncInv, NEW s \in Synchronizers, NEW b \in Blocks,
         NEW size \in Sizes, NEW n \in NumsChunks, InitBucket(s, b, size, n)
  PROVE  \E row, chunks : RowWritten(s, b, row, chunks) /\ bucket[s][b].status \notin
                            {"verify_pass", "waiting_miner_verification"}
<1> DEFINE old == bucket[s][b]
           row == Initialized(old, size, n)
           chunks == block_chunk[s][b]
<1>1. old \in BucketType /\ chunks \in ChunkTables /\ RowInv(old, chunks, b)
  BY RowTypes DEF BlockSyncInv
<1>2. size \in Nat \ {0} /\ n \in Nat
  BY BlockSyncAssumption
<1>3. old.status \in {"none", "uploading", "verify_fail"} /\ ~check_consensus(b)
  BY DEF InitBucket, HasBucket
<1>4. row \in BucketType /\ row.status = "uploading" /\ row.size = size
      /\ row.uploaded_size = old.uploaded_size /\ row.verify_info = old.verify_info
      /\ row.uploaded_num_chunks = old.uploaded_num_chunks
  BY <1>1, <1>2 DEF Initialized, BucketType, Uploads
<1>5. bucket' = [bucket EXCEPT ![s][b] = row]
  BY DEF InitBucket
<1>6. block_chunk' = [block_chunk EXCEPT ![s][b] = chunks]
  BY ChunksKept DEF InitBucket, BlockSyncInv
<1> HIDE DEF row, old, chunks
<1>7. /\ old.uploaded_size = Len(Flattened(chunks))
      /\ old.uploaded_num_chunks = Cardinality(DOMAIN chunks)
      /\ old.verify_info = NoInfo
  <2>1. CASE old.status = "none"
    <3>1. chunks = NoChunks
      BY <1>3, <2>1, NoBucketNoChunks DEF HasBucket, old, chunks
    <3>2. old = NoBucket
      BY <1>1, <2>1 DEF RowInv
    <3> QED
      BY <3>1, <3>2, NoChunksFacts DEF NoBucket
  <2>2. CASE old.status # "none"
    BY <1>1, <1>3, <2>2 DEF RowInv, VerifiedInv, Uploads
  <2> QED
    BY <2>1, <2>2
<1>8. RowInv(row, chunks, b)
  BY <1>2, <1>4, <1>7 DEF RowInv, VerifiedInv, in_verifiable
<1>9. RowWritten(s, b, row, chunks)
  BY <1>1, <1>3, <1>4, <1>5, <1>6, <1>8 DEF RowWritten, chunks
<1> QED
  BY <1>3, <1>9 DEF old

\* The row of a bucket whose chunks were changed.
LEMMA FilledRow ==
  ASSUME NEW old \in BucketType, NEW b \in Blocks, NEW chunks \in ChunkTables,
         old.size > 0, old.verify_info = NoInfo, NEW row,
         row = Filled([old EXCEPT !.uploaded_num_chunks = Cardinality(DOMAIN chunks),
                                  !.uploaded_size = Len(Flattened(chunks))])
  PROVE  row \in BucketType /\ row.status # "none" /\ RowInv(row, chunks, b)
<1>1. Cardinality(DOMAIN chunks) \in Nat /\ Len(Flattened(chunks)) \in Nat
  BY ChunkFacts, FS_CardinalityType, FlattenedLength, LenProperties
<1>2. PICK n, l : n = Cardinality(DOMAIN chunks) /\ l = Len(Flattened(chunks))
  OBVIOUS
<1>3. row \in BucketType
  BY <1>1, <1>2 DEF Filled, BucketType, Uploads, in_verifiable
<1>4. /\ row.size = old.size /\ row.num_chunks = old.num_chunks /\ row.verify_info = NoInfo
      /\ row.uploaded_size = l /\ row.uploaded_num_chunks = n
      /\ row.status = IF l = old.size /\ n = old.num_chunks THEN "upload_complete" ELSE "uploading"
  BY <1>1, <1>2 DEF Filled, BucketType
<1>5. RowInv(row, chunks, b)
  BY <1>2, <1>4 DEF RowInv, VerifiedInv, in_verifiable
<1> QED
  BY <1>3, <1>4, <1>5

\* A bucket that may be changed has no verification to be continued.
LEMMA UploadRow ==
  ASSUME BlockSyncInv, NEW s \in Synchronizers, NEW b \in Blocks,
         bucket[s][b].status \in Uploads
  PROVE  /\ bucket[s][b].size > 0 /\ bucket[s][b].verify_info = NoInfo
         /\ bucket[s][b].uploaded_size = Len(Flattened(block_chunk[s][b]))
         /\ bucket[s][b].uploaded_num_chunks = Cardinality(DOMAIN block_chunk[s][b])
         /\ HasBucket(bucket, s, b)
         /\ bucket[s][b].status \notin {"verify_pass", "waiting_miner_verification"}
BY DEF BlockSyncInv, RowInv, VerifiedInv, Uploads, HasBucket

\* pushchunk adds or replaces a chunk, and counts it in the row.
LEMMA PushChunkWrites ==
  ASSUME BlockSyncInv, NEW s \in Synchronizers, NEW b \in Blocks,
         NEW id \in ChunkIds, NEW data \in Chunks, PushChunk(s, b, id, data)
  PROVE  \E row, chunks : RowWritten(s, b, row, chunks) /\ bucket[s][b].status \notin
                            {"verify_pass", "waiting_miner_verification"}
<1> DEFINE old == bucket[s][b]
           row == Filled(Pushed(s, b, id, data))
           held == block_chunk[s][b]
           chunks == Put(held, id, data)
<1>1. old \in BucketType /\ held \in ChunkTables
  BY RowTypes DEF BlockSyncInv
<1>2. old.status \in Uploads
  BY DEF PushChunk, MayPush
<1>3. /\ old.size > 0 /\ old.verify_info = NoInfo /\ HasBucket(bucket, s, b)
      /\ old.uploaded_size = Len(Flattened(held))
      /\ old.uploaded_num_chunks = Cardinality(DOMAIN held)
      /\ old.status \notin {"verify_pass", "waiting_miner_verification"}
  BY <1>2, UploadRow
<1>4. bucket' = [bucket EXCEPT ![s][b] = row] /\ block_chunk' = [block_chunk EXCEPT ![s][b] = chunks]
  BY DEF PushChunk
<1>5. /\ chunks \in ChunkTables
      /\ Len(Flattened(chunks)) =
           Len(Flattened(held)) + Len(data) - (IF id \in DOMAIN held THEN Len(held[id]) ELSE 0)
      /\ Cardinality(DOMAIN chunks) = Cardinality(DOMAIN held) + (IF id \in DOMAIN held THEN 0 ELSE 1)
  BY <1>1, PutLength
<1>6. Cardinality(DOMAIN held) \in Nat
  BY <1>1, ChunkFacts, FS_CardinalityType
<1>7. row = Filled([old EXCEPT !.uploaded_num_chunks = Cardinality(DOMAIN chunks),
                               !.uploaded_size = Len(Flattened(chunks))])
  <2> DEFINE num == IF id \in DOMAIN held THEN old.uploaded_num_chunks ELSE old.uploaded_num_chunks + 1
             size == old.uploaded_size + Len(data) - ChunkSize(s, b, id)
  <2>1. Pushed(s, b, id, data) = [old EXCEPT !.uploaded_num_chunks = num, !.uploaded_size = size]
    BY <1>1 DEF Pushed, BucketType
  <2>2. num = Cardinality(DOMAIN chunks)
    BY <1>3, <1>5, <1>6
  <2>3. size = Len(Flattened(chunks))
    BY <1>3, <1>5 DEF ChunkSize
  <2> HIDE DEF num, size, chunks, old
  <2> QED
    BY <2>1, <2>2, <2>3
<1> HIDE DEF row, old, held, chunks
<1>8. row \in BucketType /\ row.status # "none" /\ RowInv(row, chunks, b)
  BY <1>1, <1>3, <1>5, <1>7, FilledRow
<1>9. RowWritten(s, b, row, chunks)
  BY <1>3, <1>4, <1>5, <1>8 DEF RowWritten
<1> QED
  BY <1>3, <1>9 DEF old

\* delchunk takes a chunk away, and out of the row.
LEMMA DelChunkWrites ==
  ASSUME BlockSyncInv, NEW s \in Synchronizers, NEW b \in Blocks,
         NEW id \in ChunkIds, DelChunk(s, b, id)
  PROVE  \E row, chunks : RowWritten(s, b, row, chunks) /\ bucket[s][b].status \notin
                            {"verify_pass", "waiting_miner_verification"}
<1> DEFINE old == bucket[s][b]
           held == block_chunk[s][b]
           row == Filled(Deleted(s, b, id))
           chunks == Restrict(held, DOMAIN held \ {id})
<1>1. old \in BucketType /\ held \in ChunkTables
  BY RowTypes DEF BlockSyncInv
<1>2. old.status \in Uploads /\ id \in DOMAIN held
  BY DEF DelChunk, MayDelete
<1>3. /\ old.size > 0 /\ old.verify_info = NoInfo /\ HasBucket(bucket, s, b)
      /\ old.uploaded_size = Len(Flattened(held))
      /\ old.uploaded_num_chunks = Cardinality(DOMAIN held)
      /\ old.status \notin {"verify_pass", "waiting_miner_verification"}
  BY <1>2, UploadRow
<1>4. bucket' = [bucket EXCEPT ![s][b] = row] /\ block_chunk' = [block_chunk EXCEPT ![s][b] = chunks]
  BY DEF DelChunk
<1>5. /\ chunks \in ChunkTables
      /\ Len(Flattened(chunks)) = Len(Flattened(held)) - Len(held[id])
      /\ Cardinality(DOMAIN chunks) = Cardinality(DOMAIN held) - 1
  BY <1>1, <1>2, RestrictLength
<1>6. ChunkSize(s, b, id) = Len(held[id])
  BY <1>2 DEF ChunkSize
<1>7. row = Filled([old EXCEPT !.uploaded_num_chunks = Cardinality(DOMAIN chunks),
                               !.uploaded_size = Len(Flattened(chunks))])
  <2> DEFINE num == old.uploaded_num_chunks - 1
             size == old.uploaded_size - ChunkSize(s, b, id)
  <2>1. row = Filled([old EXCEPT !.uploaded_num_chunks = num, !.uploaded_size = size])
    BY DEF Deleted
  <2>2. num = Cardinality(DOMAIN chunks) /\ size = Len(Flattened(chunks))
    BY <1>3, <1>5, <1>6
  <2> HIDE DEF num, size, chunks, old, row
  <2> QED
    BY <2>1, <2>2
<1> HIDE DEF row, old, held, chunks
<1>8. row \in BucketType /\ row.status # "none" /\ RowInv(row, chunks, b)
  BY <1>1, <1>3, <1>5, <1>7, FilledRow
<1>9. RowWritten(s, b, row, chunks)
  BY <1>3, <1>4, <1>5, <1>8 DEF RowWritten
<1> QED
  BY <1>3, <1>9 DEF old

\* A bucket that fails keeps its chunks.
LEMMA FailedWrites ==
  ASSUME BlockSyncInv, NEW s \in Synchronizers, NEW b \in Blocks, HasBucket(bucket, s, b),
         bucket' = [bucket EXCEPT ![s][b] = Failed(@)], UNCHANGED block_chunk
  PROVE  \E row, chunks : RowWritten(s, b, row, chunks)
<1> DEFINE old == bucket[s][b]
           row == Failed(old)
           chunks == block_chunk[s][b]
<1>1. old \in BucketType /\ chunks \in ChunkTables /\ RowInv(old, chunks, b)
  BY RowTypes DEF BlockSyncInv
<1>2. NoInfo \in InfoType
  BY DEF NoInfo, InfoType
<1>3. /\ row \in BucketType /\ row.status = "verify_fail" /\ row.verify_info = NoInfo
      /\ row.size = old.size /\ row.num_chunks = old.num_chunks
      /\ row.uploaded_size = old.uploaded_size /\ row.uploaded_num_chunks = old.uploaded_num_chunks
  BY <1>1, <1>2 DEF Failed, BucketType, Uploads
<1>4. old.status # "none"
  BY DEF HasBucket
<1>5. bucket' = [bucket EXCEPT ![s][b] = row] /\ block_chunk' = [block_chunk EXCEPT ![s][b] = chunks]
  BY ChunksKept DEF BlockSyncInv
<1> HIDE DEF row, old, chunks
<1>6. RowInv(row, chunks, b)
  BY <1>1, <1>3, <1>4 DEF RowInv, VerifiedInv, in_verifiable
<1> QED
  BY <1>1, <1>3, <1>5, <1>6 DEF RowWritten, chunks

\* A bucket whose data is the block may be marked.
LEMMA MarkedRow ==
  ASSUME BlockSyncInv, NEW s \in Synchronizers, NEW b \in Blocks,
         bucket[s][b].status \in {"verify_parent_hash", "waiting_miner_verification", "verify_pass"},
         NEW mark \in {"waiting_miner_verification", "verify_pass"},
         NEW row, row = [bucket[s][b] EXCEPT !.status = mark]
  PROVE  /\ row \in BucketType /\ row.status = mark
         /\ RowInv(row, block_chunk[s][b], b) /\ HasBucket(bucket, s, b)
<1> DEFINE old == bucket[s][b]
           chunks == block_chunk[s][b]
<1>1. old \in BucketType /\ chunks \in ChunkTables /\ RowInv(old, chunks, b)
  BY RowTypes DEF BlockSyncInv
<1>2. /\ row \in BucketType /\ row.status = mark /\ row.verify_info = old.verify_info
      /\ row.size = old.size /\ row.num_chunks = old.num_chunks
      /\ row.uploaded_size = old.uploaded_size /\ row.uploaded_num_chunks = old.uploaded_num_chunks
  BY <1>1 DEF BucketType, in_verifiable
<1>3. HasBucket(bucket, s, b) /\ old.status \in in_verifiable \cup {"verify_pass"}
  BY DEF HasBucket, in_verifiable
<1>4. old.status \in {"verify_parent_hash", "waiting_miner_verification", "verify_pass"}
  OBVIOUS
<1> HIDE DEF old, chunks
<1>5. RowInv(row, chunks, b)
  BY <1>1, <1>2, <1>3, <1>4 DEF RowInv, VerifiedInv, Uploads
<1> QED
  BY <1>2, <1>3, <1>5 DEF chunks

\* A row whose data is the block stays so under its new status.
LEMMA MarkedWrites ==
  ASSUME BlockSyncInv, NEW s \in Synchronizers, NEW b \in Blocks,
         bucket[s][b].status \in {"verify_parent_hash", "waiting_miner_verification", "verify_pass"},
         NEW mark \in {"waiting_miner_verification", "verify_pass"},
         bucket' = [bucket EXCEPT ![s][b].status = mark], UNCHANGED block_chunk
  PROVE  \E row, chunks : RowWritten(s, b, row, chunks) /\ row.status = mark
<1> DEFINE row == [bucket[s][b] EXCEPT !.status = mark]
           chunks == block_chunk[s][b]
<1>1. bucket' = [bucket EXCEPT ![s][b] = row] /\ block_chunk' = [block_chunk EXCEPT ![s][b] = chunks]
  BY ChunksKept DEF BlockSyncInv
<1>2. row \in BucketType /\ row.status = mark /\ RowInv(row, chunks, b) /\ HasBucket(bucket, s, b)
  BY MarkedRow
<1>3. chunks \in ChunkTables
  BY RowTypes DEF BlockSyncInv
<1> HIDE DEF row, chunks
<1>4. RowWritten(s, b, row, chunks)
  BY <1>1, <1>2, <1>3 DEF RowWritten, chunks
<1> QED
  BY <1>2, <1>4

\* delbucket leaves neither a row nor a chunk.
LEMMA DelBucketWrites ==
  ASSUME BlockSyncInv, NEW s \in Synchronizers, NEW b \in Blocks, DelBucket(s, b)
  PROVE  RowWritten(s, b, NoBucket, NoChunks)
<1>1. NoBucket \in BucketType
  BY DEF NoBucket, BucketType, NoInfo, InfoType, Uploads
<1>2. RowInv(NoBucket, NoChunks, b)
  BY DEF RowInv, NoBucket
<1> QED
  BY <1>1, <1>2, NoChunksFacts DEF DelBucket, RowWritten

\* A batch continues the prefix that was verified.
LEMMA BatchContinues ==
  ASSUME NEW d \in Seq(Units), NEW n \in Nat, NEW rows \in Nat \ {0}, 1 + n + rows <= Len(d),
         NEW relay \in Seq(Units), relay = SubSeq(d, 2, 1 + n)
  PROVE  /\ relay \o SubSeq(d, 1 + n + 1, 1 + n + rows) = SubSeq(d, 2, 1 + n + rows)
         /\ SubSeq(d, 2, 1 + n + rows) \in Seq(Units)
         /\ Len(SubSeq(d, 2, 1 + n + rows)) = n + rows
<1>1. Len(d) \in Nat /\ \A i \in 1..Len(d) : d[i] \in Units
  BY LenProperties, ElementOfSeq
<1>2. /\ 2 \in 1..(Len(d) + 1) /\ 1 + n \in (2 - 1)..Len(d) /\ 1 + n + rows \in (1 + n)..Len(d)
  BY <1>1
<1>3. relay \o SubSeq(d, 1 + n + 1, 1 + n + rows) = SubSeq(d, 2, 1 + n + rows)
  BY ONLY <1>2, d \in Seq(Units), relay = SubSeq(d, 2, 1 + n), ConcatAdjacentSubSeq
<1>4. \A i \in 2..(1 + n + rows) : d[i] \in Units
  BY <1>1
<1>5. 2 \in Int /\ 1 + n + rows \in Int /\ 2 <= 1 + n + rows
  BY <1>1
<1>6. /\ SubSeq(d, 2, 1 + n + rows) \in Seq(Units)
      /\ Len(SubSeq(d, 2, 1 + n + rows)) = 1 + n + rows - 2 + 1
  <2>1. PICK m \in Int : m = 1 + n + rows
    BY <1>5
  <2>2. /\ SubSeq(d, 2, m) \in Seq(Units)
        /\ Len(SubSeq(d, 2, m)) = IF 2 <= m THEN m - 2 + 1 ELSE 0
    BY ONLY <1>4, <1>5, <2>1, SubSeqProperties
  <2> QED
    BY ONLY <1>5, <2>1, <2>2
<1> QED
  BY <1>3, <1>6

\* Data with the header of b, its number of transactions and those of b is the
\* data of b.
LEMMA DataIsTheBlock ==
  ASSUME NEW b \in Blocks, NEW d \in Seq(Units), Len(d) > 1, HeaderOf[d[1]] = b,
         num_transactions[d[1]] = Len(d) - 1, Tail(d) = Tail(Content[b])
  PROVE  d = Content[b]
<1> DEFINE c == Content[b]
<1>1. c \in Seq(Units) /\ Len(c) > 1 /\ HeaderOf[c[1]] = b /\ num_transactions[c[1]] = Len(c) - 1
      /\ b # NoHeader
  BY BlockSyncAssumption
<1>2. Len(c) \in Nat /\ Len(d) \in Nat /\ c # << >> /\ d # << >>
  BY <1>1, LenProperties, EmptySeq
<1>3. Len(Tail(d)) = Len(d) - 1 /\ \A i \in 1..Len(Tail(d)) : Tail(d)[i] = d[i + 1]
  BY <1>2, HeadTailProperties
<1>4. Len(Tail(c)) = Len(c) - 1 /\ \A i \in 1..Len(Tail(c)) : Tail(c)[i] = c[i + 1]
  BY <1>1, <1>2, HeadTailProperties
<1>5. Len(d) = Len(c)
  BY <1>2, <1>3, <1>4
<1>6. d[1] \in Units /\ c[1] \in Units
  BY <1>1, <1>2, ElementOfSeq
<1>7. d[1] = c[1]
  BY <1>1, <1>5, <1>6, BlockSyncAssumption
<1>8. \A i \in 1..Len(d) : d[i] = c[i]
  <2> SUFFICES ASSUME NEW i \in 1..Len(d), i # 1 PROVE d[i] = c[i]
    BY <1>7
  <2> HIDE DEF c
  <2>1. i - 1 \in 1..Len(Tail(d)) /\ i - 1 \in 1..Len(Tail(c)) /\ (i - 1) + 1 = i
    BY <1>2, <1>3, <1>4, <1>5
  <2>2. Tail(d)[i - 1] = d[i] /\ Tail(c)[i - 1] = c[i]
    BY <1>3, <1>4, <2>1
  <2> QED
    BY <2>2 DEF c
<1> QED
  BY ONLY <1>1, <1>5, <1>8, d \in Seq(Units), SeqEqual

\* What check_merkle starts from, on the first call and on the others.
LEMMA BatchStart ==
  ASSUME BlockSyncInv, NEW s \in Synchronizers, NEW b \in Blocks,
         bucket[s][b].status \in {"upload_complete", "verify_merkle"},
         bucket[s][b].verify_info.relay = << >> => ~HeaderFails(s, b)
  PROVE  LET d == Data(s, b)
             info == bucket[s][b].verify_info
         IN /\ d \in Seq(Units) /\ Len(d) \in Nat \ {0} /\ bucket[s][b].size = Len(d)
            /\ info.relay \in Seq(Units) /\ Len(info.relay) \in Nat
            /\ HeaderOf[d[1]] = b /\ num_transactions[d[1]] \in Nat
            /\ Len(info.relay) < num_transactions[d[1]] /\ 1 + Len(info.relay) <= Len(d)
            /\ info.relay = SubSeq(d, 2, 1 + Len(info.relay))
            /\ info.relay # << >> => info.num = num_transactions[d[1]]
<1> DEFINE d == Data(s, b)
           row == bucket[s][b]
           info == row.verify_info
<1>1. row \in BucketType /\ d \in Seq(Units) /\ Len(d) \in Nat /\ RowInv(row, block_chunk[s][b], b)
  BY RowTypes DEF BlockSyncInv
<1>2. info \in InfoType /\ row.size \in Nat
  BY <1>1 DEF BucketType
<1>3. info.relay \in Seq(Units) /\ Len(info.relay) \in Nat
  BY <1>2, LenProperties DEF InfoType
<1>4. row.size > 0 /\ row.size = Len(d) /\ VerifiedInv(row, d, b)
  <2>1. row.status # "none" /\ row.status \in in_verifiable
    BY DEF in_verifiable
  <2> QED
    BY <1>1, <2>1 DEF RowInv, Data
<1>5. Len(d) \in Nat \ {0} /\ d[1] \in Units /\ num_transactions[d[1]] \in Nat
  BY <1>1, <1>2, <1>4, ElementOfSeq, BlockSyncAssumption
<1>6. CASE info.relay = << >>
  <2>1. row.status = "upload_complete"
    BY <1>4, <1>6, EmptySeq DEF VerifiedInv
  <2>2. HeaderOf[d[1]] = b /\ num_transactions[d[1]] # 0
    BY <1>6 DEF HeaderFails
  <2>3. SubSeq(d, 2, 1) = << >>
    BY SubSeqEmpty, 2 \in Int, 1 \in Int
  <2>4. Len(info.relay) = 0 /\ 1 + Len(info.relay) = 1
    BY <1>6, EmptySeq
  <2>5. info.relay = SubSeq(d, 2, 1 + Len(info.relay))
    BY <1>6, <2>3, <2>4
  <2> HIDE DEF d, row, info
  <2> QED
    BY <1>1, <1>3, <1>4, <1>5, <1>6, <2>2, <2>4, <2>5 DEF d, row, info
<1>7. CASE info.relay # << >>
  <2>1. row.status = "verify_merkle"
    <3>1. NoInfo.relay = << >>
      BY DEF NoInfo
    <3> QED
      BY <1>4, <1>7, <3>1 DEF VerifiedInv, Uploads
  <2>2. /\ HeaderOf[d[1]] = b /\ info.num = num_transactions[d[1]]
        /\ Len(info.relay) \in 1..(info.num - 1) /\ 1 + Len(info.relay) <= Len(d)
        /\ info.relay = SubSeq(d, 2, 1 + Len(info.relay))
    BY <1>4, <2>1 DEF VerifiedInv
  <2> HIDE DEF d, row, info
  <2>3. Len(info.relay) < num_transactions[d[1]]
    BY ONLY <1>3, <1>5, <2>2
  <2> QED
    BY <1>1, <1>3, <1>4, <1>5, <2>2, <2>3 DEF d, row, info
<1> QED
  BY <1>6, <1>7

\* A batch that does not fail leaves the bucket verified as far as it got, or
\* the data is found to be the block.
LEMMA BatchWrites ==
  ASSUME BlockSyncInv, NEW s \in Synchronizers, NEW b \in Blocks,
         bucket[s][b].status \in {"upload_complete", "verify_merkle"},
         bucket[s][b].verify_info.relay = << >> => ~HeaderFails(s, b),
         BatchReadable(s, b), NEW info, info = NextInfo(s, b), ~BatchFails(s, b, info),
         bucket' = [bucket EXCEPT ![s][b].verify_info = info, ![s][b].status =
                      IF Processed(info) THEN "verify_parent_hash" ELSE "verify_merkle"],
         UNCHANGED block_chunk
  PROVE  \E row, chunks : RowWritten(s, b, row, chunks)
<1> DEFINE d == Data(s, b)
           old == bucket[s][b]
           relay == old.verify_info.relay
           n == Len(relay)
           num == num_transactions[d[1]]
           rows == Min({num_txs_per_verification, num - n})
           mark == IF Processed(info) THEN "verify_parent_hash" ELSE "verify_merkle"
           row == [old EXCEPT !.verify_info = info, !.status = mark]
           chunks == block_chunk[s][b]
<1>1. /\ d \in Seq(Units) /\ Len(d) \in Nat \ {0} /\ old.size = Len(d)
      /\ relay \in Seq(Units) /\ n \in Nat /\ HeaderOf[d[1]] = b /\ num \in Nat
      /\ n < num /\ 1 + n <= Len(d) /\ relay = SubSeq(d, 2, 1 + n)
      /\ relay # << >> => old.verify_info.num = num
  BY BatchStart
<1>2. rows \in Nat \ {0} /\ rows <= num - n
  <2>1. PICK t \in Nat \ {0} : t = num_txs_per_verification
    BY BlockSyncAssumption
  <2> HIDE DEF d, relay, n, num
  <2>2. PICK m \in Nat \ {0} : m = num - n
    BY <1>1
  <2>3. Min({t, m}) = IF t <= m THEN t ELSE m
    BY MinOfTwo
  <2> QED
    BY ONLY <2>1, <2>2, <2>3 DEF rows
<1>3. 1 + n + rows <= Len(d)
  BY <1>1 DEF BatchReadable
<1>4. info = [num |-> num, relay |-> relay \o SubSeq(d, 1 + n + 1, 1 + n + rows)]
  BY <1>1 DEF NextInfo
<1>5. old \in BucketType /\ chunks \in ChunkTables /\ RowInv(old, chunks, b)
  BY RowTypes DEF BlockSyncInv
<1>6. d = Flattened(chunks)
  BY DEF Data
<1>7. bucket' = [bucket EXCEPT ![s][b] = row] /\ block_chunk' = [block_chunk EXCEPT ![s][b] = chunks]
  <2>1. bucket \in [Synchronizers -> [Blocks -> BucketType]]
    BY DEF BlockSyncInv, BlockSyncTypeOK
  <2>2. bucket' = [bucket EXCEPT ![s][b].verify_info = info, ![s][b].status = mark]
    OBVIOUS
  <2>3. block_chunk' = [block_chunk EXCEPT ![s][b] = chunks]
    BY ChunksKept DEF BlockSyncInv
  <2> HIDE DEF mark, chunks
  <2>4. bucket' = [bucket EXCEPT ![s][b] = row]
    BY ONLY <2>1, <2>2, s \in Synchronizers, b \in Blocks
  <2> QED
    BY <2>3, <2>4
<1>8. ~BatchFails(s, b, info) /\ old.status \in {"upload_complete", "verify_merkle"}
  OBVIOUS
<1> HIDE DEF d, relay, n, num, rows, mark, chunks
<1>9. /\ info.relay = SubSeq(d, 2, 1 + n + rows) /\ info.num = num
      /\ info.relay \in Seq(Units) /\ Len(info.relay) = n + rows
  <2>1. /\ relay \o SubSeq(d, 1 + n + 1, 1 + n + rows) = SubSeq(d, 2, 1 + n + rows)
        /\ SubSeq(d, 2, 1 + n + rows) \in Seq(Units)
        /\ Len(SubSeq(d, 2, 1 + n + rows)) = n + rows
    BY ONLY <1>1, <1>2, <1>3, BatchContinues
  <2> QED
    BY ONLY <1>4, <2>1
<1>10. info \in InfoType /\ info.relay # << >>
  <2>1. info \in InfoType
    BY <1>1, <1>4, <1>9 DEF InfoType
  <2>2. n + rows # 0
    BY <1>1, <1>2
  <2> QED
    BY <1>9, <2>1, <2>2, EmptySeq
<1>11. mark \in {"verify_parent_hash", "verify_merkle"}
  BY DEF mark
<1>12. /\ row \in BucketType /\ row.status = mark /\ row.verify_info = info
       /\ row.size = old.size /\ row.num_chunks = old.num_chunks
       /\ row.uploaded_size = old.uploaded_size /\ row.uploaded_num_chunks = old.uploaded_num_chunks
  BY <1>5, <1>10, <1>11 DEF BucketType, in_verifiable
<1>13. HasBucket(bucket, s, b) /\ old.status \in in_verifiable
  BY DEF HasBucket, in_verifiable
<1> HIDE DEF old, row
<1>14. processed_position(info) = 1 + n + rows
  BY <1>9, <1>10 DEF processed_position
<1>15. CASE Processed(info)
  <2>1. num = n + rows /\ mark = "verify_parent_hash"
    BY <1>9, <1>15 DEF Processed, mark
  <2>2. ~(1 + n + rows < old.size) /\ info.relay = Tail(Content[b])
    BY <1>8, <1>14, <1>15 DEF BatchFails, old
  <2>3. 1 + n + rows = Len(d)
    BY ONLY <1>1, <1>2, <1>3, <2>2
  <2>4. d # << >>
    BY <1>1, EmptySeq
  <2>5. info.relay = Tail(d)
    BY <1>1, <1>9, <2>3, <2>4, TailIsSubSeq
  <2>6. num = Len(d) - 1 /\ Len(d) > 1
    BY ONLY <1>1, <1>2, <2>1, <2>3
  <2>7. d = Content[b]
    BY <1>1, <2>2, <2>5, <2>6, DataIsTheBlock DEF num
  <2>8. VerifiedInv(row, d, b)
    BY <1>12, <2>1, <2>5, <2>7 DEF VerifiedInv, Uploads
  <2>9. RowInv(row, chunks, b)
    BY <1>5, <1>6, <1>12, <1>13, <2>1, <2>8 DEF RowInv, in_verifiable
  <2> QED
    BY <1>5, <1>7, <1>12, <1>13, <2>1, <2>9 DEF RowWritten, chunks
<1>16. CASE ~Processed(info)
  <2>1. num # n + rows /\ mark = "verify_merkle"
    BY <1>9, <1>16 DEF Processed, mark
  <2>2. n + rows \in 1..(num - 1) /\ 1 + (n + rows) <= Len(d) /\ 1 + (n + rows) = 1 + n + rows
    BY ONLY <1>1, <1>2, <1>3, <2>1
  <2>3. /\ Len(info.relay) \in 1..(info.num - 1) /\ 1 + Len(info.relay) <= Len(d)
        /\ info.relay = SubSeq(d, 2, 1 + Len(info.relay))
    BY <1>9, <2>2
  <2>4. HeaderOf[d[1]] = b /\ info.num = num_transactions[d[1]]
    BY <1>1, <1>9 DEF num
  <2>5. VerifiedInv(row, d, b)
    BY <1>12, <2>1, <2>3, <2>4 DEF VerifiedInv, Uploads
  <2>6. RowInv(row, chunks, b)
    BY <1>5, <1>6, <1>12, <1>13, <2>1, <2>5 DEF RowInv, in_verifiable
  <2> QED
    BY <1>5, <1>7, <1>12, <1>13, <2>1, <2>6 DEF RowWritten, chunks
<1> QED
  BY <1>15, <1>16

\* check_merkle, whatever it finds.
LEMMA VerifyMerkleWrites ==
  ASSUME BlockSyncInv, NEW s \in Synchronizers, NEW b \in Blocks, VerifyMerkle(s, b)
  PROVE  \E row, chunks : RowWritten(s, b, row, chunks) /\ bucket[s][b].status \notin
                            {"verify_pass", "waiting_miner_verification"}
<1>1. bucket[s][b].status \in {"upload_complete", "verify_merkle"} /\ UNCHANGED block_chunk
  BY DEF VerifyMerkle
<1>2. HasBucket(bucket, s, b)
  BY <1>1 DEF HasBucket
<1>3. bucket[s][b].status \notin {"verify_pass", "waiting_miner_verification"}
  BY <1>1
<1>4. CASE bucket' = [bucket EXCEPT ![s][b] = Failed(@)]
  BY <1>1, <1>2, <1>3, <1>4, FailedWrites
<1>5. CASE bucket' # [bucket EXCEPT ![s][b] = Failed(@)]
  <2>1. /\ bucket[s][b].verify_info.relay = << >> => ~HeaderFails(s, b)
        /\ BatchReadable(s, b)
        /\ ~BatchFails(s, b, NextInfo(s, b))
        /\ bucket' = [bucket EXCEPT ![s][b].verify_info = NextInfo(s, b), ![s][b].status =
             IF Processed(NextInfo(s, b)) THEN "verify_parent_hash" ELSE "verify_merkle"]
    BY <1>5 DEF VerifyMerkle
  <2> QED
    BY <1>1, <1>3, <2>1, BatchWrites
<1> QED
  BY <1>4, <1>5

-----------------------------------------------------------------------------
(***************************************************************************)
(* The invariant in two parts: the buckets with the blocks they were, and  *)
(* what was verified.                                                      *)
(***************************************************************************)
BucketsInv ==
  /\ bucket \in [Synchronizers -> [Blocks -> BucketType]]
  /\ block_chunk \in [Synchronizers -> [Blocks -> ChunkTables]]
  /\ uploader \in [Blocks -> Synchronizers \cup {NoAccount}]
  /\ block \subseteq Blocks \cup {Genesis}
  /\ consensus_block \subseteq Blocks
  /\ \A s \in Synchronizers, b \in Blocks : RowInv(bucket[s][b], block_chunk[s][b], b)
  /\ ConsensusInv
  /\ ChunksHaveOwners
  /\ RetainedInv

VerifiedTables ==
  /\ passed_index \in [Blocks -> Seq(Synchronizers)]
  /\ block_miner \subseteq Blocks /\ miner_window \subseteq block_miner
  /\ \A b \in Blocks : PassedInv(b)
  /\ MinerComesFirst

\* The two parts are the invariant,
LEMMA TwoParts == BlockSyncInv <=> BucketsInv /\ VerifiedTables
BY DEF BlockSyncInv, BucketsInv, VerifiedTables, BlockSyncTypeOK, SyncTypeOK

\* in the next state as well.
LEMMA TwoPartsNext == BlockSyncInv' <=> BucketsInv' /\ VerifiedTables'
BY DEF BlockSyncInv, BucketsInv, VerifiedTables, BlockSyncTypeOK, SyncTypeOK

\* A block in consensus or irreversible is refused.
LEMMA Refused ==
  ASSUME NEW b \in Blocks, b \in consensus_block \/ b \in block
  PROVE  check_consensus(b)
BY SyncAssumption DEF check_consensus, HeightOf

\* One bucket and its chunks change.
LEMMA RowWrittenEffect ==
  ASSUME BucketsInv, NEW s \in Synchronizers, NEW b \in Blocks, NEW row, NEW chunks,
         RowWritten(s, b, row, chunks)
  PROVE  /\ bucket' \in [Synchronizers -> [Blocks -> BucketType]]
         /\ block_chunk' \in [Synchronizers -> [Blocks -> ChunkTables]]
         /\ \A t \in Synchronizers, c \in Blocks :
              /\ bucket'[t][c] = IF t = s /\ c = b THEN row ELSE bucket[t][c]
              /\ block_chunk'[t][c] = IF t = s /\ c = b THEN chunks ELSE block_chunk[t][c]
BY DEF BucketsInv, RowWritten

\* It leaves every bucket with its chunks and the stored blocks with their data.
LEMMA RowWrittenKeepsBuckets ==
  ASSUME BucketsInv, NEW s \in Synchronizers, NEW b \in Blocks, NEW row, NEW chunks,
         RowWritten(s, b, row, chunks), UNCHANGED <<uploader, block, consensus_block>>
  PROVE  BucketsInv'
<1>1. /\ bucket' \in [Synchronizers -> [Blocks -> BucketType]]
      /\ block_chunk' \in [Synchronizers -> [Blocks -> ChunkTables]]
      /\ \A t \in Synchronizers, c \in Blocks :
           /\ bucket'[t][c] = IF t = s /\ c = b THEN row ELSE bucket[t][c]
           /\ block_chunk'[t][c] = IF t = s /\ c = b THEN chunks ELSE block_chunk[t][c]
  BY RowWrittenEffect
<1>2. HasBucket(bucket, s, b) \/ b \notin consensus_block \cup block
  BY Refused DEF RowWritten
<1>3. \A t \in Synchronizers, c \in Blocks : RowInv(bucket'[t][c], block_chunk'[t][c], c)
  BY <1>1 DEF BucketsInv, RowWritten
<1>4. ConsensusInv'
  <2>1. consensus_block \cap block = {}
    BY DEF BucketsInv, ConsensusInv
  <2>2. ASSUME NEW c \in consensus_block
        PROVE  /\ uploader[c] # NoAccount
               /\ bucket'[uploader[c]][c].status = "none"
               /\ Flattened(block_chunk'[uploader[c]][c]) = Content[c]
    <3>1. /\ uploader[c] \in Synchronizers /\ c \in Blocks /\ uploader[c] # NoAccount
          /\ ~HasBucket(bucket, uploader[c], c) /\ Data(uploader[c], c) = Content[c]
      BY <2>2 DEF BucketsInv, ConsensusInv
    <3>2. ~(uploader[c] = s /\ c = b)
      BY <1>2, <3>1, <2>2
    <3> QED
      BY <1>1, <3>1, <3>2 DEF HasBucket, Data
  <2>3. \A c \in Blocks \ consensus_block : uploader[c] = NoAccount
    BY DEF BucketsInv, ConsensusInv
  <2> QED
    BY <2>1, <2>2, <2>3 DEF ConsensusInv, HasBucket, Data
<1>5. ChunksHaveOwners'
  <2> SUFFICES ASSUME NEW t \in Synchronizers, NEW c \in Blocks, block_chunk'[t][c] # NoChunks
               PROVE  bucket'[t][c].status # "none" \/ c \in block \/ t = uploader[c]
    BY DEF ChunksHaveOwners, HasBucket, NoChunks
  <2>1. CASE t = s /\ c = b
    BY <1>1, <2>1 DEF RowWritten
  <2>2. CASE ~(t = s /\ c = b)
    BY <1>1, <2>2 DEF BucketsInv, ChunksHaveOwners, HasBucket
  <2> QED
    BY <2>1, <2>2
<1>6. RetainedInv'
  <2> SUFFICES ASSUME NEW c \in block \ {Genesis},
                      \A a \in block : HeightOf(a) < Height[c] + num_retain_data_blocks
               PROVE  \E t \in Synchronizers : /\ bucket'[t][c].status = "none"
                                               /\ Flattened(block_chunk'[t][c]) = Content[c]
    BY DEF RetainedInv, HasBucket, Data, HeightOf
  <2>1. PICK t \in Synchronizers : ~HasBucket(bucket, t, c) /\ Data(t, c) = Content[c]
    BY DEF BucketsInv, RetainedInv
  <2>2. c \in Blocks /\ ~(t = s /\ c = b)
    BY <1>2, <2>1 DEF BucketsInv
  <2> QED
    BY <1>1, <2>1, <2>2 DEF HasBucket, Data
<1> QED
  BY <1>1, <1>3, <1>4, <1>5, <1>6 DEF BucketsInv

\* What was verified stays, if the bucket was not among the verified ones.
LEMMA RowWrittenKeepsVerified ==
  ASSUME BlockSyncInv, NEW s \in Synchronizers, NEW b \in Blocks, NEW row, NEW chunks,
         RowWritten(s, b, row, chunks), UNCHANGED <<syncTables, block, consensus_block>>,
         \/ check_consensus(b)
         \/ bucket[s][b].status \notin {"verify_pass", "waiting_miner_verification"}
         \/ row.status \in {"verify_pass", "waiting_miner_verification"}
  PROVE  VerifiedTables'
<1> USE TwoParts
<1>1. \A t \in Synchronizers, c \in Blocks :
        bucket'[t][c] = IF t = s /\ c = b THEN row ELSE bucket[t][c]
  BY RowWrittenEffect
<1>2. ASSUME NEW c \in Blocks PROVE PassedInv(c)'
  <2>1. passed_index[c] \in Seq(Synchronizers) /\ PassedInv(c)
    BY DEF VerifiedTables
  <2>2. check_consensus(c)' <=> check_consensus(c)
    BY DEF check_consensus, HeightOf
  <2>3. ASSUME ~check_consensus(c), NEW i \in DOMAIN passed_index[c]
        PROVE  bucket'[passed_index[c][i]][c].status \in {"verify_pass", "waiting_miner_verification"}
    <3>1. passed_index[c][i] \in Synchronizers
      BY <2>1
    <3>2. bucket[passed_index[c][i]][c].status \in {"verify_pass", "waiting_miner_verification"}
      BY <2>1, <2>3 DEF PassedInv
    <3> QED
      BY <1>1, <2>3, <3>1, <3>2
  <2> QED
    BY <2>1, <2>2, <2>3 DEF PassedInv, syncTables
<1>3. MinerComesFirst'
  BY DEF VerifiedTables, MinerComesFirst, syncTables
<1> QED
  BY <1>2, <1>3 DEF VerifiedTables, syncTables

\* The uploads, and the checks of verify that need no other table.
LEMMA UploadStep ==
  ASSUME BlockSyncInv, NEW s \in Synchronizers, NEW b \in Blocks,
         Upload(s, b) \/ VerifyData(s, b),
         UNCHANGED <<syncTables, consensus_block, uploader, block, synchronizer>>
  PROVE  BlockSyncInv'
<1> DEFINE Writes == \E row, chunks :
             /\ RowWritten(s, b, row, chunks)
             /\ \/ check_consensus(b)
                \/ bucket[s][b].status \notin {"verify_pass", "waiting_miner_verification"}
<1>1. ASSUME NEW size \in Sizes, NEW n \in NumsChunks, InitBucket(s, b, size, n) PROVE Writes
  BY <1>1, InitBucketWrites
<1>2. ASSUME NEW id \in ChunkIds, NEW data \in Chunks, PushChunk(s, b, id, data) PROVE Writes
  BY <1>2, PushChunkWrites
<1>3. ASSUME NEW id \in ChunkIds, DelChunk(s, b, id) PROVE Writes
  BY <1>3, DelChunkWrites
<1>4. ASSUME VerifyReached(s, b) PROVE Writes
  <2>1. /\ HasBucket(bucket, s, b) /\ check_consensus(b) /\ UNCHANGED block_chunk
        /\ bucket' = [bucket EXCEPT ![s][b] = Failed(@)]
    BY <1>4 DEF VerifyReached, HasBucket, in_verifiable
  <2> QED
    BY <2>1, FailedWrites
<1>5. ASSUME VerifyMerkle(s, b) PROVE Writes
  BY <1>5, VerifyMerkleWrites
<1>6. ASSUME VerifyBits(s, b) PROVE Writes
  <2>1. /\ HasBucket(bucket, s, b) /\ UNCHANGED block_chunk
        /\ bucket' = [bucket EXCEPT ![s][b] = Failed(@)]
        /\ bucket[s][b].status \notin {"verify_pass", "waiting_miner_verification"}
    BY <1>6 DEF VerifyBits, HasBucket
  <2> QED
    BY <2>1, FailedWrites
<1>7. Writes
  <2> HIDE DEF Writes
  <2> QED
    BY <1>1, <1>2, <1>3, <1>4, <1>5, <1>6 DEF Upload, VerifyData
<1>8. PICK row, chunks :
        /\ RowWritten(s, b, row, chunks)
        /\ \/ check_consensus(b)
           \/ bucket[s][b].status \notin {"verify_pass", "waiting_miner_verification"}
  BY <1>7
<1>9. BucketsInv'
  BY <1>8, TwoParts, RowWrittenKeepsBuckets
<1>10. VerifiedTables'
  BY <1>8, RowWrittenKeepsVerified
<1> QED
  BY <1>9, <1>10, TwoPartsNext

\* Removing the first occurrence of e from a sequence without repetitions takes
\* e out, and the order of the others stays.
LEMMA RemoveFirstOrder ==
  ASSUME NEW S, NEW q \in Seq(S), NEW e, IsInjective(q)
  PROVE  LET r == RemoveFirst(q, e) IN
         /\ r \in Seq(S) /\ IsInjective(r)
         /\ \A i \in DOMAIN r : r[i] # e /\ \E j \in DOMAIN q : q[j] = r[i]
         /\ r # << >> => q # << >> /\ (Head(q) # e => Head(r) = Head(q))
<1>1. PICK r : r = RemoveFirst(q, e)
  OBVIOUS
<1>2. CASE r = q /\ \A i \in 1..Len(q) : q[i] # e
  BY <1>1, <1>2
<1>3. ASSUME NEW k \in 1..Len(q), q[k] = e, r \in Seq(S), Len(r) = Len(q) - 1,
             \A i \in 1..(Len(q) - 1) : r[i] = q[IF i < k THEN i ELSE i + 1]
      PROVE  /\ IsInjective(r)
             /\ \A i \in DOMAIN r : r[i] # e /\ \E j \in DOMAIN q : q[j] = r[i]
             /\ r # << >> => q # << >> /\ (Head(q) # e => Head(r) = Head(q))
  <2> DEFINE from(i) == IF i < k THEN i ELSE i + 1
  <2>1. DOMAIN r = 1..(Len(q) - 1) /\ DOMAIN q = 1..Len(q) /\ Len(q) \in Nat
    BY <1>3
  <2>2. /\ \A i \in DOMAIN r : from(i) \in DOMAIN q /\ from(i) # k /\ r[i] = q[from(i)]
        /\ \A i, j \in DOMAIN r : from(i) = from(j) => i = j
    BY <1>3, <2>1
  <2>3. r # << >> => q # << >> /\ (Head(q) # e => Head(r) = Head(q))
    <3> SUFFICES ASSUME r # << >>, Head(q) # e PROVE Head(r) = Head(q)
      BY <1>3
    <3>1. 1 \in DOMAIN r /\ Head(r) = r[1] /\ Head(q) = q[1]
      BY <1>3, <2>1
    <3>2. k # 1
      BY <1>3, <3>1
    <3> QED
      BY <2>1, <2>2, <3>1, <3>2
  <2> HIDE DEF from
  <2> QED
    BY <1>3, <2>2, <2>3 DEF IsInjective
<1> QED
  BY <1>1, <1>2, <1>3, RemoveFirstShape

\* A row that is added first for a synchronizer without one.
LEMMA PrependedInOrder ==
  ASSUME NEW S, NEW q \in Seq(S), NEW e \in S, IsInjective(q), \A i \in DOMAIN q : q[i] # e
  PROVE  /\ <<e>> \o q \in Seq(S) /\ IsInjective(<<e>> \o q)
         /\ <<e>> \o q # << >> /\ Head(<<e>> \o q) = e
         /\ \A i \in DOMAIN (<<e>> \o q) :
              (<<e>> \o q)[i] = e \/ \E j \in DOMAIN q : q[j] = (<<e>> \o q)[i]
<1> DEFINE n == Len(q)
           r == <<e>> \o q
<1>1. n \in Nat /\ DOMAIN q = 1..n /\ \A i \in 1..n : q[i] \in S
  OBVIOUS
<1>2. <<e>> \in Seq(S) /\ Len(<<e>>) = 1 /\ <<e>>[1] = e
  OBVIOUS
<1>3. /\ r \in Seq(S) /\ Len(r) = 1 + n
      /\ \A i \in 1..(1 + n) : r[i] = IF i <= 1 THEN <<e>>[i] ELSE q[i - 1]
  BY <1>2, ConcatProperties, Zenon
<1>4. DOMAIN r = 1..(1 + n)
  BY <1>3, LenProperties
<1> HIDE DEF n, r
<1>5. r[1] = e /\ \A i \in 2..(1 + n) : r[i] = q[i - 1] /\ i - 1 \in 1..n
  BY <1>1, <1>2, <1>3
<1>6. \A k \in 1..(1 + n) : k = 1 \/ k \in 2..(1 + n)
  BY <1>1
<1>7. r # << >> /\ Head(r) = e
  BY <1>1, <1>3, <1>5, EmptySeq
<1>8. IsInjective(r)
  <2> SUFFICES ASSUME NEW i \in 1..(1 + n), NEW j \in 1..(1 + n), r[i] = r[j] PROVE i = j
    BY <1>4 DEF IsInjective
  <2>1. \A k \in 2..(1 + n) : r[k] = q[k - 1] /\ k - 1 \in DOMAIN q /\ r[k] # e
    BY <1>1, <1>5
  <2>2. CASE i = 1 \/ j = 1
    BY <1>5, <1>6, <2>1, <2>2
  <2>3. CASE i # 1 /\ j # 1
    <3>1. i - 1 = j - 1
      BY <1>6, <2>1, <2>3 DEF IsInjective
    <3> QED
      BY <1>1, <3>1
  <2> QED
    BY <2>2, <2>3
<1>9. \A i \in 1..(1 + n) : r[i] = e \/ \E j \in 1..n : q[j] = r[i]
  <2> SUFFICES ASSUME NEW i \in 1..(1 + n), i # 1 PROVE \E j \in 1..n : q[j] = r[i]
    BY <1>5
  <2> QED
    BY <1>5, <1>6
<1> QED
  BY <1>1, <1>3, <1>4, <1>7, <1>8, <1>9 DEF r

\* A row that is added last.
LEMMA AppendedInOrder ==
  ASSUME NEW S, NEW q \in Seq(S), NEW e \in S, IsInjective(q), \A i \in DOMAIN q : q[i] # e
  PROVE  /\ Append(q, e) \in Seq(S) /\ IsInjective(Append(q, e)) /\ Append(q, e) # << >>
         /\ q # << >> => Head(Append(q, e)) = Head(q)
         /\ \A i \in DOMAIN Append(q, e) :
              Append(q, e)[i] = e \/ \E j \in DOMAIN q : q[j] = Append(q, e)[i]
<1> DEFINE n == Len(q)
           r == Append(q, e)
<1>1. n \in Nat /\ DOMAIN q = 1..n /\ \A i \in 1..n : q[i] \in S
  OBVIOUS
<1>2. /\ r \in Seq(S) /\ r # << >> /\ Len(r) = n + 1
      /\ \A i \in 1..n : r[i] = q[i]
      /\ r[n + 1] = e
  BY AppendProperties
<1>3. DOMAIN r = 1..(n + 1)
  BY <1>2, LenProperties
<1>4. q # << >> => Head(r) = Head(q)
  BY HeadTailAppend
<1> HIDE DEF n, r
<1>5. IsInjective(r)
  BY <1>1, <1>2, <1>3 DEF IsInjective
<1>6. \A i \in DOMAIN r : r[i] = e \/ \E j \in DOMAIN q : q[j] = r[i]
  BY <1>1, <1>2, <1>3
<1> QED
  BY <1>2, <1>4, <1>5, <1>6 DEF r

-----------------------------------------------------------------------------
\* The statuses of a bucket whose verification is on file.
Marks == {"verify_pass", "waiting_miner_verification"}

\* A synchronizer whose bucket is not marked is not on file.
LEMMA NotOnFile ==
  ASSUME BlockSyncInv, NEW s \in Synchronizers, NEW b \in Blocks, ~check_consensus(b),
         bucket[s][b].status \notin Marks
  PROVE  \A i \in DOMAIN passed_index[b] : passed_index[b][i] # s
BY DEF BlockSyncInv, PassedInv, Marks

\* What Pass makes of the tables.
LEMMA PassEffect ==
  ASSUME BlockSyncInv, NEW s \in Synchronizers, NEW b \in Blocks, ~check_consensus(b),
         bucket[s][b].status \notin Marks, NEW y, y = Pass(SyncNow, s, b)
  PROVE  /\ y.passed \in [Blocks -> Seq(Synchronizers)]
         /\ \A c \in Blocks \ {b} : y.passed[c] = passed_index[c]
         /\ IsInjective(y.passed[b]) /\ y.passed[b] # << >>
         /\ \A i \in DOMAIN y.passed[b] : y.passed[b][i] = s \/
              \E j \in DOMAIN passed_index[b] : passed_index[b][j] = y.passed[b][i]
         /\ y.known = block_miner \cup {b}
         /\ y.window \subseteq y.known /\ y.window \ {b} = miner_window \ {b}
         /\ b \in y.window /\ Miner[b] \in Range(y.passed[b]) => Head(y.passed[b]) = Miner[b]
<1> DEFINE q == passed_index[b]
           r == IF s = Miner[b] /\ b \in y.window THEN <<s>> \o q ELSE Append(q, s)
<1>1. /\ passed_index \in [Blocks -> Seq(Synchronizers)] /\ miner_window \subseteq block_miner
      /\ PassedInv(b) /\ IsInjective(q)
      /\ b \in miner_window /\ Miner[b] \in Range(q) => Head(q) = Miner[b]
  BY DEF BlockSyncInv, BlockSyncTypeOK, SyncTypeOK, MinerComesFirst
<1>2. \A i \in DOMAIN q : q[i] # s
  BY NotOnFile
<1>3. /\ y.known = block_miner \cup {b}
      /\ y.window = IF b \notin block_miner /\ Miner[b] # NoAccount THEN miner_window \cup {b} ELSE miner_window
      /\ y.passed = [passed_index EXCEPT ![b] = r]
  BY DEF Pass, SyncNow
<1>4. q \in Seq(Synchronizers)
  BY <1>1
<1>5. (s = Miner[b] /\ b \in y.window => r = <<s>> \o q)
      /\ (~(s = Miner[b] /\ b \in y.window) => r = Append(q, s))
  OBVIOUS
<1> HIDE DEF r
<1>6. /\ r \in Seq(Synchronizers) /\ IsInjective(r) /\ r # << >>
      /\ \A i \in DOMAIN r : r[i] = s \/ \E j \in DOMAIN q : q[j] = r[i]
      /\ s = Miner[b] /\ b \in y.window => Head(r) = s
      /\ ~(s = Miner[b] /\ b \in y.window) /\ q # << >> => Head(r) = Head(q)
  <2> HIDE DEF q
  <2>1. CASE s = Miner[b] /\ b \in y.window
    <3>1. r = <<s>> \o q
      BY <1>5, <2>1
    <3>2. IsInjective(q)
      BY <1>1
    <3>3. /\ <<s>> \o q \in Seq(Synchronizers) /\ IsInjective(<<s>> \o q)
          /\ <<s>> \o q # << >> /\ Head(<<s>> \o q) = s
          /\ \A i \in DOMAIN (<<s>> \o q) :
               (<<s>> \o q)[i] = s \/ \E j \in DOMAIN q : q[j] = (<<s>> \o q)[i]
      BY ONLY <1>2, <1>4, <3>2, s \in Synchronizers, PrependedInOrder
    <3> QED
      BY ONLY <2>1, <3>1, <3>3
  <2>2. CASE ~(s = Miner[b] /\ b \in y.window)
    <3>1. r = Append(q, s)
      BY <1>5, <2>2
    <3>2. IsInjective(q)
      BY <1>1
    <3>3. /\ Append(q, s) \in Seq(Synchronizers) /\ IsInjective(Append(q, s))
          /\ Append(q, s) # << >>
          /\ q # << >> => Head(Append(q, s)) = Head(q)
          /\ \A i \in DOMAIN Append(q, s) :
               Append(q, s)[i] = s \/ \E j \in DOMAIN q : q[j] = Append(q, s)[i]
      BY ONLY <1>2, <1>4, <3>2, s \in Synchronizers, AppendedInOrder
    <3> QED
      BY ONLY <2>2, <3>1, <3>3
  <2> QED
    BY <2>1, <2>2
<1>7. ASSUME b \in y.window, Miner[b] \in Range(r) PROVE Head(r) = Miner[b]
  <2>1. CASE s = Miner[b]
    BY <1>5, <1>6, <1>7, <2>1
  <2>2. CASE s # Miner[b]
    <3>1. PICK j \in DOMAIN q : q[j] = Miner[b]
      BY <1>6, <1>7, <2>2 DEF Range
    <3>2. q # << >> /\ Miner[b] \in Range(q)
      BY <3>1 DEF Range
    <3>3. b \in miner_window
      BY <1>1, <1>3, <1>7, <3>2 DEF PassedInv
    <3> QED
      BY <1>1, <1>5, <1>6, <2>2, <3>2, <3>3
  <2> QED
    BY <2>1, <2>2
<1>8. y.passed[b] = r /\ y.passed \in [Blocks -> Seq(Synchronizers)]
      /\ \A c \in Blocks \ {b} : y.passed[c] = passed_index[c]
  BY <1>1, <1>3, <1>6
<1>9. y.window \subseteq y.known /\ y.window \ {b} = miner_window \ {b}
  BY <1>1, <1>3
<1> HIDE DEF q
<1> QED
  BY <1>3, <1>6, <1>7, <1>8, <1>9 DEF q

\* A verification goes on file with its bucket.
LEMMA PassKeepsVerified ==
  ASSUME BlockSyncInv, NEW s \in Synchronizers, NEW b \in Blocks, ~check_consensus(b),
         bucket[s][b].status \notin Marks, NEW row, NEW chunks, RowWritten(s, b, row, chunks),
         row.status \in Marks, SetSync(Pass(SyncNow, s, b)), UNCHANGED <<block, consensus_block>>
  PROVE  VerifiedTables'
<1> DEFINE y == Pass(SyncNow, s, b)
<1>1. passed_index' = y.passed /\ block_miner' = y.known /\ miner_window' = y.window
  BY DEF SetSync
<1> HIDE DEF y
<1>2. /\ y.passed \in [Blocks -> Seq(Synchronizers)]
      /\ \A c \in Blocks \ {b} : y.passed[c] = passed_index[c]
      /\ IsInjective(y.passed[b]) /\ y.passed[b] # << >>
      /\ \A i \in DOMAIN y.passed[b] : y.passed[b][i] = s \/
           \E j \in DOMAIN passed_index[b] : passed_index[b][j] = y.passed[b][i]
      /\ y.known = block_miner \cup {b}
      /\ y.window \subseteq y.known /\ y.window \ {b} = miner_window \ {b}
      /\ b \in y.window /\ Miner[b] \in Range(y.passed[b]) => Head(y.passed[b]) = Miner[b]
  BY PassEffect DEF y
<1>3. VerifiedTables /\ BucketsInv
  BY TwoParts
<1>4. \A t \in Synchronizers, c \in Blocks :
        bucket'[t][c] = IF t = s /\ c = b THEN row ELSE bucket[t][c]
  BY <1>3, RowWrittenEffect
<1>5. ASSUME NEW c \in Blocks PROVE PassedInv(c)'
  <2>1. passed_index[c] \in Seq(Synchronizers) /\ PassedInv(c)
    BY <1>3 DEF VerifiedTables
  <2>2. check_consensus(c)' <=> check_consensus(c)
    BY DEF check_consensus, HeightOf
  <2>3. ASSUME ~check_consensus(c), NEW i \in DOMAIN y.passed[c]
        PROVE  bucket'[y.passed[c][i]][c].status \in Marks
    <3>1. y.passed[c][i] \in Synchronizers
      BY <1>2
    <3>2. \/ c = b /\ y.passed[c][i] = s
          \/ \E j \in DOMAIN passed_index[c] : passed_index[c][j] = y.passed[c][i]
      BY <1>2
    <3>3. CASE c = b /\ y.passed[c][i] = s
      BY <1>4, <3>3
    <3>4. CASE ~(c = b /\ y.passed[c][i] = s)
      <4>1. PICK j \in DOMAIN passed_index[c] : passed_index[c][j] = y.passed[c][i]
        BY <3>2, <3>4
      <4>2. bucket[y.passed[c][i]][c].status \in Marks
        BY <2>1, <2>3, <4>1 DEF PassedInv, Marks
      <4> QED
        BY <1>4, <3>1, <3>4, <4>2
    <3> QED
      BY <3>3, <3>4
  <2>4. y.passed[c] # << >> => c \in y.known
    BY <1>2, <2>1 DEF PassedInv
  <2> QED
    BY <1>1, <2>2, <2>3, <2>4 DEF PassedInv, Marks
<1>6. ASSUME NEW c \in Blocks
      PROVE  /\ IsInjective(y.passed[c])
             /\ c \in y.window /\ Miner[c] \in Range(y.passed[c]) => Head(y.passed[c]) = Miner[c]
  <2>1. CASE c = b
    BY <1>2, <2>1
  <2>2. CASE c # b
    <3>1. c \in y.window <=> c \in miner_window
      BY <1>2, <2>2
    <3>2. y.passed[c] = passed_index[c]
      BY <1>2, <2>2
    <3> QED
      BY <1>3, <3>1, <3>2 DEF VerifiedTables, MinerComesFirst
  <2> QED
    BY <2>1, <2>2
<1>7. MinerComesFirst'
  BY <1>1, <1>6 DEF MinerComesFirst, IsInjective, Range
<1>8. y.known \subseteq Blocks
  BY <1>2, <1>3 DEF VerifiedTables
<1> QED
  BY <1>1, <1>2, <1>5, <1>7, <1>8 DEF VerifiedTables

\* verify puts the block on file and waits for its miner.
LEMMA VerifyWaitsStep ==
  ASSUME BlockSyncInv, NEW s \in Synchronizers, NEW b \in Blocks, VerifyWaits(s, b),
         UNCHANGED <<consensus_block, uploader, block, synchronizer>>
  PROVE  BlockSyncInv'
<1>1. /\ bucket[s][b].status = "verify_parent_hash" /\ ~check_consensus(b)
      /\ SetSync(Pass(SyncNow, s, b)) /\ UNCHANGED block_chunk
      /\ bucket' = [bucket EXCEPT ![s][b].status = "waiting_miner_verification"]
  BY DEF VerifyWaits, MayVerifyParent, ParentReached
<1>2. PICK row, chunks : RowWritten(s, b, row, chunks) /\ row.status = "waiting_miner_verification"
  BY <1>1, MarkedWrites
<1>3. BucketsInv'
  BY <1>2, TwoParts, RowWrittenKeepsBuckets
<1>4. VerifiedTables'
  BY <1>1, <1>2, PassKeepsVerified DEF Marks
<1> QED
  BY <1>3, <1>4, TwoPartsNext

\* delbucket takes the synchronizer from the file.
LEMMA DelBucketStep ==
  ASSUME BlockSyncInv, NEW s \in Synchronizers, NEW b \in Blocks, DelBucket(s, b),
         UNCHANGED <<consensus_block, uploader, block, synchronizer>>
  PROVE  BlockSyncInv'
<1> DEFINE r == RemoveFirst(passed_index[b], s)
<1>1. /\ passed_index' = [passed_index EXCEPT ![b] = r]
      /\ block_miner' = block_miner /\ miner_window' = miner_window
  BY DEF DelBucket, SetSync, Unpassed, SyncNow
<1>2. BucketsInv /\ VerifiedTables
  BY TwoParts
<1>3. RowWritten(s, b, NoBucket, NoChunks)
  BY DelBucketWrites
<1>4. BucketsInv'
  BY <1>2, <1>3, RowWrittenKeepsBuckets
<1>5. \A t \in Synchronizers, c \in Blocks :
        bucket'[t][c] = IF t = s /\ c = b THEN NoBucket ELSE bucket[t][c]
  BY <1>2, <1>3, RowWrittenEffect
<1>6. passed_index[b] \in Seq(Synchronizers) /\ IsInjective(passed_index[b])
  BY <1>2 DEF VerifiedTables, MinerComesFirst
<1>7. /\ r \in Seq(Synchronizers) /\ IsInjective(r)
      /\ \A i \in DOMAIN r : r[i] # s /\ \E j \in DOMAIN passed_index[b] : passed_index[b][j] = r[i]
      /\ r # << >> => passed_index[b] # << >> /\ (Head(passed_index[b]) # s => Head(r) = Head(passed_index[b]))
  BY <1>6, RemoveFirstOrder
<1> HIDE DEF r
<1>8. \A c \in Blocks : passed_index'[c] = IF c = b THEN r ELSE passed_index[c]
  BY <1>1, <1>2 DEF VerifiedTables
<1>9. passed_index' \in [Blocks -> Seq(Synchronizers)]
  BY <1>1, <1>2, <1>7 DEF VerifiedTables
<1>10. ASSUME NEW c \in Blocks PROVE PassedInv(c)'
  <2>1. passed_index[c] \in Seq(Synchronizers) /\ PassedInv(c)
    BY <1>2 DEF VerifiedTables
  <2>2. check_consensus(c)' <=> check_consensus(c)
    BY DEF check_consensus, HeightOf
  <2>3. ASSUME ~check_consensus(c), NEW i \in DOMAIN passed_index'[c]
        PROVE  bucket'[passed_index'[c][i]][c].status \in Marks
    <3>1. /\ \E j \in DOMAIN passed_index[c] : passed_index[c][j] = passed_index'[c][i]
          /\ ~(c = b /\ passed_index'[c][i] = s)
      BY <1>7, <1>8
    <3>2. passed_index'[c][i] \in Synchronizers
      BY <1>9
    <3>3. bucket[passed_index'[c][i]][c].status \in Marks
      BY <2>1, <2>3, <3>1 DEF PassedInv, Marks
    <3> QED
      BY <1>5, <3>1, <3>2, <3>3
  <2>4. passed_index'[c] # << >> => c \in block_miner
    BY <1>7, <1>8, <2>1 DEF PassedInv
  <2> QED
    BY <1>1, <2>2, <2>3, <2>4 DEF PassedInv, Marks
<1>11. ASSUME NEW c \in Blocks
       PROVE  /\ IsInjective(passed_index'[c])
              /\ c \in miner_window /\ Miner[c] \in Range(passed_index'[c])
                   => Head(passed_index'[c]) = Miner[c]
  <2>0. /\ IsInjective(passed_index[c])
        /\ c \in miner_window /\ Miner[c] \in Range(passed_index[c]) => Head(passed_index[c]) = Miner[c]
    BY <1>2 DEF VerifiedTables, MinerComesFirst
  <2>1. CASE c # b
    BY <1>8, <2>0, <2>1
  <2>2. CASE c = b
    <3>1. IsInjective(r)
      BY <1>7
    <3>2. ASSUME c \in miner_window, Miner[c] \in Range(r) PROVE Head(r) = Miner[c]
      <4>1. PICK i \in DOMAIN r : r[i] = Miner[c]
        BY <3>2 DEF Range
      <4>2. Miner[c] # s /\ Miner[c] \in Range(passed_index[b]) /\ r # << >>
        BY <1>7, <4>1 DEF Range
      <4> QED
        BY <1>7, <2>0, <2>2, <3>2, <4>2
    <3> QED
      BY <1>8, <2>2, <3>1, <3>2
  <2> QED
    BY <2>1, <2>2
<1>12. MinerComesFirst'
  BY <1>1, <1>11 DEF MinerComesFirst, IsInjective, Range
<1>13. VerifiedTables'
  BY <1>1, <1>2, <1>9, <1>10, <1>12 DEF VerifiedTables
<1> QED
  BY <1>4, <1>13, TwoPartsNext

\* The tables consensus is called with: those of before, except that b may have
\* just been verified.
StoreReady(y, rows, b) ==
  /\ y.passed \in [Blocks -> Seq(Synchronizers)]
  /\ \A c \in Blocks \ {b} : y.passed[c] = passed_index[c]
  /\ y.known \ {b} = block_miner \ {b} /\ y.window \ {b} = miner_window \ {b}
  /\ y.known \subseteq Blocks /\ y.window \subseteq y.known
  /\ rows \in [Synchronizers -> [Blocks -> BucketType]]
  /\ \A t \in Synchronizers :
       /\ \A c \in Blocks \ {b} : rows[t][c] = bucket[t][c]
       /\ RowInv(rows[t][b], block_chunk[t][b], b)
       /\ HasBucket(bucket, t, b) => HasBucket(rows, t, b)
  /\ \A i \in DOMAIN y.passed[b] : rows[y.passed[b][i]][b].status \in Marks

\* Those of an endorsement.
LEMMA ReadyAsItIs ==
  ASSUME BlockSyncInv, NEW b \in Blocks, ~check_consensus(b)
  PROVE  StoreReady(SyncNow, bucket, b)
<1>1. BucketsInv /\ VerifiedTables
  BY TwoParts
<1>2. PassedInv(b)
  BY <1>1 DEF VerifiedTables
<1> QED
  BY <1>1, <1>2 DEF StoreReady, BucketsInv, VerifiedTables, SyncNow, PassedInv, Marks

\* What Marked does to the buckets.
LEMMA MarkedEffect ==
  ASSUME BlockSyncInv, NEW s \in Synchronizers, NEW b \in Blocks,
         bucket[s][b].status \in {"verify_parent_hash", "waiting_miner_verification"}
  PROVE  LET rows == Marked(s, b) IN
         /\ rows \in [Synchronizers -> [Blocks -> BucketType]]
         /\ \A t \in Synchronizers :
              /\ \A c \in Blocks \ {b} : rows[t][c] = bucket[t][c]
              /\ RowInv(rows[t][b], block_chunk[t][b], b)
              /\ HasBucket(bucket, t, b) => HasBucket(rows, t, b)
              /\ t # s => rows[t][b] = bucket[t][b]
         /\ rows[s][b].status = "verify_pass"
<1> DEFINE row == [bucket[s][b] EXCEPT !.status = "verify_pass"]
           rows == Marked(s, b)
<1>1. bucket \in [Synchronizers -> [Blocks -> BucketType]]
      /\ \A t \in Synchronizers : RowInv(bucket[t][b], block_chunk[t][b], b)
  BY DEF BlockSyncInv, BlockSyncTypeOK
<1>2. row \in BucketType /\ row.status = "verify_pass" /\ RowInv(row, block_chunk[s][b], b)
  BY MarkedRow
<1>3. rows = [bucket EXCEPT ![s][b] = row]
  BY DEF Marked
<1> HIDE DEF row, rows
<1>4. /\ rows \in [Synchronizers -> [Blocks -> BucketType]]
      /\ \A t \in Synchronizers, c \in Blocks :
           rows[t][c] = IF t = s /\ c = b THEN row ELSE bucket[t][c]
  BY <1>1, <1>2, <1>3
<1> QED
  BY <1>1, <1>2, <1>4 DEF HasBucket, rows

\* Those of a verification after the window of the miner, and of the first.
LEMMA ReadyMarked ==
  ASSUME BlockSyncInv, NEW s \in Synchronizers, NEW b \in Blocks, ~check_consensus(b),
         NEW y, \/ bucket[s][b].status = "waiting_miner_verification" /\ y = SyncNow
                \/ bucket[s][b].status = "verify_parent_hash" /\ y = Pass(SyncNow, s, b)
  PROVE  StoreReady(y, Marked(s, b), b)
<1> DEFINE rows == Marked(s, b)
<1>1. /\ rows \in [Synchronizers -> [Blocks -> BucketType]]
      /\ \A t \in Synchronizers :
           /\ \A c \in Blocks \ {b} : rows[t][c] = bucket[t][c]
           /\ RowInv(rows[t][b], block_chunk[t][b], b)
           /\ HasBucket(bucket, t, b) => HasBucket(rows, t, b)
           /\ t # s => rows[t][b] = bucket[t][b]
      /\ rows[s][b].status = "verify_pass"
  BY MarkedEffect
<1> HIDE DEF rows
<1>2. VerifiedTables
  BY TwoParts
<1>3. \A t \in Synchronizers : bucket[t][b].status \in Marks => rows[t][b].status \in Marks
  BY <1>1 DEF Marks
<1>4. \A i \in DOMAIN passed_index[b] :
        passed_index[b][i] \in Synchronizers /\ rows[passed_index[b][i]][b].status \in Marks
  <2>1. passed_index[b] \in Seq(Synchronizers) /\ PassedInv(b)
    BY <1>2 DEF VerifiedTables
  <2> QED
    BY <1>3, <2>1 DEF PassedInv, Marks
<1>5. /\ y.passed \in [Blocks -> Seq(Synchronizers)]
      /\ \A c \in Blocks \ {b} : y.passed[c] = passed_index[c]
      /\ y.known \ {b} = block_miner \ {b} /\ y.window \ {b} = miner_window \ {b}
      /\ y.known \subseteq Blocks /\ y.window \subseteq y.known
      /\ \A i \in DOMAIN y.passed[b] : rows[y.passed[b][i]][b].status \in Marks
  <2>1. CASE y = SyncNow
    BY <1>2, <1>4, <2>1 DEF SyncNow, VerifiedTables
  <2>2. CASE bucket[s][b].status = "verify_parent_hash" /\ y = Pass(SyncNow, s, b)
    <3>1. bucket[s][b].status \notin Marks
      BY <2>2 DEF Marks
    <3>2. /\ y.passed \in [Blocks -> Seq(Synchronizers)]
          /\ \A c \in Blocks \ {b} : y.passed[c] = passed_index[c]
          /\ \A i \in DOMAIN y.passed[b] : y.passed[b][i] = s \/
               \E j \in DOMAIN passed_index[b] : passed_index[b][j] = y.passed[b][i]
          /\ y.known = block_miner \cup {b}
          /\ y.window \subseteq y.known /\ y.window \ {b} = miner_window \ {b}
      BY <2>2, <3>1, PassEffect
    <3>3. block_miner \subseteq Blocks
      BY <1>2 DEF VerifiedTables
    <3>4. \A i \in DOMAIN y.passed[b] : rows[y.passed[b][i]][b].status \in Marks
      BY <1>1, <1>4, <3>2 DEF Marks
    <3> QED
      BY <3>2, <3>3, <3>4
  <2> QED
    BY <2>1, <2>2
<1> QED
  BY <1>1, <1>5 DEF StoreReady, rows

\* A block is stored: its verifications and the bucket it comes from are gone,
\* and the data stays.
LEMMA BlockStoredStep ==
  ASSUME BlockSyncInv, NEW b \in Blocks, ~check_consensus(b), NEW y, NEW rows,
         StoreReady(y, rows, b), Store(y, rows, b), UNCHANGED <<block, block_chunk>>
  PROVE  BlockSyncInv'
<1> DEFINE p == PassedBy(y, b)
<1>1. BucketsInv /\ VerifiedTables
  BY TwoParts
<1>2. b \notin consensus_block /\ b \notin block
  BY Refused
<1>3. p \in Synchronizers /\ rows[p][b].status \in Marks
  <2>1. y.passed[b] # << >> /\ y.passed[b] \in Seq(Synchronizers)
    BY DEF Store, Passed, StoreReady
  <2>2. 1 \in DOMAIN y.passed[b] /\ p = y.passed[b][1]
    BY <2>1, EmptySeq, LenProperties DEF PassedBy
  <2> QED
    BY <2>1, <2>2, ElementOfSeq DEF StoreReady
<1>4. Flattened(block_chunk[p][b]) = Content[b]
  BY <1>3 DEF StoreReady, RowInv, VerifiedInv, Marks
<1>5. /\ passed_index' = [y.passed EXCEPT ![b] = << >>]
      /\ block_miner' = block_miner \ {b} /\ miner_window' = miner_window \ {b}
      /\ consensus_block' = consensus_block \cup {b}
      /\ uploader' = [uploader EXCEPT ![b] = p]
      /\ bucket' = [rows EXCEPT ![p][b] = NoBucket]
  BY DEF Store, SetSync, Forget, Erased, StoreReady
<1> HIDE DEF p
<1>6. NoBucket \in BucketType
  BY DEF NoBucket, BucketType, NoInfo, InfoType, Uploads
<1>7. /\ bucket' \in [Synchronizers -> [Blocks -> BucketType]]
      /\ \A t \in Synchronizers, c \in Blocks :
           bucket'[t][c] = IF c # b THEN bucket[t][c] ELSE IF t = p THEN NoBucket ELSE rows[t][c]
  BY <1>3, <1>5, <1>6 DEF StoreReady
<1>8. /\ uploader' \in [Blocks -> Synchronizers \cup {NoAccount}]
      /\ \A c \in Blocks : uploader'[c] = IF c = b THEN p ELSE uploader[c]
  BY <1>1, <1>3, <1>5 DEF BucketsInv
<1>9. \A t \in Synchronizers, c \in Blocks : RowInv(bucket'[t][c], block_chunk[t][c], c)
  <2>1. \A t \in Synchronizers : RowInv(NoBucket, block_chunk[t][b], b)
    BY DEF RowInv, NoBucket
  <2> QED
    <3> SUFFICES ASSUME NEW t \in Synchronizers, NEW c \in Blocks
                 PROVE  RowInv(bucket'[t][c], block_chunk[t][c], c)
      OBVIOUS
    <3>1. CASE c # b
      BY <1>1, <1>7, <3>1 DEF BucketsInv
    <3>2. CASE c = b /\ t = p
      BY <1>7, <2>1, <3>2
    <3>3. CASE c = b /\ t # p
      BY <1>7, <3>3 DEF StoreReady
    <3> QED
      BY <3>1, <3>2, <3>3
<1>10. ConsensusInv'
  <2>1. (consensus_block \cup {b}) \cap block = {}
    BY <1>1, <1>2 DEF BucketsInv, ConsensusInv
  <2>2. ASSUME NEW c \in Blocks, c \in consensus_block \cup {b}
        PROVE  /\ uploader'[c] # NoAccount
               /\ bucket'[uploader'[c]][c].status = "none"
               /\ Flattened(block_chunk[uploader'[c]][c]) = Content[c]
    <3>1. CASE c = b
      BY <1>3, <1>4, <1>7, <1>8, <3>1, SyncAssumption DEF NoBucket
    <3>2. CASE c # b
      <4>1. /\ uploader[c] \in Synchronizers /\ uploader[c] # NoAccount
            /\ ~HasBucket(bucket, uploader[c], c) /\ Data(uploader[c], c) = Content[c]
        BY <1>1, <2>2, <3>2 DEF BucketsInv, ConsensusInv
      <4> QED
        BY <1>7, <1>8, <3>2, <4>1 DEF HasBucket, Data
    <3> QED
      BY <3>1, <3>2
  <2>3. \A c \in Blocks \ (consensus_block \cup {b}) : uploader'[c] = NoAccount
    BY <1>1, <1>8 DEF BucketsInv, ConsensusInv
  <2> QED
    BY <1>5, <2>1, <2>2, <2>3 DEF ConsensusInv, HasBucket, Data
<1>11. ChunksHaveOwners'
  <2> SUFFICES ASSUME NEW t \in Synchronizers, NEW c \in Blocks, block_chunk[t][c] # NoChunks
               PROVE  bucket'[t][c].status # "none" \/ c \in block \/ t = uploader'[c]
    BY DEF ChunksHaveOwners, HasBucket, NoChunks
  <2>1. HasBucket(bucket, t, c) \/ c \in block \/ t = uploader[c]
    BY <1>1 DEF BucketsInv, ChunksHaveOwners
  <2>2. CASE c = b
    <3>1. uploader[b] = NoAccount
      BY <1>1, <1>2 DEF BucketsInv, ConsensusInv
    <3>2. HasBucket(bucket, t, b)
      BY <1>2, <2>1, <2>2, <3>1, SyncAssumption
    <3>3. HasBucket(rows, t, b)
      BY <3>2 DEF StoreReady
    <3> QED
      BY <1>7, <1>8, <2>2, <3>3 DEF HasBucket
  <2>3. CASE c # b
    BY <1>7, <1>8, <2>1, <2>3 DEF HasBucket
  <2> QED
    BY <2>2, <2>3
<1>12. RetainedInv'
  <2> SUFFICES ASSUME NEW c \in block \ {Genesis},
                      \A a \in block : HeightOf(a) < Height[c] + num_retain_data_blocks
               PROVE  \E t \in Synchronizers : /\ bucket'[t][c].status = "none"
                                               /\ Flattened(block_chunk[t][c]) = Content[c]
    BY DEF RetainedInv, HasBucket, Data, HeightOf
  <2>1. PICK t \in Synchronizers : ~HasBucket(bucket, t, c) /\ Data(t, c) = Content[c]
    BY <1>1 DEF BucketsInv, RetainedInv
  <2>2. c \in Blocks /\ c # b
    BY <1>1, <1>2 DEF BucketsInv
  <2> QED
    BY <1>7, <2>1, <2>2 DEF HasBucket, Data
<1>13. BucketsInv'
  BY <1>1, <1>5, <1>7, <1>8, <1>9, <1>10, <1>11, <1>12 DEF BucketsInv
<1>14. /\ passed_index' \in [Blocks -> Seq(Synchronizers)]
       /\ passed_index'[b] = << >> /\ \A c \in Blocks \ {b} : passed_index'[c] = passed_index[c]
  BY <1>5, EmptySeq DEF StoreReady
<1>15. ASSUME NEW c \in Blocks PROVE PassedInv(c)'
  <2>1. CASE c = b
    <3>1. passed_index'[c] = << >> /\ DOMAIN passed_index'[c] = {}
      BY <1>14, <2>1
    <3> QED
      BY <3>1 DEF PassedInv
  <2>2. CASE c # b
    <3>1. passed_index[c] \in Seq(Synchronizers) /\ PassedInv(c) /\ passed_index'[c] = passed_index[c]
      BY <1>1, <1>14, <2>2 DEF VerifiedTables
    <3>2. check_consensus(c) => check_consensus(c)'
      BY <1>5 DEF check_consensus, HeightOf
    <3>3. c \in block_miner' <=> c \in block_miner
      BY <1>5, <2>2
    <3>4. \A t \in Synchronizers : bucket'[t][c] = bucket[t][c]
      BY <1>7, <2>2
    <3> QED
      BY <3>1, <3>2, <3>3, <3>4 DEF PassedInv
  <2> QED
    BY <2>1, <2>2
<1>16. ASSUME NEW c \in Blocks
       PROVE  /\ IsInjective(passed_index'[c])
              /\ c \in miner_window' /\ Miner[c] \in Range(passed_index'[c])
                   => Head(passed_index'[c]) = Miner[c]
  <2>1. CASE c = b
    <3>1. passed_index'[c] = << >> /\ DOMAIN passed_index'[c] = {}
      BY <1>14, <2>1
    <3> QED
      BY <3>1 DEF IsInjective, Range
  <2>2. CASE c # b
    BY <1>1, <1>5, <1>14, <2>2 DEF VerifiedTables, MinerComesFirst
  <2> QED
    BY <2>1, <2>2
<1>17. MinerComesFirst'
  BY <1>16 DEF MinerComesFirst, IsInjective, Range
<1>18. VerifiedTables'
  BY <1>1, <1>5, <1>14, <1>15, <1>17 DEF VerifiedTables
<1> QED
  BY <1>13, <1>18, TwoPartsNext

\* The last step of verify: the block is stored, or waits for its endorsements.
LEMMA VerifyChainStep ==
  ASSUME BlockSyncInv, NEW s \in Synchronizers, NEW b \in Blocks, VerifyChain(s, b),
         UNCHANGED block
  PROVE  BlockSyncInv'
<1>1. PICK y : /\ \/ bucket[s][b].status = "waiting_miner_verification" /\ y = SyncNow
                  \/ bucket[s][b].status = "verify_parent_hash" /\ y = Pass(SyncNow, s, b)
               /\ StoreOrReturn(y, Marked(s, b), b) /\ ~check_consensus(b) /\ UNCHANGED block_chunk
  BY DEF VerifyChain, VerifyPasses, VerifyAfterWindow, MayVerifyParent, ParentReached
<1>2. CASE Store(y, Marked(s, b), b)
  <2>1. StoreReady(y, Marked(s, b), b)
    BY <1>1, ReadyMarked
  <2> QED
    BY <1>1, <1>2, <2>1, BlockStoredStep
<1>3. CASE /\ SetSync(y) /\ bucket' = Marked(s, b)
           /\ UNCHANGED <<consensus_block, uploader, synchronizer>>
  <2>1. bucket' = [bucket EXCEPT ![s][b].status = "verify_pass"]
    BY <1>3 DEF Marked
  <2>2. PICK row, chunks : RowWritten(s, b, row, chunks) /\ row.status = "verify_pass"
    BY <1>1, <2>1, MarkedWrites
  <2>3. BucketsInv'
    BY <1>3, <2>2, TwoParts, RowWrittenKeepsBuckets
  <2>4. VerifiedTables'
    <3>1. CASE y = SyncNow
      <4>1. UNCHANGED <<syncTables, block, consensus_block>>
        BY <1>3, <3>1 DEF SetSync, SyncNow, syncTables
      <4> QED
        BY <2>2, <4>1, RowWrittenKeepsVerified
    <3>2. CASE bucket[s][b].status = "verify_parent_hash" /\ y = Pass(SyncNow, s, b)
      BY <1>1, <1>3, <2>2, <3>2, PassKeepsVerified DEF Marks
    <3> QED
      BY <1>1, <3>1, <3>2
  <2> QED
    BY <2>3, <2>4, TwoPartsNext
<1> QED
  BY <1>1, <1>2, <1>3 DEF StoreOrReturn

\* Heights are numbers, and those of Blocks are the ones check_consensus compares.
LEMMA HeightFacts ==
  /\ \A b \in Blocks : Height[b] \in Nat /\ HeightOf(b) = Height[b] /\ b # Genesis
  /\ num_retain_data_blocks \in Nat /\ num_retain_data_blocks > 0
BY TablesAssumption, SyncAssumption, BlockSyncAssumption DEF Heights, HeightOf

\* processblock makes a block irreversible and deletes chunks: none of a bucket,
\* none of another height in consensus and none of the blocks to be retained.
LEMMA ChainProceedsStep ==
  ASSUME BlockSyncInv, NEW b \in Blocks, ChainProceeds(b)
  PROVE  BlockSyncInv'
<1>1. BucketsInv /\ VerifiedTables
  BY TwoParts
<1>2. /\ b \in consensus_block /\ \A c \in block : HeightOf(c) < Height[b]
      /\ block' = block \cup {b}
      /\ consensus_block' = {c \in consensus_block : Height[c] # Height[b]}
      /\ uploader' = [c \in Blocks |-> IF c \in consensus_block' THEN uploader[c] ELSE NoAccount]
      /\ block_chunk' = ChunksAfter(b)
      /\ UNCHANGED <<bucket, passed_index, block_miner, miner_window>>
  BY DEF ChainProceeds, syncTables
<1>3. /\ consensus_block \subseteq Blocks /\ block \subseteq Blocks \cup {Genesis}
      /\ consensus_block \cap block = {}
      /\ uploader \in [Blocks -> Synchronizers \cup {NoAccount}]
      /\ \A c \in Blocks : c \notin consensus_block => uploader[c] = NoAccount
      /\ \A c \in consensus_block : /\ uploader[c] \in Synchronizers
                                    /\ ~HasBucket(bucket, uploader[c], c)
                                    /\ Data(uploader[c], c) = Content[c]
  BY <1>1 DEF BucketsInv, ConsensusInv
<1>4. NoAccount \notin Synchronizers
  BY SyncAssumption
<1> DEFINE Gone(t, c) ==
             \/ Height[c] = Height[b] /\ c # b /\ t = uploader[c]
             \/ Height[c] = Height[b] - num_retain_data_blocks /\ c \in block /\ ~HasBucket(bucket, t, c)
<1>5. /\ block_chunk' \in [Synchronizers -> [Blocks -> ChunkTables]]
      /\ \A t \in Synchronizers, c \in Blocks :
           block_chunk'[t][c] = IF Gone(t, c) THEN NoChunks ELSE block_chunk[t][c]
  BY <1>1, <1>2, NoChunksFacts DEF ChunksAfter, BucketsInv
<1>6. \A t \in Synchronizers, c \in Blocks : Gone(t, c) => ~HasBucket(bucket, t, c)
  BY <1>3, <1>4
<1>7. \A t \in Synchronizers, c \in Blocks : RowInv(bucket[t][c], block_chunk'[t][c], c)
  <2> SUFFICES ASSUME NEW t \in Synchronizers, NEW c \in Blocks
               PROVE  RowInv(bucket[t][c], block_chunk'[t][c], c)
    OBVIOUS
  <2>1. RowInv(bucket[t][c], block_chunk[t][c], c)
    BY <1>1 DEF BucketsInv
  <2>2. CASE HasBucket(bucket, t, c)
    BY <1>5, <1>6, <2>1, <2>2
  <2>3. CASE ~HasBucket(bucket, t, c)
    BY <2>1, <2>3 DEF RowInv, HasBucket
  <2> QED
    BY <2>2, <2>3
<1>8. ConsensusInv'
  <2>1. consensus_block' \cap block' = {}
    BY <1>2, <1>3
  <2>2. ASSUME NEW c \in Blocks, c \in consensus_block'
        PROVE  /\ uploader'[c] # NoAccount
               /\ ~HasBucket(bucket, uploader'[c], c)
               /\ Flattened(block_chunk'[uploader'[c]][c]) = Content[c]
    <3>1. c \in consensus_block /\ Height[c] # Height[b] /\ uploader'[c] = uploader[c] /\ c \notin block
      BY <1>2, <1>3, <2>2
    <3>2. ~Gone(uploader[c], c)
      BY <3>1
    <3> HIDE DEF Gone
    <3>3. block_chunk'[uploader[c]][c] = block_chunk[uploader[c]][c]
      BY <1>3, <1>5, <3>1, <3>2
    <3> QED
      BY <1>3, <1>4, <3>1, <3>3 DEF Data
  <2>3. \A c \in Blocks : c \notin consensus_block' => uploader'[c] = NoAccount
    BY <1>2
  <2> QED
    BY <1>2, <2>1, <2>2, <2>3 DEF ConsensusInv, HasBucket, Data
<1>9. ChunksHaveOwners'
  <2> SUFFICES ASSUME NEW t \in Synchronizers, NEW c \in Blocks, block_chunk'[t][c] # NoChunks
               PROVE  HasBucket(bucket, t, c) \/ c \in block' \/ t = uploader'[c]
    BY <1>2 DEF ChunksHaveOwners, HasBucket, NoChunks
  <2>1. ~Gone(t, c) /\ block_chunk[t][c] # NoChunks
    BY <1>5
  <2>2. HasBucket(bucket, t, c) \/ c \in block \/ t = uploader[c]
    BY <1>1, <2>1 DEF BucketsInv, ChunksHaveOwners
  <2>3. CASE t = uploader[c]
    <3>1. c \in consensus_block
      BY <1>3, <1>4, <2>3
    <3>2. CASE Height[c] = Height[b]
      BY <1>2, <2>1, <2>3, <3>2
    <3>3. CASE Height[c] # Height[b]
      BY <1>2, <2>3, <3>1, <3>3
    <3> QED
      BY <3>2, <3>3
  <2> QED
    BY <1>2, <2>2, <2>3
<1>10. RetainedInv'
  <2> SUFFICES ASSUME NEW c \in block' \ {Genesis},
                      \A a \in block' : HeightOf(a) < Height[c] + num_retain_data_blocks
               PROVE  \E t \in Synchronizers : /\ ~HasBucket(bucket, t, c)
                                               /\ Flattened(block_chunk'[t][c]) = Content[c]
    BY <1>2 DEF RetainedInv, HasBucket, Data, HeightOf
  <2>1. c \in Blocks /\ Height[c] \in Nat /\ Height[b] \in Nat /\ HeightOf(b) = Height[b]
    BY <1>2, <1>3, HeightFacts
  <2>2. Height[b] < Height[c] + num_retain_data_blocks
    BY <1>2, <2>1
  <2>3. PICK t \in Synchronizers : ~HasBucket(bucket, t, c) /\ Data(t, c) = Content[c]
    <3>1. CASE c = b
      BY <1>2, <1>3, <3>1
    <3>2. CASE c # b
      <4>1. c \in block \ {Genesis} /\ \A a \in block : HeightOf(a) < Height[c] + num_retain_data_blocks
        BY <1>2, <3>2
      <4> QED
        BY <1>1, <4>1 DEF BucketsInv, RetainedInv
    <3> QED
      BY <3>1, <3>2
  <2>4. Height[c] # Height[b] - num_retain_data_blocks
    BY <2>1, <2>2, HeightFacts
  <2>5. c = b \/ Height[c] # Height[b]
    <3> SUFFICES ASSUME c # b PROVE Height[c] # Height[b]
      OBVIOUS
    <3>1. HeightOf(c) < Height[b] /\ HeightOf(c) = Height[c]
      BY <1>2, <2>1, HeightFacts
    <3> QED
      BY <2>1, <3>1
  <2>6. ~Gone(t, c)
    BY <2>4, <2>5
  <2> HIDE DEF Gone
  <2> QED
    BY <1>5, <2>1, <2>3, <2>6 DEF Data
<1>11. /\ uploader' \in [Blocks -> Synchronizers \cup {NoAccount}]
       /\ block' \subseteq Blocks \cup {Genesis} /\ consensus_block' \subseteq Blocks
  BY <1>2, <1>3
<1>12. BucketsInv'
  BY <1>1, <1>2, <1>5, <1>7, <1>8, <1>9, <1>10, <1>11 DEF BucketsInv
<1>13. ASSUME NEW c \in Blocks PROVE PassedInv(c)'
  <2>1. PassedInv(c)
    BY <1>1 DEF VerifiedTables
  <2>2. check_consensus(c) => check_consensus(c)'
    BY <1>2, HeightFacts DEF check_consensus, HeightOf
  <2> QED
    BY <1>2, <2>1, <2>2 DEF PassedInv
<1>14. MinerComesFirst'
  BY <1>1, <1>2 DEF VerifiedTables, MinerComesFirst
<1>15. VerifiedTables'
  BY <1>1, <1>2, <1>13, <1>14 DEF VerifiedTables
<1> QED
  BY <1>12, <1>15, TwoPartsNext

\* The window of a miner expires.
LEMMA MinerWindowExpiresStep ==
  ASSUME BlockSyncInv, NEW b \in Blocks, MinerWindowExpires(b)
  PROVE  BlockSyncInv'
<1>1. /\ miner_window' = miner_window \ {b}
      /\ UNCHANGED <<bucket, block_chunk, passed_index, block_miner, consensus_block, uploader, block>>
  BY DEF MinerWindowExpires, bucketVars
<1>2. BucketsInv /\ VerifiedTables
  BY TwoParts
<1>3. BucketsInv'
  BY <1>1, <1>2 DEF BucketsInv, ConsensusInv, ChunksHaveOwners, RetainedInv, HasBucket, Data, HeightOf
<1>4. \A c \in Blocks : PassedInv(c)'
  BY <1>1, <1>2 DEF VerifiedTables, PassedInv, check_consensus, HeightOf
<1>5. MinerComesFirst'
  BY <1>1, <1>2 DEF VerifiedTables, MinerComesFirst
<1>6. VerifiedTables'
  BY <1>1, <1>2, <1>4, <1>5 DEF VerifiedTables
<1> QED
  BY <1>3, <1>6, TwoPartsNext

\* The invariant holds of empty tables,
LEMMA InitBlockSyncInv == BlockSyncSpecInit => BlockSyncInv
<1> SUFFICES ASSUME BlockSyncSpecInit PROVE BlockSyncInv
  OBVIOUS
<1>1. /\ bucket = [s \in Synchronizers |-> [b \in Blocks |-> NoBucket]]
      /\ block_chunk = [s \in Synchronizers |-> [b \in Blocks |-> NoChunks]]
      /\ passed_index = [b \in Blocks |-> << >>] /\ block_miner = {} /\ miner_window = {}
      /\ consensus_block = {} /\ block = {Genesis} /\ uploader = [b \in Blocks |-> NoAccount]
  BY DEF BlockSyncSpecInit, BlockSyncInit, SyncInit
<1>2. NoBucket \in BucketType
  BY DEF NoBucket, BucketType, NoInfo, InfoType, Uploads
<1>3. \A s \in Synchronizers, b \in Blocks : RowInv(bucket[s][b], block_chunk[s][b], b)
  BY <1>1 DEF RowInv, NoBucket
<1>4. ConsensusInv /\ ChunksHaveOwners /\ RetainedInv
  BY <1>1 DEF ConsensusInv, ChunksHaveOwners, RetainedInv
<1>5. BucketsInv
  BY <1>1, <1>2, <1>3, <1>4, NoChunksFacts DEF BucketsInv
<1>6. \A b \in Blocks : passed_index[b] = << >> /\ DOMAIN passed_index[b] = {}
  BY <1>1
<1>7. VerifiedTables
  BY <1>1, <1>6, EmptySeq DEF VerifiedTables, PassedInv, MinerComesFirst, IsInjective, Range
<1> QED
  BY <1>5, <1>7, TwoParts

\* and every action keeps it.
LEMMA StepKeepsBlockSyncInv ==
  ASSUME BlockSyncInv, [BlockSyncStep]_uploadVars
  PROVE  BlockSyncInv'
<1>1. ASSUME NEW s \in Synchronizers, NEW b \in Blocks, Upload(s, b) \/ VerifyData(s, b),
             UNCHANGED <<syncTables, consensus_block, uploader, block, synchronizer>>
      PROVE  BlockSyncInv'
  BY <1>1, UploadStep
<1>2. ASSUME NEW s \in Synchronizers, NEW b \in Blocks, DelBucket(s, b) \/ VerifyWaits(s, b),
             UNCHANGED <<consensus_block, uploader, block, synchronizer>>
      PROVE  BlockSyncInv'
  BY <1>2, DelBucketStep, VerifyWaitsStep
<1>3. ASSUME NEW s \in Synchronizers, NEW b \in Blocks, VerifyChain(s, b), UNCHANGED block
      PROVE  BlockSyncInv'
  BY <1>3, VerifyChainStep
<1>4. ASSUME NEW b \in Blocks, ChainProceeds(b) PROVE BlockSyncInv'
  BY <1>4, ChainProceedsStep
<1>5. ASSUME NEW b \in Blocks, EndorsementArrives(b) PROVE BlockSyncInv'
  BY <1>5, ReadyAsItIs, BlockStoredStep DEF EndorsementArrives
<1>6. ASSUME NEW b \in Blocks, MinerWindowExpires(b) PROVE BlockSyncInv'
  BY <1>6, MinerWindowExpiresStep
<1>7. CASE UNCHANGED uploadVars
  BY <1>7 DEF uploadVars, bucketVars, syncTables, BlockSyncInv, BlockSyncTypeOK, SyncTypeOK,
     PassedInv, MinerComesFirst, ConsensusInv, ChunksHaveOwners, RetainedInv,
     HasBucket, Data, check_consensus, HeightOf
<1> QED
  BY <1>1, <1>2, <1>3, <1>4, <1>5, <1>6, <1>7 DEF BlockSyncStep

-----------------------------------------------------------------------------
\* Whatever uploads, deletions and verifications interleave, each bucket agrees with its
\* chunks and with the stage verify has reached of it, the rows of passed_index are buckets
\* that were verified, and the data of the stored blocks is kept.
THEOREM BlockSyncInvHolds == BlockSyncSpec => []BlockSyncInv
<1>1. BlockSyncInv /\ [BlockSyncNext]_blockSyncVars => BlockSyncInv'
  BY StepKeepsBlockSyncInv DEF BlockSyncNext, blockSyncVars
<1> QED
  BY InitBlockSyncInv, <1>1, PTL DEF BlockSyncSpec

\* What pushchunk and delchunk count in the bucket is what its chunks hold, so that
\* a bucket which verify accepts has all of its data.
THEOREM BucketsMatchChunksHolds == BlockSyncSpec => []BucketsMatchChunks
<1>1. BlockSyncInv => BucketsMatchChunks
  BY DEF BlockSyncInv, BucketsMatchChunks, RowInv, HasBucket, Data
<1> QED
  BY BlockSyncInvHolds, <1>1, PTL

\* The data that a block in consensus is parsed from is the block, whoever uploaded it
\* and whatever the others still delete.
THEOREM ConsensusDataIsTheBlockHolds == BlockSyncSpec => []ConsensusDataIsTheBlock
<1>1. BlockSyncInv => ConsensusDataIsTheBlock
  BY DEF BlockSyncInv, BlockSyncTypeOK, ConsensusInv, ConsensusDataIsTheBlock
<1> QED
  BY BlockSyncInvHolds, <1>1, PTL

\* What is kept of check_merkle is a prefix of the data, in each stage of verify.
LEMMA InvGivesVerifiedPrefix == BlockSyncInv => VerifiedPrefix
<1>1. ASSUME BlockSyncInv, NEW s \in Synchronizers, NEW b \in Blocks,
             bucket[s][b].status \in Uploads \cup {"none"}
      PROVE  bucket[s][b].verify_info = NoInfo
  BY <1>1 DEF BlockSyncInv, RowInv, VerifiedInv, NoBucket
<1>2. ASSUME BlockSyncInv, NEW s \in Synchronizers, NEW b \in Blocks,
             bucket[s][b].status \notin Uploads \cup {"none"}
      PROVE  /\ bucket[s][b].verify_info # NoInfo
             /\ IsPrefix(bucket[s][b].verify_info.relay, Tail(Data(s, b)))
  <2> DEFINE row == bucket[s][b]
             d == Data(s, b)
             relay == row.verify_info.relay
             n == Len(relay)
  <2>1. row \in BucketType /\ d \in Seq(Units) /\ Len(d) \in Nat
    BY <1>2, RowTypes DEF BlockSyncInv
  <2>2. VerifiedInv(row, d, b) /\ row.status \in
          {"verify_merkle", "verify_parent_hash", "waiting_miner_verification", "verify_pass"}
    BY <1>2, <2>1 DEF BlockSyncInv, RowInv, Data, BucketType, in_verifiable, Uploads
  <2>3. relay \in Seq(Units) /\ n \in Nat /\ NoInfo.relay = << >>
    BY <2>1 DEF BucketType, InfoType, NoInfo
  <2>4. row.status = "verify_merkle" =>
          n \in 1..(row.verify_info.num - 1) /\ 1 + n <= Len(d) /\ relay = SubSeq(d, 2, 1 + n)
    BY <2>2 DEF VerifiedInv
  <2>5. row.status # "verify_merkle" => d = Content[b] /\ relay = Tail(d)
    BY <2>2 DEF VerifiedInv
  <2>6. Len(Content[b]) > 1 /\ Content[b] \in Seq(Units)
    BY BlockSyncAssumption
  <2> HIDE DEF d, relay, n
  <2>7. n > 0 /\ 1 + n <= Len(d) /\ relay = SubSeq(d, 2, 1 + n)
    <3>1. CASE row.status = "verify_merkle"
      BY <2>3, <2>4, <3>1
    <3>2. CASE row.status # "verify_merkle"
      <4>1. d # << >> /\ Len(d) > 1
        BY <2>5, <2>6, <3>2, EmptySeq
      <4>2. Len(relay) = Len(d) - 1 /\ relay = SubSeq(d, 2, Len(d))
        BY <2>1, <2>5, <3>2, <4>1, HeadTailProperties, TailIsSubSeq
      <4>3. 1 + n = Len(d)
        BY <2>1, <4>2 DEF n
      <4>4. n > 0 /\ 1 + n <= Len(d)
        BY <2>1, <2>3, <4>1, <4>3
      <4>5. relay = SubSeq(d, 2, 1 + n)
        BY ONLY <4>2, <4>3, Zenon
      <4> QED
        BY <4>4, <4>5
    <3> QED
      BY <3>1, <3>2
  <2>8. row.verify_info # NoInfo
    BY <2>3, <2>7, EmptySeq DEF n, relay
  <2>9. IsPrefix(relay, Tail(d))
    <3>1. d # << >>
      BY <2>1, <2>3, <2>7, EmptySeq
    <3>2. /\ Tail(d) \in Seq(Units) /\ Len(Tail(d)) = Len(d) - 1
          /\ \A i \in 1..Len(Tail(d)) : Tail(d)[i] = d[i + 1]
      BY <2>1, <3>1, HeadTailProperties
    <3>3. SubSeq(relay, 1, n) = relay
      BY <2>3, SubSeqFull DEF n
    <3>4. SubSeq(Tail(d), 1, n) = relay
      <4>1. Tail(d) = SubSeq(d, 2, Len(d))
        BY <2>1, <3>1, TailIsSubSeq
      <4>2. 2 \in 1..Len(d) /\ Len(d) \in 1..Len(d) /\ 1 \in 1..(Len(d) - 2 + 1) /\ n \in 1..(Len(d) - 2 + 1)
            /\ 2 + 1 - 1 = 2 /\ 2 + n - 1 = 1 + n
        BY <2>1, <2>3, <2>7
      <4>3. SubSeq(SubSeq(d, 2, Len(d)), 1, n) = SubSeq(d, 2 + 1 - 1, 2 + n - 1)
        BY ONLY <2>1, <4>2, SubSeqOfSubSeq
      <4> QED
        BY <2>7, <4>1, <4>2, <4>3
    <3>5. n <= Len(Tail(d))
      BY <2>1, <2>3, <2>7, <3>2
    <3> QED
      BY <3>3, <3>4, <3>5 DEF IsPrefix, n
  <2> QED
    BY <2>8, <2>9 DEF relay, d
<1> QED
  BY <1>1, <1>2 DEF VerifiedPrefix

\* What the batches of check_merkle have gathered is a prefix of the transactions in the
\* chunks, and a bucket to be uploaded has gathered nothing: no chunk changes under them.
THEOREM VerifiedPrefixHolds == BlockSyncSpec => []VerifiedPrefix
BY BlockSyncInvHolds, InvGivesVerifiedPrefix, PTL

\* A verification on file is one of a bucket that still exists and is marked, until the
\* height is settled: find_miner and the endorsements read it without looking.
THEOREM PassedRowsHaveBucketsHolds == BlockSyncSpec => []PassedRowsHaveBuckets
<1>1. ASSUME BlockSyncInv, NEW b \in Blocks, NEW s \in Synchronizers, ~check_consensus(b),
             NEW i \in DOMAIN passed_index[b], passed_index[b][i] = s
      PROVE  /\ bucket[s][b].status \in {"verify_pass", "waiting_miner_verification"}
             /\ bucket[s][b].verify_info # NoInfo
  <2>1. bucket[s][b].status \in {"verify_pass", "waiting_miner_verification"}
    BY <1>1 DEF BlockSyncInv, PassedInv
  <2>2. VerifiedPrefix
    BY <1>1, InvGivesVerifiedPrefix
  <2> QED
    BY <2>1, <2>2 DEF VerifiedPrefix, Uploads
<1>2. BlockSyncInv => PassedRowsHaveBuckets
  BY <1>1 DEF PassedRowsHaveBuckets
<1> QED
  BY BlockSyncInvHolds, <1>2, PTL

\* While the miner has time to verify its block, its verification is the first on file if
\* there is one: the block is taken from the first row.
THEOREM MinerComesFirstHolds == BlockSyncSpec => []MinerComesFirst
<1>1. BlockSyncInv => MinerComesFirst
  BY DEF BlockSyncInv
<1> QED
  BY BlockSyncInvHolds, <1>1, PTL

\* Chunks without a bucket belong to a block that is irreversible or to the uploader of
\* one that is in consensus: delbucket leaves none behind.
THEOREM ChunksHaveOwnersHolds == BlockSyncSpec => []ChunksHaveOwners
<1>1. BlockSyncInv => ChunksHaveOwners
  BY DEF BlockSyncInv
<1> QED
  BY BlockSyncInvHolds, <1>1, PTL

\* The chunks of the last num_retain_data_blocks blocks are not deleted.
THEOREM RetainedBlocksHaveDataHolds == BlockSyncSpec => []RetainedBlocksHaveData
<1>1. BlockSyncInv => RetainedBlocksHaveData
  BY DEF BlockSyncInv, RetainedInv, RetainedBlocksHaveData
<1> QED
  BY BlockSyncInvHolds, <1>1, PTL
=============================================================================
