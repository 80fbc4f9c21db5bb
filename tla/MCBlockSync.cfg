CONSTANTS
  g = g
  a1 = a1
  b1 = b1
  a2 = a2
  c1 = c1
  d1 = d1
  s1 = s1
  s2 = s2
  wrong_count = wrong_count
  t1 = t1
  t2 = t2
  NoAccount = NoAccount
  NoHeader = NoHeader
  Blocks = {a1, b1, a2, c1, d1}
  Height <- MCHeight
  MaxHeight = 2
  Validators = {}
  XsatValidators = {}
  Synchronizers = {s1, s2}
  Configs <- OneConfig
  ProducedLimits = {0}
  Genesis = g
  Prev <- MCPrev
  Miner <- MCMiner
  Units = {a1, b1, a2, c1, d1, wrong_count, t1, t2}
  HeaderOf <- MCHeaderOf
  num_transactions <- MCCount
  Content <- MCContent
  Chunks <- MCChunks
  ChunkIds = {0, 1}
  Sizes = {2, 3}
  NumsChunks = {1, 2}
  ExpectedBits = {a1, b1, a2, c1}
  num_slots = 2
  num_txs_per_verification = 1
  num_retain_data_blocks = 1
SPECIFICATION BlockSyncSpec
INVARIANTS BucketsMatchChunks VerifiedPrefix ConsensusDataIsTheBlock
INVARIANTS PassedRowsHaveBuckets MinerComesFirst ChunksHaveOwners RetainedBlocksHaveData
CONSTRAINTS RaceIsPlain UploadIsAlone
CHECK_DEADLOCK FALSE
