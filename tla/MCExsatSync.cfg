CONSTANTS
  g = g
  a1 = a1
  a2 = a2
  a3 = a3
  v1 = v1
  s1 = s1
  s2 = s2
  t1 = t1
  NoAccount = NoAccount
  NoHeader = NoHeader
  Blocks = {a1, a2, a3}
  Height <- MCHeight
  MaxHeight = 3
  Validators = {v1}
  XsatValidators = {}
  Synchronizers = {s1, s2}
  Configs <- OneConfig
  ProducedLimits = {0}
  Miner <- MCMiner
  Genesis = g
  Prev <- MCPrev
  Work <- MCHeight
  Coins = {}
  Ops <- MCOps
  IRREVERSIBLE_BLOCKS = 2
  ProcessRows = {1}
  num_validators_per_distribution = 1
  retained_spent_utxo_blocks = 1
  Units = {a1, a2, a3, t1}
  HeaderOf <- MCHeaderOf
  num_transactions <- MCCount
  Content <- MCContent
  Chunks <- MCChunks
  ChunkIds = {0}
  Sizes = {2}
  NumsChunks = {1}
  ExpectedBits = {a1, a2, a3}
  num_slots = 1
  num_txs_per_verification = 2
  num_retain_data_blocks = 1
SPECIFICATION ExsatSyncSpec
CHECK_DEADLOCK FALSE
INVARIANTS ReadyBlocksHaveAWaiter ParsedDataIsTheBlock
PROPERTIES UtxoSpec
CONSTRAINTS PushesOwnContent SecondUploadsAt1
