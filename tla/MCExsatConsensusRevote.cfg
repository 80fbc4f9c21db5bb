CONSTANTS
  g = g
  a1 = a1
  a2 = a2
  a3 = a3
  v1 = v1
  v2 = v2
  x1 = x1
  s1 = s1
  s2 = s2
  c1 = c1
  NoAccount = NoAccount
  Blocks = {a1, a2, a3}
  Height <- MCHeight
  MaxHeight = 3
  Validators = {v1, v2}
  XsatValidators = {}
  Synchronizers = {s1, s2}
  Configs <- BtcOnly
  ProducedLimits = {0}
  Miner <- MCMiner
  MaxStake = 1
  Stakers = {}
  Genesis = g
  Prev <- MCPrev
  Work <- MCHeight
  Coins = {c1}
  Ops <- MCOps
  IRREVERSIBLE_BLOCKS = 2
  ProcessRows = {1}
  num_validators_per_distribution = 1
  retained_spent_utxo_blocks = 1
SPECIFICATION ConsensusSpec
INVARIANT RewardedBlockReachedConsensus
CONSTRAINTS RevoteAt1 OneRevote
CHECK_DEADLOCK FALSE
