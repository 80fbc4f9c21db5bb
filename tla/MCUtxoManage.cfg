CONSTANTS
  g = g
  a1 = a1
  a2 = a2
  a3 = a3
  b1 = b1
  b2 = b2
  a4 = a4
  v1 = v1
  s1 = s1
  s2 = s2
  c1 = c1
  c2 = c2
  c3 = c3
  c4 = c4
  NoAccount = NoAccount
  Blocks = {a1, b1, a2, b2, a3, a4}
  Height <- MCHeight
  MaxHeight = 4
  Validators = {v1}
  XsatValidators = {}
  Synchronizers = {s1, s2}
  Configs <- BtcOnly
  ProducedLimits = {0}
  Miner <- MCMiner
  Genesis = g
  Prev <- MCPrev
  Work <- MCWork
  Coins = {c1, c2, c3, c4}
  Ops <- MCOps
  IRREVERSIBLE_BLOCKS = 2
  ProcessRows = {0, 2, 4}
  num_validators_per_distribution = 1
  retained_spent_utxo_blocks = 1
SPECIFICATION MCSpec
INVARIANTS LedgerInv MigratedBlockIsParsed NoRowsBelowTip ParentsReachedConsensus
INVARIANTS UtxoSetIsLedger NoSecondConsensus
PROPERTIES ImplementsIrreversibleChain
CHECK_DEADLOCK FALSE
