CONSTANTS
  v1 = v1
  v2 = v2
  v3 = v3
  v4 = v4
  s1 = s1
  s2 = s2
  m1 = m1
  m2 = m2
  Validators = {v1, v2, v3, v4}
  RewardScopes = {"btc", "xsat"}
  Staking <- MCStaking
  Subsidies = {50}
  Rates <- TwoVersions
  RATE_BASE = 10
  num_validators_per_distribution = 2
  Clients = {s1, s2}
  Costs <- MCCosts
  Deposits = {20, 60}
  Pools = {s1, s2}
  Miners = {m1, m2}
  DEFAULT_NUM_SLOTS = 1
  MAX_NUM_SLOTS = 2
  ReceiverOrder <- MCOrder
  Masked <- MCMasked
  GasConfigs <- MCConfigs
  RATE_BASE_10000 = 10
  InitialHeight = 1
  MaxHeight = 4
  Scenarios <- AllScenarios
SPECIFICATION MCSpec
INVARIANTS RewardsConserved ShareIndependentOfBatch
INVARIANTS FeesAreHeld FeesCanBeShared PoolsKeepTheirs
PROPERTIES FeesFollowRewards
CHECK_DEADLOCK FALSE
