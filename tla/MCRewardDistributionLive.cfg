CONSTANTS
  v1 = v1
  v2 = v2
  v3 = v3
  v4 = v4
  Validators = {v1, v2, v3}
  RewardScopes = {"btc", "xsat"}
  Staking <- MCStaking
  Subsidies = {50}
  Rates <- TwoVersions
  RATE_BASE = 10
  num_validators_per_distribution = 1
SPECIFICATION FairRewardSpec
PROPERTY RewardsAreDistributed
CHECK_DEADLOCK FALSE
