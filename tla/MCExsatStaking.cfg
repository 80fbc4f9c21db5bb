CONSTANTS
  v1 = v1
  v2 = v2
  n1 = n1
  dp = dp
  xp = xp
  cp = cp
  ep = ep
  a1 = a1
  a2 = a2
  XSAT = XSAT
  Tokens = {t1}
  max_row = 1
  valid_blocks = 1
  Quotas = {1}
  Validators = {v1, v2}
  NativeStakers = {n1}
  Accounts = {n1}
  EvmStakers <- MCEvmStakers
  Addresses = {a1, a2}
  btc_deposit_proxy = dp
  xsat_deposit_proxy = xp
  CreditProxies = {cp}
  MIN_BTC_STAKE_FOR_VALIDATOR = 2
  RATE_BASE = 12
  RATE_BASE_10000 = 2
  Amounts = {1, 2}
  Commissions = {0, 1}
  BaseStakes <- MCBases
  Rewards <- MCRewards
  CreditWeights = {1, 2}
  MaxHeight = 2
  Scenarios <- AllScenarios
SYMMETRY Symmetry
SPECIFICATION MCSpec
INVARIANTS StakesAddUp RewardsCovered StakesCanBeWithdrawn StakesAreBacked CreditInCustody RoundsFilledInOrder
PROPERTIES DueIsKept
CHECK_DEADLOCK FALSE
