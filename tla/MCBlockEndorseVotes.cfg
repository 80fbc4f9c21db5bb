CONSTANTS
  a1 = a1
  b1 = b1
  a2 = a2
  b2 = b2
  v1 = v1
  v2 = v2
  v3 = v3
  x1 = x1
  s1 = s1
  s2 = s2
  s3 = s3
  s4 = s4
  Blocks = {a1, b1, a2}
  Height <- HeightFork
  MaxHeight = 2
  Validators = {v1, v2, v3}
  XsatValidators = {}
  Synchronizers = {}
  MaxStake = 1
  Configs <- TwoConfigs
  Stakers = {v1}
  ProducedLimits = {0}
SPECIFICATION EndorseSpec
INVARIANTS EndorseInv ForkNeedsDoubleVotes
PROPERTIES ElectorateFrozen MigratingEndorsementsFrozen
SYMMETRY MCSymmetry
