CONSTANTS
  a1 = a1
  b1 = b1
  a2 = a2
  b2 = b2
  v1 = v1
  v2 = v2
  v3 = v3
  x1 = x1
  s1 = s1
  s2 = s2
  s3 = s3
  s4 = s4
  Blocks = {a2}
  Height <- HeightAhead
  MaxHeight = 2
  Validators = {v1, x1}
  XsatValidators = {x1}
  Synchronizers = {s1, s2, s3, s4}
  MaxStake = 1
  Configs <- OneConfig
  Stakers = {}
  ProducedLimits = {0, 1}
SPECIFICATION EndorseSpec
INVARIANTS NoEndorsementsBelowIrreversible
PROPERTIES EndorsementsLeaveByMajority
SYMMETRY MCSymmetry
CONSTRAINT RevoteBound
