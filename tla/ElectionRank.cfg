CONSTANTS
  pub1 = pub1 pub2 = pub2 own = own other = other
  NoSeed = NoSeed
  Bad = Bad
  Seeds = {own, other}
  Own = own
  Base = 4
  Width = 3
  Pubs = {pub1, pub2}
  Self = pub1
  Cells = {pub1}
  Output <- TwoOutputs
  Pid <- TwoPids
  Weights <- TwoWeights
  EpochLength = 1
  SlotsPerLeader = 1
  MaxSlot = 1
  MaxEpoch = 1
  Heard = {0}
  Odd <- TwoSeeds
SPECIFICATION Spec
INVARIANT RankedByScore
CHECK_DEADLOCK FALSE
