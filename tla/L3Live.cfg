CONSTANTS
  n1 = n1 n2 = n2 r = r a1 = a1 a2 = a2 b1 = b1 k1 = k1 d1 = d1 d2 = d2
  v1 = v1 v2 = v2 v3 = v3 v4 = v4
  NoBlock = NoBlock
  Nodes = {n1}
  Blocks = {r, a1, a2}
  Parent <- ChainParent
  Height <- ChainHeight
  Cells = {k1}
  OwnCells <- OneCell
  Devices = {d1}
  DeviceCounts = {1}
  Memberships = {4}
  Validators = {v1, v2, v3, v4}
  Certificates <- ThreeSign
  MinCells = 1
  MaxMisbehavior = 1
  Claims = {}
SPECIFICATION FairSpec
INVARIANTS TypeOK
PROPERTIES QuarantineIsHeeded ImplementsFinality CommittedBecomesFinal
