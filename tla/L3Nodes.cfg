CONSTANTS
  n1 = n1 n2 = n2 r = r a1 = a1 a2 = a2 b1 = b1 k1 = k1 d1 = d1 d2 = d2
  v1 = v1 v2 = v2 v3 = v3 v4 = v4
  NoBlock = NoBlock
  Nodes = {n1, n2}
  Blocks = {r, a1}
  Parent <- PairParent
  Height <- PairHeight
  Cells = {}
  OwnCells <- NobodyHasCell
  Devices = {d1}
  DeviceCounts = {1}
  Memberships = {4, 5}
  Validators = {v1, v2, v3, v4}
  Certificates <- ThreeSign
  MinCells = 1
  MaxMisbehavior = 2
  Claims = {r}
SPECIFICATION Spec
INVARIANTS FinalIsSupported
