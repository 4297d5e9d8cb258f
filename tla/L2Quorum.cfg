CONSTANTS
  n1 = n1 n2 = n2 n3 = n3 n4 = n4
  r = r a1 = a1 a2 = a2 a3 = a3 b1 = b1 b2 = b2 b3 = b3
  NoBlock = NoBlock
  Nodes = {n1}
  Peers = {n2, n3, n4}
  Blocks = {a1, b1}
  Parent <- RootsTree
  Height <- RootsHeight
  Ancestors <- RootsAncestors
  Memberships = {2, 4, 5}
  VotesExpire = TRUE
  Subscribers = 2
  Claims = {}
SPECIFICATION Spec
INVARIANTS QCsAreBacked QCsOverlap
SYMMETRY ValidatorSymmetry
