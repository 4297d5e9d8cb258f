CONSTANTS
  n1 = n1 n2 = n2 n3 = n3 n4 = n4
  r = r a1 = a1 a2 = a2 a3 = a3 b1 = b1 b2 = b2 b3 = b3
  NoBlock = NoBlock
  Nodes = {n1}
  Peers = {n2, n3}
  Blocks = {r, a1, a2}
  Parent <- ShortTree
  Height <- ShortHeight
  Ancestors <- ShortAncestors
  Memberships = {3}
  VotesExpire = FALSE
  Subscribers = 1
  Claims = {}
SPECIFICATION FairSpec
INVARIANTS CommitRuleComplete
PROPERTIES ImplementsCheckpoint OrderedChainsCommit PendingResolves
