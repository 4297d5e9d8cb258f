CONSTANTS
  self = self p1 = p1 b1 = b1 b2 = b2
  NoBlock = NoBlock
  Blocks = {b1, b2}
  Attesters = {self, p1}
  Self = self
  MinAttesters = 2
  MaxRecent = 1
  Votes <- VotesForOne
SPECIFICATION FairSpec
INVARIANTS TypeOK RecordsAreIndexed
PROPERTIES RecordStaysNotarized ImplementsNotarization EnoughAttestersNotarize
