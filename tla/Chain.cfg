CONSTANTS
  a1 = a1 a2 = a2 a3 = a3 own3 = own3 x = x
  NoBlock = NoBlock
  Idle = Idle
  Blocks = {a1, a2, a3, own3}
  Own = {own3}
  Parent <- MCParent
  Height <- MCHeight
  Txs = {x}
  TxsOf <- MCTxsOf
  MaxCrashes = 1
  MaxFailures = 1
SPECIFICATION Spec
INVARIANTS NoHoles NoneWaitsInVain LossIsBounded TipIsSound
PROPERTIES QueueDrains
