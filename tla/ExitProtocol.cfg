SPECIFICATION FairSpec
CONSTANTS
  Symbols = {s1}
  NoSymbol = NoSymbol
  MaxQty = 2
  MaxWorking = 2
  CloseGrace = 3
INVARIANTS TypeOK OneClaimant NoOrphanClaim
PROPERTIES Reprotected
