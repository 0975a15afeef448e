SPECIFICATION Spec
CONSTANTS
  Symbols = {s1}
  NoSymbol = NoSymbol
  MaxQty = 1
  MaxWorking = 2
  CloseGrace = 3
INVARIANTS NeverShort
