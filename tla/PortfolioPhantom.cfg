SPECIFICATION Spec
CONSTANTS
  Symbols = {s1}
  MaxQty = 2
  CloseGrace = 3
  MaxDrift = 2
PROPERTIES NoPhantomClose
