\* The book of one symbol, one tracker, two agents; what must get somewhere.
SPECIFICATION MCSpec
CONSTANTS
  Symbols = {s1}
  MaxQty = 2
  CloseGrace = 3
  MaxDrift = 2
INVARIANTS
  TypeOK
PROPERTIES
  GraceRespected
  
  Converges
  StopIsServed
  HungAgentIsRestarted
