SPECIFICATION Spec
CONSTANTS

  Symbols = {s1}
  Price <- MCPrice
  Qty = {1}
  StopBps = {250}
  TakeBps = {300}
  GapBps = {100}
  StopLossBp = 250
  BreakevenBp = 10
  ThresholdBp = 75
  ConfigGapBp = 80
  StepTenths = 15
  MaxAdds = 1
  MaxQty = 2
  OrphanGrace = 3
INVARIANTS TypeOK RestartLosesNothing ArmedMeansProven StopIsReachable
  
