\* The daily loss limit and the process that docker starts after it.
SPECIFICATION Spec
CONSTANTS
  Symbol = {s, t}
  Phases <- Sessions
  DayLoss = 1
  WeekLoss = 2
  MaxNav = 2
  OvernightHold = TRUE
  Liquidate = FALSE
  MaxTrouble = 1
INVARIANTS
  LossLimitEndsTheDay
\* The sessions that are followed end.
CHECK_DEADLOCK FALSE
