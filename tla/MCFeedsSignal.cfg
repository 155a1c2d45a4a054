SPECIFICATION Spec
CONSTANTS
  A = A
  B = B
  Exchanges <- MCExchanges
  Inputs <- MCInputs
  Archive <- MCArchive
  MinBars = 2
  Period = 2
  Day = 2
  Staleness = 1
  SpikeRvol = 90
  MinRvol = 130
  MinBody = 10
  OILag = 5
  MinOI = 2
  OI <- MCOI
  Stamp = 1000
  Start = 10
  MaxTicks = 6
  MaxTime = 13
INVARIANT SignalsAsDocumented
CHECK_DEADLOCK FALSE
