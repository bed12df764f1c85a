SPECIFICATION FairSpec
CONSTANTS
  Entry = 4
  FirstStop = 2
  Target = 8
  Rules <- MCRules
  Bars <- MCBars
  MaxBars = 3
  MaxUnseen = 2
  MaxFaults = 1
INVARIANTS
  RestingStopIsKnown
PROPERTIES
  StopNeverLoosens
  TradesSettle
