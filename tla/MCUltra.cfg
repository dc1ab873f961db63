SPECIFICATION UltraSpec
CONSTANTS
  Machines <- MCMachines
  Settings <- MCSettings
  UltraOn <- MCUltraOn
  Deltas <- MCDeltas
  MaxBoots = 2
  Analytic = Analytic
  MaxInvalid = 1
  SequentialCap = 2
  Off = Off
INVARIANTS
  BestFit
  ToldInFull
PROPERTY UltraEnds
CHECK_DEADLOCK FALSE
