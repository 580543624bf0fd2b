SPECIFICATION Spec
CONSTANTS
  NoFile = NoFile
  Torn = Torn
  Bots = 3
  MaxLost = 1
  MaxRestarts = 2
INVARIANTS
  TypeOK
  ArchiveIsUnion
  RoundTripShown
  
\* A behaviour stops when every report was made and has arrived or is lost.
CHECK_DEADLOCK FALSE
