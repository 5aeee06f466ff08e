SPECIFICATION FairSpec
CONSTANTS
  MaxTry = 0
  Setups <- SetupsChecked
CHECK_DEADLOCK FALSE
INVARIANTS HandlersReady JoinedBeforeRelease
PROPERTIES ClientsAreAccepted ReportIsMade 
