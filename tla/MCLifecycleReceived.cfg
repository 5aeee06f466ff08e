SPECIFICATION Spec
CONSTANTS
  MaxTry = 0
  Setups <- SetupsChecked
CHECK_DEADLOCK FALSE
INVARIANT ReceivedAreHandled
