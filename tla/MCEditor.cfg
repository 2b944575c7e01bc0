SPECIFICATION Spec
CONSTANTS
  Initial <- MCInitial
  Browsers <- MCBrowsers
  OpIds <- MCOpIds
  CatchUpLimit = 1
  TextSize = 2
  MaxClosed <- MCMaxClosed
INVARIANTS
  TypeOK
  ConfirmedIsServers
  EditorsAgree
  AckKeepsDisplay
CHECK_DEADLOCK FALSE
