SPECIFICATION FairSpec
CONSTANTS
  Symbols <- MCSymbols
  MySymbols <- MCMySymbols
  Refusals = {"tooFast"}
  MaxObjects = 3
  MaxClicks = 3
  MaxDrops = 1
  MaxErrors = 1
CHECK_DEADLOCK FALSE
INVARIANTS
  TypeOK
  TdCommandsLive
  LoginedAlive
  StopOrder
  StopNotForgotten
  TdLoginNotForgotten
  ReloadClean
PROPERTIES
  TdLogsIn
  ImplementsLifecycle
