SPECIFICATION FairSpec
CONSTANTS
  Main = main
  Workers = {w1}
  Mortal = {main}
  MaxCalls = 3
  MaxUnits = 2
  MaxAsks = 1
  ForkCalls = 2
CHECK_DEADLOCK FALSE
INVARIANT HelpersInHand OwnStatics
PROPERTY ImplementsRemoteCall NoWaitForNothing
