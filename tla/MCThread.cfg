\* Three workers that start, join and free each other, with failing native calls
\* and a failing hook registration.  A ring of joins, which blocks, is part of the
\* statement of JoinReturns, so deadlock is not an error.
CONSTANTS
  h1 = h1
  h2 = h2
  h3 = h3
  Handles = {h1, h2, h3}
  Main = Main
  None = None
  HookFails = TRUE
SPECIFICATION FairSpec
INVARIANTS OneOwner ExitIsReal RegistryStable
PROPERTIES ImplementsFuture JoinReturns
CHECK_DEADLOCK FALSE
