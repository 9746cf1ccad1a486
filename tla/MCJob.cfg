SPECIFICATION FairSpec
CONSTANTS
  pipeline = pipeline
  server = server
  main = main
  worker = worker
  Jobs = {pipeline, server}
  Threads = {main}
  Owner <- OneThread
  Count <- ThreeAndOne
  Endless = {server}
CHECK_DEADLOCK FALSE
INVARIANT PidsExact StatusExact OnlyOwnEnds
PROPERTY OperationsReturn
