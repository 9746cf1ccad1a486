SPECIFICATION FairSpec
CONSTANTS
  pipeline = pipeline
  server = server
  main = main
  worker = worker
  Jobs = {pipeline, server}
  Threads = {main, worker}
  Owner <- TwoThreads
  Count <- OneEach
  Endless = {server}
CHECK_DEADLOCK FALSE
PROPERTY StartReturns
