CONSTANTS
  main = main
  runtime = runtime
  controller = controller
  Callback <- MCCallback
  KeyOf <- MCKeyOf
  Initial = {runtime, controller}
  Late = {main}
  MayUnsubscribe = {controller}
  MayClose = TRUE
  MaxEvents = 2
SPECIFICATION FairSpec
INVARIANTS InOrder QuietAfterCleanup
PROPERTIES CloseReturns AllDelivered
CHECK_DEADLOCK FALSE
