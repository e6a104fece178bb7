CONSTANTS
  main = main
  runtime = runtime
  controller = controller
  Callback <- MCCallback
  KeyOf <- MCKeyOf
  Initial = {runtime, controller}
  Late = {}
  MayUnsubscribe = {controller}
  MayClose = FALSE
  MaxEvents = 1
SPECIFICATION Spec
INVARIANT DispatcherSurvives
CHECK_DEADLOCK FALSE
