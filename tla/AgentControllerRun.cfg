CONSTANTS
  MaxIterations = 2
  Response <- MCResponse
SPECIFICATION Spec
INVARIANTS AnswersBeforeStep UnansweredAfterFailure
PROPERTY EndsUnlessUnreported
CHECK_DEADLOCK FALSE
