CONSTANT MaxRetries = 1
SPECIFICATION Spec
INVARIANT ConflictIsValid
CHECK_DEADLOCK FALSE
