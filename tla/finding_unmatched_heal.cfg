SPECIFICATION Spec
CONSTANT MaxSteps = 1
INVARIANT HealedLocatorsMatched
CHECK_DEADLOCK FALSE
