CONSTANTS
  Ast <- Five
  Fun <- OneFun
  Elements <- MissedElements
  Inclusions <- MissedInclusions
  Conditionals <- MissedConditionals
  MaxConstraints = 6
SPECIFICATION Spec
INVARIANTS CompleteAtRest
CHECK_DEADLOCK FALSE
