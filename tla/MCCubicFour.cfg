CONSTANTS
  Ast <- Four
  Fun <- FourFun
  Elements <- FourElements
  Inclusions <- FourInclusions
  Conditionals <- FourConditionals
  MaxConstraints = 6
SPECIFICATION Spec
INVARIANTS TypeOK Sound CompleteWithoutConditionals InclusionsKept Mirrored AcyclicWhenPropagating
PROPERTIES CallsEnd
CHECK_DEADLOCK FALSE
