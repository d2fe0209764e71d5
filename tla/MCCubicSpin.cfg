CONSTANTS
  Ast <- Three
  Fun <- OneFun
  Elements <- SpinElements
  Inclusions <- SpinInclusions
  Conditionals <- NoConditionals
  MaxConstraints = 5
SPECIFICATION Spec
PROPERTIES CallsReturn
CHECK_DEADLOCK FALSE
