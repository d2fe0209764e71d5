CONSTANTS
  Fun <- TwoFuns
  Programs <- MainCallsRecursive
  MaxDepth = 3
SPECIFICATION Spec
PROPERTIES InferenceEnds
CHECK_DEADLOCK FALSE
