CONSTANTS
  Fun <- Funs
  Programs <- AllPrograms
  MaxDepth = 4
SPECIFICATION Spec
INVARIANTS TypeOK PolymorphicExactly CalleesSolvedFirst
PROPERTIES EndsWithoutRecursion
CHECK_DEADLOCK FALSE
