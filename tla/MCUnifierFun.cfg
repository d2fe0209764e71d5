CONSTANTS
  Var <- FunVar
  Cons <- FunCons
  Mu <- NoMu
  Constructor <- FunConstructor
  Args <- FunArgs
  Unfolding <- NoUnfolding
  Batches <- FunBatches
  MaxConstraints = 3
  NoTerm = NoTerm
SPECIFICATION Spec
INVARIANTS TypeOK ForestInv ProperRepresentative NoDebtForgotten NoFalseTypeError SolvedMeansTypable
PROPERTIES ConclusionsKept SolveTerminates ImplementsTheory
CHECK_DEADLOCK FALSE
