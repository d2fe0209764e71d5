CONSTANTS
  Function = {f, g}
  CallSite = {s1, s2}
  NullFun = NullFun
  MaxQueries = 3
SPECIFICATION Spec
INVARIANTS AnswersAreOfTheProgram
CHECK_DEADLOCK FALSE
