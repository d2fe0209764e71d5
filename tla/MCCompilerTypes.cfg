CONSTANTS
  Programs <- MCPrograms
  Bits = 8
  MaxLiteral = 127
  Inputs <- MCInputs
  MaxFrames = 8
SPECIFICATION Spec
INVARIANT WellTypedNeverWrong
