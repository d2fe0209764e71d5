CONSTANTS
  Programs <- MCPrograms
  Bits = 8
  MaxLiteral = 127
  Inputs <- MCInputs
  MaxFrames = 8
SPECIFICATION Spec
INVARIANTS TypeOK BuiltAsWritten WrongOnlyIfUntyped ValuesHaveTypes NamedCallsPredicted NoAbsentFieldRead PolyRejectsOnlyIf VerdictIsDetermined ClosedAsSolved SelfTestsPass
PROPERTIES EveryRunEnds
