CONSTANTS
  Texts <- MCTexts
  Readable <- Parses
  AstOf <- TreeOf
  NodesIn <- NodesInText
  MaxLiteral = 9
SPECIFICATION Spec
INVARIANTS PrinterInStep ReadsBackOrKnown GraphIsTree
PROPERTIES FrontEndEnds
CHECK_DEADLOCK FALSE
