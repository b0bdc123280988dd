SPECIFICATION InputSpec
CONSTANTS
  e1 = e1
  e2 = e2
  e3 = e3
  Order <- MCOrder
  LongNames = {}
  Cut <- MCUncut
  Word = 8
  Pads <- MCPads
  Kind <- MCKind
  Answers <- MCAnswers
INVARIANT ClearDefaultClears
