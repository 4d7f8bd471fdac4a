CONSTANTS
  o = o
  x = x
  y = y
  Cols = 2
  Rows = 2
  KlogSize = 5
  Graphic = {o, x, y}
  NL = NL
  BS = BS
  Blank = Blank
  Prompt <- PromptText
  Texts <- HandlerTexts
  MaxDuring = 3
  MaxText = 7
SPECIFICATION Spec
INVARIANTS InBounds LogHoldsLast LogRecovers
