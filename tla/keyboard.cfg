CONSTANTS
  a = a
  A = A
  esc = esc
  prompt = prompt
  Nul = Nul
  Space = Space
  NL = NL
  BS = BS
  Blank = Blank
  Graphic = {a, A, Space, prompt}
  Cols = 2
  Rows = 3
  KlogSize = 1
  BufLimit = 3
  Keys <- SmallKeys
  Prompt <- PromptText
  Unknown <- UnknownText
  EchoWord <- Echo
  ClearWord <- Clear
  Commands <- CommandTable
SPECIFICATION Spec
INVARIANT ScreenShowsLine
PROPERTY ImplementsEditor
