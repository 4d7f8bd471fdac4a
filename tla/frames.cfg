CONSTANTS
  WordBits = 3
  NWords = 4
  NReserved = 2
SPECIFICATION Spec
INVARIANT BitmapExact
PROPERTY ImplementsFrameSet
