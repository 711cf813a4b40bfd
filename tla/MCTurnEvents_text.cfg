\* One message, one reasoning of two parts and one command; a limit between
\* the two widths of a character.
CONSTANTS
  Messages = {m}
  Reasonings = {r}
  Commands = {c}
  Parts = {0, 1}
  Limit = 2
  Glyphs <- TwoGlyphs
  MaxDelta = 2
  MaxSent = 3
  StoreFails = TRUE
SPECIFICATION WriterSpec
INVARIANTS
    TextInv
    LogInArrivalOrder
CHECK_DEADLOCK FALSE
