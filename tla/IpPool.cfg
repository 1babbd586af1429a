CONSTANTS
  Base = 2
  six = six
  V6 = {six}
  Texts <- ManyTexts
  Parsers <- BothParsers
  MaxLen = 33
SPECIFICATION Spec
INVARIANTS PoolTypeOK PoolIsLines
PROPERTIES ParsingEnds RangesShrink
CHECK_DEADLOCK FALSE
