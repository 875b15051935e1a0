SPECIFICATION CommandSpec
CONSTANTS
  nmaskbits = 12
  BITS_PER_LONG = 4
  Unsigned = 64
  Texts <- ShortTexts
  CommandLines <- AllCommandLines
  MAX_PROCESSES = 3
  IntSpan = 16
INVARIANTS CommandTypeOK ParsesLists RoundTripNonEmpty RunsAsAsked
CHECK_DEADLOCK FALSE
