SPECIFICATION HexSpec
CONSTANTS
  bits = 9
  BITS_PER_LONG = 4
  Bitmaps <- All
  Others <- Few
  CHUNKSZ = 2
  DIGITSZ = 1
  HexDigits <- BinaryDigits
  Texts <- SomeTexts
INVARIANTS HexTypeOK ParsesMasks MaskRoundTrip
PROPERTIES ImplementsBitSet StaysClean
CHECK_DEADLOCK FALSE
