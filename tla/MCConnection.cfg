SPECIFICATION FairSpec
CONSTANTS
  Words <- MCWords
  Numerals <- MCDigits
  DigitValue <- MCDigitValue
  MaxHeaders <- MCMaxHeaders
  MaxRequestLine = 8
  MaxHeaderLine = 8
  Wires <- MCWires
  ReadSizes = {1, 3}
  MaxWire = 127
INVARIANTS HeadsAsSent BodiesAsSent PlaceInStream
PROPERTIES EveryMessageArrives BytesConserved
CHECK_DEADLOCK FALSE
