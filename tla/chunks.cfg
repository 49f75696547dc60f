SPECIFICATION Spec
CONSTANTS
  Bytes <- AllBytes
  Streams <- EditedTexts
  HexLimit = 2
  Power <- PowersOf16
CHECK_DEADLOCK FALSE
INVARIANTS TypeOK SizeNeverWraps UnreadIsIntact SplitDoesNotMatter LeftIsTheTail
