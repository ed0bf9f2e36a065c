CONSTANTS
  HID_PACKET_SIZE = 9
  SeqNumbers = 3
  MaxLength = 14
  MaxMessages = 2
  LoseInitMidway = FALSE
SPECIFICATION FramingSpec
INVARIANTS FramingTypeOK WholeMessage NothingIsMissing
PROPERTIES CopiesInside
CHECK_DEADLOCK FALSE
