CONSTANTS
  Channels <- TwoChannels
  c1 = c1
  c2 = c2
  NoChannel = NoChannel
  MaxChunks = 2
  MaxMessages = 2
  HostCommands <- NoCommands
  Patience <- AnyHost
  SendOutcomes <- Reliable
SYMMETRY Symmetry
SPECIFICATION HidSpec
INVARIANTS AlwaysWhole
CHECK_DEADLOCK FALSE
