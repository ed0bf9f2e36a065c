CONSTANTS
  Channels <- TwoChannels
  c1 = c1
  c2 = c2
  NoChannel = NoChannel
  MaxChunks = 3
  MaxMessages = 2
  HostCommands <- Commands
  Patience <- AnyHost
  SendOutcomes <- Fallible
SYMMETRY Symmetry
SPECIFICATION HidSpec
INVARIANTS HidTypeOK PendingIsWhole ReassemblyInStep WholeMessages
PROPERTIES AnswersItsRequest
CHECK_DEADLOCK FALSE
