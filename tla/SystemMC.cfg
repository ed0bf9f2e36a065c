CONSTANTS
  CredIds = {id1, id2}
  Rps = {rp1}
  MAX_CREDENTIALS = 1
  MaxCount = 4
  OtherLength = OtherLength
  Nothing = Nothing
  MaxAllow = 0
  WriteOutcomes <- Fallible
  OpenOutcomes <- Reliable
  Channels <- OneChannel
  NoChannel = "none"
  MaxChunks = 3
  MaxMessages = 3
  HostCommands <- Commands
  Patience <- PatientHost
  SendOutcomes <- Reliable
SPECIFICATION SystemFairSpec
INVARIANTS SystemTypeOK
PROPERTIES RunsOnce ToldItsOutcome AcceptedIsHandled RequestIsAnswered
CHECK_DEADLOCK FALSE
