CONSTANTS
  Rps <- OneRp
  CredIds <- OneId
  OtherLength = OtherLength
  Nothing = Nothing
  MAX_CREDENTIALS = 1
  MaxCount = 1
  MaxAllow = 0
  OpenOutcomes <- Reliable
  Peers <- OnePhone
  NoPeer = NoPeer
  Messages <- YesNo
  Deny = "no"
  Challenge = "0"
  NoMessage = NoMessage
  Length <- MCLength
  Polls = 1
  WriteOutcomes <- Reliable
  Builds <- BothBuilds
SPECIFICATION KeyprFairSpec
INVARIANTS KeyprTypeOK SignsOnlyAfterAnswer AsBuiltNeverAsserts
PROPERTIES CommandEnds
