CONSTANTS
  Peers <- MCPeers
  NoPeer = NoPeer
  Messages <- MCMessages
  Deny = "no"
  Challenge = "0"
  NoMessage = NoMessage
  Length <- MCLength
  Polls = 2
  Builds <- WithCallback
SPECIFICATION BleFairSpec
INVARIANTS BleTypeOK OnlyTrustedStays GrantNeedsWrite
PROPERTIES GateEnds RejectedIsDropped
