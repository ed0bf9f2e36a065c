CONSTANTS
  Peers <- OnePhone
  NoPeer = NoPeer
  Messages <- YesNo
  Deny = "no"
  Challenge = "0"
  NoMessage = NoMessage
  Length <- MCLength
  Polls = 1
  Builds <- AsBuilt
SPECIFICATION BleFairSpec
PROPERTIES LoginSucceeds
