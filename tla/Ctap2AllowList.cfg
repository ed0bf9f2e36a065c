CONSTANTS
  CredIds = {id1, id2}
  Rps = {rp1, rp2}
  OtherLength = OtherLength
  Nothing = Nothing
  MAX_CREDENTIALS = 2
  MaxCount = 2
  MaxAllow = 2
  WriteOutcomes <- Reliable
  OpenOutcomes <- Reliable
SPECIFICATION CtapSpec
INVARIANTS AllowListHonoured
