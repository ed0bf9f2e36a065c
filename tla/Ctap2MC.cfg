CONSTANTS
  CredIds = {id1, id2, id3}
  Rps = {rp1, rp2}
  OtherLength = OtherLength
  Nothing = Nothing
  MAX_CREDENTIALS = 2
  MaxCount = 2
  MaxAllow = 1
  WriteOutcomes <- Fallible
  OpenOutcomes <- Fallible
SYMMETRY Symmetry
SPECIFICATION CtapSpec
INVARIANTS CtapTypeOK AckedIsStored UniqueIds FullMeansFull
PROPERTIES AssertsOwnCredential CounterNeverGoesBack CounterGrows UsesStore VaultSpec
