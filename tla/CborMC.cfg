CONSTANTS
  Requests <- MCRequests
  Users <- MCUsers
  Counts <- MCCounts
  SigLengths <- MCSigLengths
SPECIFICATION CborSpec
INVARIANTS CborTypeOK InStep ParsedAsSent ResponseIsOneItem AuthDataReads
CHECK_DEADLOCK FALSE
