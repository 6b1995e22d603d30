SPECIFICATION Spec
CONSTANTS
  NumCh = 2
  TxqSize = 2
  AclCredits = 1
  LocalCids = {1}
  FirstCid = 10
  Allowed = {"avdtp"}
  Psms = {"avdtp", "other"}
  PeerCids = {1, 2}
  Questions = {"INFO"}
  None = None
  Data = TRUE
  Burst = TRUE
  PeerRejects = TRUE
  WireMax = 1
  MaxDyn = 2
  MaxLinks = 1
INVARIANTS CreditsConserved ResponsesBacked 
