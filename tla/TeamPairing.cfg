SPECIFICATION FairSpec
CONSTANTS
  Nodes = {"a", "b", "c"}
  Offers = {"red1", "red2"}
  TeamOf <- MCTeamOf
  JoinRetryMax = 2
  MaxSessions = 3
  MaxNonce = 3
CHECK_DEADLOCK FALSE
INVARIANTS
  TypeOK
  KeyAgreement
PROPERTY SessionsEnd
