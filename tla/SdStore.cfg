SPECIFICATION StoreSpec
CONSTANTS
  m1 = m1
  m2 = m2
  c1 = c1
  Conversations = {c1}
  Messages = {m1, m2}
  ConversationOf <- MCConversationOf
  None = None
  Deleted = Deleted
  MaxTroubles = 1
  MaxPowerLosses = 1
  MaxRows = 3
SYMMETRY MCSymmetry
INVARIANTS
  StoreTypeOK
  CommittedIsFound
  MarksKept
  HashesKept
PROPERTY TextStoreSpec
