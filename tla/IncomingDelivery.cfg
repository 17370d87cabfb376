SPECIFICATION FairSpec
CONSTANTS
  Messages <- MCMessages
  Lxmf <- MCLxmf
  Conversations <- MCConversations
  ConversationOf <- MCConversationOf
  InboxDepth = 1
  DeferredDepth = 1
  RecentLimit = 2
  DrainBudget = 1
  MaxArrivals = 4
  MaxFaults = 1
  MaxReboots = 1
  MaxClears = 1
INVARIANTS
  TypeOK
  AcceptedIsDurable
  TakenIsAccountedFor
  OnceWhileUndisturbed
PROPERTIES
  ShownOncePerWindow
  DeferredDrains
  TextStoreSpec
