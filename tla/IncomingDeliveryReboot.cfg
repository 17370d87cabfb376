SPECIFICATION Spec
CONSTANTS
  Messages <- MCMessages
  Lxmf <- MCLxmf
  Conversations <- MCConversations
  ConversationOf <- MCConversationOf
  InboxDepth = 1
  DeferredDepth = 1
  RecentLimit = 2
  DrainBudget = 1
  MaxArrivals = 4
  MaxFaults = 0
  MaxReboots = 1
  MaxClears = 0
INVARIANT LxmfShownOnce
