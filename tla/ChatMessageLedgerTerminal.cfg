SPECIFICATION Spec
CONSTANTS
  Keys <- MCKeys
  Conversations <- MCConversations
  ConversationOf <- MCConversationOf
  PendingOutboundDepth = 1
  PendingStatusDepth = 1
  TrackedDepth = 2
  StoreUpserts = TRUE
  HalfStorable <- MCHalfStorable
PROPERTY DeliveredIsTerminal
