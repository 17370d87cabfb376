SPECIFICATION FairSpec
CONSTANTS
  Keys <- MCKeys
  Conversations <- MCConversations
  ConversationOf <- MCConversationOf
  PendingOutboundDepth = 1
  PendingStatusDepth = 1
  TrackedDepth = 1
  StoreUpserts = TRUE
  HalfStorable <- MCHalfStorable
INVARIANTS
  TypeOK
  SecondRowNeedsRefusal
  PublishedStatusIsKept
  ReadersSeeLastEvent
  TrackedIsCurrent
PROPERTIES OutboxSpec PendingWritesDrain
