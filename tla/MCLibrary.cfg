SPECIFICATION LibrarySpec
CONSTANTS
  MaxConsecutiveDenials = 3
  MaxRecentDenials = 4
  DenialWindowSize = 6
  MaxReviews = 11
  Symbols = {"<", "a", "b"}
  TagChoices <- MCTags
  EntryLines = {"b"}
  IdLines = {"a"}
  MaxText = 8
  MaxChunk = 2
  MaxMessages = 2
  NoLimit = NoLimit
  LimitChoices = {NoLimit, 1}
  MaxItems = 5
  None = None
  ToolNames = {1, 2, 3}
  Terms = {"mail", "send"}
  DeferredText <- MCText
  Capabilities = {"read", "write", "any"}
  BadCapabilities = {"any"}
  ProfileChoices <- MCProfiles
  Queries <- MCQueries
  SearchLimits = {0, 1, 2}
INVARIANT LibraryTypeOK
INVARIANT TripsExactlyOnFirstExcess
INVARIANT ShownIsVisible
INVARIANT MessagesMatchStream
INVARIANT OldTextIsData
INVARIANT PromptKeepsConversation
INVARIANT RunsOnlyWithCapabilities
INVARIANT NothingRunsUnreviewed
INVARIANT OffersAreExact
CHECK_DEADLOCK FALSE
