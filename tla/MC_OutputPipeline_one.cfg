CONSTANTS
  s1 = s1
  s2 = s2
  Sessions = {s1}
  MaxChunks = 4
  ChannelCap = 2
  UpdateCap = 1
  Budget = 2
SPECIFICATION FairSpec
INVARIANTS TypeOK OneTaskEach UnreadIsPending
PROPERTIES ImplementsStream OutputIsShown
