CONSTANTS
  s1 = s1
  s2 = s2
  Sessions = {s1, s2}
  MaxChunks = 2
  ChannelCap = 1
  UpdateCap = 1
  Budget = 1
SPECIFICATION Spec
INVARIANT ClosedStaysOut
SYMMETRY Symmetric
