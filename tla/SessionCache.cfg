SPECIFICATION RSpec
CONSTANTS
  Sizes = {0, 1, 4}
  Ids = {1, 2, 3, 4, 5}
  Forgets = {2}
  Params <- MCParams
  Saved <- MCSaved
  Nothing = nothing
INVARIANTS
  TypeOK
  ListHasAll
  TreeFindsAll
PROPERTY
  ImplementsCache
