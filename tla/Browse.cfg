SPECIFICATION BrowseSpec
CONSTANTS
  None = None
  f1 = f1
  f2 = f2
  Filters = {f1, f2}
  Sizes = {2, 3}
  Hits <- MCHits
  Window = 5
  Slots = {k1, k2}
  k1 = k1
  k2 = k2
SYMMETRY Symmetry
INVARIANTS BrowseTypeOK SettledShowsQuery PageHasItsEvents
