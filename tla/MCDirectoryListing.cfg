SPECIFICATION ListingSpec
CONSTANTS
  Trees <- MCTrees
  Roots <- MCRoots
  Unreadable = {"locked"}
  MaxSymlinks = 2
INVARIANTS
  ListingTypeOK
  NoPartialListing
PROPERTIES
  ListingEnds
CHECK_DEADLOCK FALSE
