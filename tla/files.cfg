CONSTANTS
  h1 = h1
  h2 = h2
  c1 = c1
  c2 = c2
  none = none
  NoName <- none
  Hosts <- TwoHosts
  Root <- Mounts
  Paths <- TwoPaths
  Names <- TwoNames
  Folders <- OneFolder
  Recents <- Visited
  Bookmarks <- Marked
  Calls <- TwoCalls
SPECIFICATION Spec
INVARIANTS TypeOK ActsWhereShown
