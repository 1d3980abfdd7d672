CONSTANTS
  h1 = h1
  h2 = h2
  c1 = c1
  c2 = c2
  Hosts <- TwoHosts
  Locked <- OneLocked
  Root <- Mounts
  Paths <- TwoPaths
  Bookmarks <- Marked
  Calls <- TwoCalls
  RecentLimit = 2
SPECIFICATION LiveSpec
INVARIANTS TypeOK ShowsCwd
PROPERTIES PasswordFirst LoadingEnds
