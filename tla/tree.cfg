CONSTANTS
  r = r
  d = d
  e = e
  f = f
  g = g
  h = h
  k = k
  l = l
  none = none
  Dirs <- AllDirs
  Files <- AllFiles
  Links <- TwoLinks
  Top = r
  Broken = none
  Trees <- AllTrees
  MaxFaults = 3
SPECIFICATION LiveSpec
INVARIANTS NothingLost NoLoop
PROPERTIES Ends
