CONSTANTS
  s = s
  r = r
  n = n
  t1 = t1
  t2 = t2
  Hosts <- BothHosts
  Nfs <- OneNfs
  Tasks <- TwoTasks
  MaxSessions = 1
  MaxEdits = 0
  MaxDrops = 1
SPECIFICATION FairSpec
PROPERTIES GetServed IdleClosed
