CONSTANTS
  s = s
  r = r
  n = n
  t1 = t1
  t2 = t2
  Hosts <- ThreeHosts
  Nfs <- OneNfs
  Tasks <- TwoTasks
  MaxSessions = 2
  MaxEdits = 1
  MaxDrops = 0
SYMMETRY TaskSymmetry
SPECIFICATION Spec
INVARIANTS PoolSound
PROPERTIES OwnSettings
