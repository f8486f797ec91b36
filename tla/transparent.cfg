SPECIFICATION FairSpec
CONSTANTS
  dir = dir
  fileA = fileA
  hfs = hfs
  Threads = {t1, t2}
  Vnodes = {dir, fileA}
  Vops = {hfs}
  Entries = {e1, e2}
  VopOf <- VolumeVopOf
  Parent <- VolumeParent
  DiskVnodes = {dir, fileA}
  HookOps <- ShortHookOps
  KnownOps = {"reclaim", "lookup"}
  NoThread = NoThread
  NoVnode = NoVnode
  NoEntry = NoEntry
  Filter = Filter
  MaxAuth = 2
PROPERTIES CallsAreShort Transparent CallsComplete
