SPECIFICATION Spec
CONSTANTS
  dir = dir
  fileA = fileA
  fileB = fileB
  link = link
  usb = usb
  hfs = hfs
  msdos = msdos
  Threads = {t1, t2}
  Vnodes = {dir, fileA, fileB}
  Vops = {hfs}
  Entries = {e1, e2, e3}
  VopOf <- VolumeVopOf
  Parent <- VolumeParent
  DiskVnodes = {dir, fileA, fileB}
  HookOps <- ShortHookOps
  KnownOps = {"reclaim", "lookup"}
  NoThread = NoThread
  NoVnode = NoVnode
  NoEntry = NoEntry
  Filter = Filter
  MaxAuth = 3
SYMMETRY Symmetry
INVARIANTS TypeOK RefsExact SlotsMatchTable ForwardsToOriginal CounterInRange
PROPERTY ReclaimHookedFirst
