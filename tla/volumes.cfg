SPECIFICATION Spec
CONSTANTS
  dir = dir
  fileA = fileA
  fileB = fileB
  link = link
  usb = usb
  hfs = hfs
  msdos = msdos
  Threads = {t1, t2, t3}
  Vnodes = {dir, link, usb}
  Vops = {hfs, msdos}
  Entries = {e1, e2, e3}
  VopOf <- TwoVopOf
  Parent <- TwoParent
  DiskVnodes = {dir, usb}
  HookOps <- ShortHookOps
  KnownOps = {"reclaim", "lookup"}
  NoThread = NoThread
  NoVnode = NoVnode
  NoEntry = NoEntry
  Filter = Filter
  MaxAuth = 2
SYMMETRY Symmetry
INVARIANT Inv
PROPERTY UsesLife
