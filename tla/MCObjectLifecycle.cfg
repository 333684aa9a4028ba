CONSTANTS
  o1 = o1  o2 = o2  o3 = o3  t1 = t1  t2 = t2
  NULL = NULL
  Obj <- MCObj
  Thread <- MCThread
  MaxRef = 2
  InitSlots = 1
  MaxSlots = 3
  MaxCloses = 1
  Fallible = {"objectNew", "objectCopy"}
  ConcurrentOps = {"addref", "release"}
  UInt32 = 5
SPECIFICATION Spec
VIEW View
SYMMETRY Symm
INVARIANT NoOrphanNative
INVARIANT RegistryConsistent
INVARIANT NoReadOfFreedInstance
INVARIANT NoAbandonedNative
