CONSTANTS
  o1 = o1  o2 = o2  o3 = o3  t1 = t1  t2 = t2
  NULL = NULL
  Obj <- MCObj
  Thread <- MCThread
  MaxRef = 2
  InitSlots = 2
  MaxSlots = 4
  MaxCloses = 1
  Fallible = {"objectGetInd"}
  ConcurrentOps = {"addref", "release"}
  UInt32 = 6
SPECIFICATION Spec
VIEW View
SYMMETRY Symm
INVARIANT NoAbandonedNative
