CONSTANTS
  o1 = o1  o2 = o2  o3 = o3  t1 = t1  t2 = t2
  NULL = NULL
  Obj <- MCObj2
  Thread <- MCThread
  MaxRef = 2
  InitSlots = 1
  MaxSlots = 2
  MaxCloses = 1
  Fallible = {"objectNew", "objectGetInd", "addHandle", "objectFree", "indicatorFree", "objectCopy"}
  ConcurrentOps = {"addref", "release"}
  UInt32 = 4
SPECIFICATION Spec
VIEW View
SYMMETRY Symm2
INVARIANT TypeOK
INVARIANT NoDoubleFree
INVARIANT CloseOnLiveRecord
