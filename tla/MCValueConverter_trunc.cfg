CONSTANTS
  OracleTypes = {"NATIVE_INT"}
  Idx = {"i0"}
  IntVals <- OutOfInt32
  DblVals = {0, 1, 3}
  Secs = {0, 1}
  Tdo = {"T1", "T2"}
  AttrTdo = "T1"
  Int32Bits = 3
  Int64Bits = 5
  Fallible <- AllCalls
SPECIFICATION Spec
PROPERTY RoundTrip
