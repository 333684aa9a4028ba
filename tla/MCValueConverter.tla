-------------------------- MODULE MCValueConverter --------------------------
(* Instantiates ValueConverter for TLC.  Int32Bits = 3 makes int32_t the  *)
(* range -4..3 and Int64Bits = 5 makes int64_t -16..15, so the values     *)
(* below sit at both ends of int32_t; OutOfInt32 adds one just past it.   *)
EXTENDS ValueConverter

AllTypes ==
  {"NONE", "CHAR", "NCHAR", "VARCHAR", "NVARCHAR", "RAW", "NATIVE_INT",
   "NATIVE_FLOAT", "NATIVE_DOUBLE", "NUMBER", "DATE", "TIMESTAMP",
   "TIMESTAMP_TZ", "TIMESTAMP_LTZ", "OBJECT", "BOOLEAN", "CLOB", "NCLOB",
   "BLOB", "BFILE"}

InInt32 == {-4, -1, 0, 3}
OutOfInt32 == InInt32 \cup {4}

AllCalls ==
  {"objectGetAttr", "objectSetAttr", "collGetElem", "collAssignElem",
   "stringAssignText", "rawAssignBytes", "descriptorAlloc",
   "timestampConvert", "lobAllocate", "lobSetFromBytes", "lobLocatorAssign"}

\* last is written by every call and read by none, so states that differ only
\* in it have the same successors; the passing runs check no state property
\* of it
View == <<attrType, elemType, attrVal, elem, written, leaked, badFree>>
=============================================================================
