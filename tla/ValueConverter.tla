--------------------------- MODULE ValueConverter ---------------------------
(***************************************************************************)
(* The value paths of dpiObject.c: dpiObject_getAttributeValue,            *)
(* dpiObject_setAttributeValue, dpiObject_getElementValueByIndex and       *)
(* dpiObject_setElementValueByIndex, with the conversions they call        *)
(* (dpiObject__toOracleValue, dpiObject__fromOracleValue) and the scratch  *)
(* buffer release that follows every write (dpiObject__clearOracleValue).  *)
(*                                                                         *)
(* One object has one attribute, "attr", and is paired with a collection   *)
(* whose elements sit at the indexes Idx.  Their Oracle types are fixed    *)
(* when the objects are created, so Init chooses them.  Values are         *)
(* abstracted to small sets: integers stand for int64 and double values    *)
(* (a double also counts half-seconds when it stands for a date), a byte   *)
(* string is Text(i), the decimal text of i, or the non-numeric Junk, a    *)
(* timestamp is its whole seconds s and a sub-second part f, an object is  *)
(* the tdo of its type, and a LOB is its content.                          *)
(***************************************************************************)
EXTENDS Integers, FiniteSets

CONSTANTS
  OracleTypes,   \* dpiOracleTypeNum values a type may have; "NONE" is 0
  Idx,           \* collection indexes, as names
  IntVals,       \* int64 values callers pass
  DblVals,       \* double and float values callers pass
  Secs,          \* whole seconds of a timestamp
  Tdo,           \* object types; AttrTdo is the attribute's objectType
  AttrTdo,
  Int32Bits,     \* model widths of int32_t and int64_t
  Int64Bits,
  Fallible       \* native calls that may fail

H32 == 2 ^ (Int32Bits - 1)
H64 == 2 ^ (Int64Bits - 1)

ASSUME /\ AttrTdo \in Tdo
       /\ \A i \in IntVals : -H64 <= i /\ i < H64

TextTypes == {"CHAR", "NCHAR", "VARCHAR", "NVARCHAR"}
TimestampTypes == {"TIMESTAMP", "TIMESTAMP_TZ", "TIMESTAMP_LTZ"}
LobTypes == {"CLOB", "NCLOB", "BLOB", "BFILE"}
NativeTypes == {"BYTES", "INT64", "UINT64", "FLOAT", "DOUBLE", "TIMESTAMP",
                "BOOLEAN", "OBJECT", "LOB"}

Text(i) == <<"text", i>>
Junk == <<"junk", 0>>
Bytes == {Text(i) : i \in IntVals} \cup {Junk}
Stamps == [s : Secs, f : {0, 1}]

\* the values a caller can put in a dpiData of each dpiNativeTypeNum
NativeVals(nt) ==
  CASE nt = "BYTES" -> Bytes
    [] nt = "INT64" -> IntVals
    [] nt = "UINT64" -> {i \in IntVals : i >= 0}
    [] nt \in {"FLOAT", "DOUBLE"} -> DblVals
    [] nt = "TIMESTAMP" -> Stamps
    [] nt = "BOOLEAN" -> BOOLEAN
    [] nt = "OBJECT" -> Tdo
    [] nt = "LOB" -> Bytes

\* a dpiData, and equally a native value with its null indicator
Null == [isNull |-> TRUE, val |-> "none"]
Val(v) == [isNull |-> FALSE, val |-> v]
Datas(nt) == {Null} \cup {Val(v) : v \in NativeVals(nt)}

Absent == [isNull |-> TRUE, val |-> "absent"]   \* an index with no element
NoWrite == [nt |-> "none", d |-> Null]
Slots == {"attr"} \cup Idx

\* (int32_t) applied to an int64: two's complement truncation
Cast32(i) == ((i + H32) % (2 * H32)) - H32

\* a double counts half-seconds (dpiDataBuffer__toOracleTimestampFromDouble,
\* dpiDataBuffer__fromOracleTimestampAsDouble)
StampOfDoubleWholeSeconds(d) == [s |-> d \div 2, f |-> 0]
StampOfDouble(d) == [s |-> d \div 2, f |-> d % 2]
DoubleOfStamp(t) == 2 * t.s + t.f

\* an OCIDate keeps whole seconds (dpiDataBuffer__toOracleDate)
DateOfStampKeepsFraction(t) == t
DateOfStamp(t) == [s |-> t.s, f |-> 0]

VARIABLES
  attrType,   \* attr->typeInfo.oracleTypeNum
  elemType,   \* obj->type->elementTypeInfo.oracleTypeNum
  attrVal,    \* the native attribute value
  elem,       \* the native element at each index, or Absent
  written,    \* the last successful write to each slot: its type and data
  last,       \* the last call and its outcome
  leaked,     \* scratch allocations no clear released
  badFree     \* pointers a clear released that no conversion allocated

vars == <<attrType, elemType, attrVal, elem, written, last, leaked, badFree>>

-----------------------------------------------------------------------------
(* dpiObject__toOracleValue.  buf is the pointer held in the scratch       *)
(* dpiOracleDataBuffer (a union, uninitialised on entry: "garbage"), lob   *)
(* the dpiLob pointer the caller initialised to NULL.  The result carries  *)
(* the status, the native value and the allocations it made.              *)

ToResult(st, nat, buf, lob) ==
  [st |-> st, nat |-> nat, buf |-> buf, lob |-> lob,
   alloc |-> ({buf} \cap {"string", "raw", "timestamp"})
             \cup (IF lob THEN {"lob"} ELSE {})]

Unhandled(buf) == ToResult("unhandledConv", Null, buf, FALSE)

\* a native allocation: fails (leaving the pointer NULL) when the call fails
Assign(call, tag, nat, fail) ==
  IF call \in fail THEN ToResult("failed", Null, "null", FALSE)
                   ELSE ToResult("ok", nat, tag, FALSE)

\* dpiDataBuffer__toOracleNumberFromText: decimal text to an OCINumber
NumberFromText(v) ==
  IF v = Junk THEN ToResult("failed", Null, "garbage", FALSE)
              ELSE ToResult("ok", Val(v[2]), "garbage", FALSE)

ToOracleValue(ot, nt, d, fail) ==
  LET v == d.val IN
  CASE d.isNull -> ToResult("ok", Null, "null", FALSE)
    [] ot \in TextTypes ->
         IF nt = "BYTES" THEN Assign("stringAssignText", "string", d, fail)
                         ELSE Unhandled("null")
    [] ot = "RAW" ->
         IF nt = "BYTES" THEN Assign("rawAssignBytes", "raw", d, fail)
                         ELSE Unhandled("null")
    [] ot = "NATIVE_INT" /\ nt = "INT64" ->
         ToResult("ok", Val(Cast32(v)), "garbage", FALSE)
    [] ot = "NUMBER" /\ nt \in {"INT64", "DOUBLE"} ->
         ToResult("ok", d, "garbage", FALSE)
    [] ot = "NUMBER" /\ nt = "BYTES" -> NumberFromText(v)
    [] ot = "NATIVE_FLOAT" /\ nt \in {"FLOAT", "DOUBLE"} ->
         ToResult("ok", d, "garbage", FALSE)
    [] ot = "NATIVE_DOUBLE" /\ nt = "DOUBLE" ->
         ToResult("ok", d, "garbage", FALSE)
    [] ot = "DATE" /\ nt = "TIMESTAMP" ->
         ToResult("ok", Val(DateOfStamp(v)), "garbage", FALSE)
    [] ot = "DATE" /\ nt = "DOUBLE" ->
         ToResult("ok", Val(DateOfStamp(StampOfDouble(v))), "garbage", FALSE)
    [] ot \in TimestampTypes ->
         IF nt \notin {"TIMESTAMP", "DOUBLE"} THEN Unhandled("null")
         ELSE IF "descriptorAlloc" \in fail
              THEN ToResult("failed", Null, "null", FALSE)
              ELSE IF "timestampConvert" \in fail
              THEN ToResult("failed", Null, "timestamp", FALSE)
              ELSE ToResult("ok", IF nt = "TIMESTAMP" THEN d
                                  ELSE Val(StampOfDouble(v)),
                            "timestamp", FALSE)
    [] ot = "OBJECT" /\ nt = "OBJECT" ->
         IF v # AttrTdo THEN ToResult("wrongType", Null, "garbage", FALSE)
                        ELSE ToResult("ok", d, "garbage", FALSE)
    [] ot = "BOOLEAN" /\ nt = "BOOLEAN" ->
         ToResult("ok", d, "garbage", FALSE)
    [] ot \in LobTypes ->
        (CASE nt = "LOB" -> ToResult("ok", d, "null", FALSE)
           [] nt = "BYTES" ->
                IF "lobAllocate" \in fail
                THEN ToResult("failed", Null, "null", FALSE)
                ELSE IF "lobSetFromBytes" \in fail
                THEN ToResult("failed", Null, "null", TRUE)
                ELSE ToResult("ok", d, "null", TRUE)
           [] OTHER -> Unhandled("null"))
    [] OTHER -> Unhandled("garbage")

\* a clear that misses the TIMESTAMP_LTZ case
ClearedNoLtz(ot, buf, lob) ==
  CASE ot \in TextTypes \cup {"RAW", "TIMESTAMP", "TIMESTAMP_TZ"} ->
         IF buf = "null" THEN {} ELSE {buf}
    [] ot \in LobTypes -> IF lob THEN {"lob"} ELSE {}
    [] OTHER -> {}

\* dpiObject__clearOracleValue: the pointers it releases, by the type alone
Cleared(ot, buf, lob) ==
  CASE ot \in TextTypes \cup {"RAW"} \cup TimestampTypes ->
         IF buf = "null" THEN {} ELSE {buf}
    [] ot \in LobTypes -> IF lob THEN {"lob"} ELSE {}
    [] OTHER -> {}

-----------------------------------------------------------------------------
(* dpiObject__fromOracleValue: the dpiData read back, and whether a dpiLob *)
(* it allocated is left neither freed nor handed to the caller: owned is   *)
(* what the call still holds when it returns.                              *)

FromResult(st, data, owned) == [st |-> st, data |-> data, leak |-> owned # {}]

\* LobAssignFailed without the dpiLob__free of the temporary dpiLob
LobAssignFailedKeepsLob(owned) == FromResult("failed", Null, owned)

\* OCILobLocatorAssign failing: the temporary dpiLob gets its own locator
\* back and is freed
LobAssignFailed(owned) == FromResult("failed", Null, owned \ {"lob"})

FromOracleValue(ot, nt, nat, fail) ==
  LET v == nat.val
      ok(x) == FromResult("ok", Val(x), {})
  IN
  CASE nat.isNull -> FromResult("ok", Null, {})
    [] ot \in TextTypes \cup {"RAW"} /\ nt = "BYTES" -> ok(v)
    [] ot = "NATIVE_INT" /\ nt = "INT64" -> ok(v)
    [] ot = "NATIVE_FLOAT" /\ nt = "FLOAT" -> ok(v)
    [] ot = "NATIVE_DOUBLE" /\ nt = "DOUBLE" -> ok(v)
    [] ot = "NUMBER" /\ nt \in {"DOUBLE", "INT64"} -> ok(v)
    [] ot = "NUMBER" /\ nt = "UINT64" ->
         IF v < 0 THEN FromResult("failed", Null, {}) ELSE ok(v)
    [] ot = "NUMBER" /\ nt = "BYTES" -> ok(Text(v))
    [] ot \in {"DATE"} \cup TimestampTypes /\ nt = "TIMESTAMP" -> ok(v)
    [] ot \in {"DATE"} \cup TimestampTypes /\ nt = "DOUBLE" ->
         ok(DoubleOfStamp(v))
    [] ot = "OBJECT" /\ nt = "OBJECT" -> ok(v)
    [] ot = "BOOLEAN" /\ nt = "BOOLEAN" -> ok(v)
    [] ot \in LobTypes /\ nt = "LOB" ->
        \* the dpiLob allocated here goes to the caller in data.value.asLOB
        (CASE "lobAllocate" \in fail -> FromResult("failed", Null, {})
           [] "lobLocatorAssign" \in fail -> LobAssignFailed({"lob"})
           [] OTHER -> ok(v))
    [] OTHER -> FromResult("unhandledConv", Null, {})

\* the outcome of a call: native is TRUE once a native (OCI) call was made
Outcome(op, slot, nt, st, data, native) ==
  [op |-> op, slot |-> slot, nt |-> nt, st |-> st, data |-> data,
   native |-> native]

-----------------------------------------------------------------------------
\* the attribute and the elements never interact, so giving the collection
\* the attribute's type loses no behaviour of either
Init ==
  /\ attrType \in OracleTypes
  /\ elemType = attrType
  /\ attrVal = Null
  /\ elem \in [Idx -> {Null, Absent}]
  /\ written = [s \in Slots |-> NoWrite]
  /\ last = Outcome("none", "attr", "BYTES", "ok", Null, FALSE)
  /\ leaked = {}
  /\ badFree = {}

\* a call fails at its first failing native call, so one failure per call
\* reaches every outcome
FailSets == {{}} \cup {{c} : c \in Fallible}

\* the write paths share their tail: toOracleValue, the OCI store when the
\* conversion succeeded, and dpiObject__clearOracleValue whatever happened
WriteTail(slot, ot, nt, d, storeCall, fail) ==
  LET r == ToOracleValue(ot, nt, d, fail)
      stored == r.st = "ok" /\ storeCall \notin fail
      freed == Cleared(ot, r.buf, r.lob)
  IN
  /\ IF stored
     THEN /\ written' = [written EXCEPT ![slot] = [nt |-> nt, d |-> d]]
          /\ IF slot = "attr" THEN attrVal' = r.nat /\ UNCHANGED elem
                              ELSE elem' = [elem EXCEPT ![slot] = r.nat]
                                   /\ UNCHANGED attrVal
     ELSE UNCHANGED <<written, attrVal, elem>>
  /\ leaked' = leaked \cup (r.alloc \ freed)
  /\ badFree' = badFree \cup (freed \ r.alloc)
  /\ last' = Outcome("set", slot, nt,
                     IF r.st = "ok" /\ ~stored THEN "failed" ELSE r.st,
                     d, TRUE)

\* the dpiLob a read leaves behind, unless it stopped before converting
ReadLeak(stopped, ot, nt, nat, fail) ==
  IF ~stopped /\ FromOracleValue(ot, nt, nat, fail).leak THEN {"lob"} ELSE {}

\* dpiObject_setAttributeValue: the attribute must belong to the object's
\* type and have a supported type before anything is converted
SetAttributeValue(nt, d, foreign) ==
  \E fail \in FailSets :
    CASE foreign ->
           /\ last' = Outcome("set", "attr", nt, "wrongAttr", d, FALSE)
           /\ UNCHANGED <<attrVal, elem, written, leaked, badFree>>
      [] attrType = "NONE" ->
           /\ last' = Outcome("set", "attr", nt, "unhandledType", d, FALSE)
           /\ UNCHANGED <<attrVal, elem, written, leaked, badFree>>
      [] OTHER -> WriteTail("attr", attrType, nt, d, "objectSetAttr", fail)

\* dpiObject_setElementValueByIndex: OCICollAssignElem fails for an index
\* past the end of the collection
SetElementValueByIndex(i, nt, d) ==
  \E fail \in FailSets :
    WriteTail(i, elemType, nt, d, "collAssignElem",
              IF elem[i] = Absent THEN fail \cup {"collAssignElem"} ELSE fail)

\* dpiObject_getAttributeValue: OCIObjectGetAttr runs before the check that
\* the attribute's type is supported
GetAttributeValue(nt, foreign) ==
  \E fail \in FailSets :
    /\ last' =
         CASE foreign -> Outcome("get", "attr", nt, "wrongAttr", Null, FALSE)
           [] "objectGetAttr" \in fail ->
                Outcome("get", "attr", nt, "failed", Null, TRUE)
           [] attrType = "NONE" ->
                Outcome("get", "attr", nt, "unhandledType", Null, TRUE)
           [] OTHER ->
                LET r == FromOracleValue(attrType, nt, attrVal, fail)
                IN Outcome("get", "attr", nt, r.st, r.data, TRUE)
    /\ leaked' = leaked \cup ReadLeak(foreign \/ "objectGetAttr" \in fail
                                     \/ attrType = "NONE",
                                     attrType, nt, attrVal, fail)
    /\ UNCHANGED <<attrType, elemType, attrVal, elem, written, badFree>>

\* dpiObject_getElementValueByIndex: OCICollGetElem, then INVALID_INDEX when
\* no element exists there
GetElementValueByIndex(i, nt) ==
  \E fail \in FailSets :
    /\ last' =
         CASE "collGetElem" \in fail ->
                Outcome("get", i, nt, "failed", Null, TRUE)
           [] elem[i] = Absent -> Outcome("get", i, nt, "invalidIndex", Null, TRUE)
           [] OTHER ->
                LET r == FromOracleValue(elemType, nt, elem[i], fail)
                IN Outcome("get", i, nt, r.st, r.data, TRUE)
    /\ leaked' = leaked \cup ReadLeak("collGetElem" \in fail \/ elem[i] = Absent,
                                     elemType, nt, elem[i], fail)
    /\ UNCHANGED <<attrType, elemType, attrVal, elem, written, badFree>>

Next ==
  \E nt \in NativeTypes :
    \/ \E d \in Datas(nt), foreign \in BOOLEAN :
         SetAttributeValue(nt, d, foreign) /\ UNCHANGED <<attrType, elemType>>
    \/ \E i \in Idx, d \in Datas(nt) :
         SetElementValueByIndex(i, nt, d) /\ UNCHANGED <<attrType, elemType>>
    \/ \E foreign \in BOOLEAN : GetAttributeValue(nt, foreign)
    \/ \E i \in Idx : GetElementValueByIndex(i, nt)

Spec == Init /\ [][Next]_vars

-----------------------------------------------------------------------------
TypeOf(slot) == IF slot = "attr" THEN attrType ELSE elemType

\* the values each Oracle type can hold
OracleVals(ot) ==
  CASE ot \in TextTypes \cup {"RAW"} \cup LobTypes -> Bytes
    [] ot = "NATIVE_INT" -> -H32..(H32 - 1)
    [] ot = "NUMBER" -> IntVals \cup DblVals
    [] ot \in {"NATIVE_FLOAT", "NATIVE_DOUBLE"} -> DblVals
    [] ot = "DATE" -> [s : Secs \cup {d \div 2 : d \in DblVals}, f : {0}]
    [] ot \in TimestampTypes -> Stamps \cup {StampOfDouble(d) : d \in DblVals}
    [] ot = "OBJECT" -> {AttrTdo}
    [] ot = "BOOLEAN" -> BOOLEAN
    [] OTHER -> {}

\* every stored attribute and element holds a value its Oracle type can
\* represent: the conversions write native encodings, never the caller's
TypeOK ==
  /\ attrType \in OracleTypes /\ elemType \in OracleTypes
  /\ attrVal \in {Null} \cup {Val(x) : x \in OracleVals(attrType)}
  /\ \A i \in Idx :
       elem[i] \in {Null, Absent} \cup {Val(x) : x \in OracleVals(elemType)}
  /\ leaked \subseteq {"string", "raw", "timestamp", "lob"}

(* Safety.                                                                 *)

\* every scratch allocation of a conversion (OCIString, OCIRaw, timestamp
\* descriptor, temporary dpiLob) is released by dpiObject__clearOracleValue
\* before the call returns, on success and on every failure path, and the
\* clear never releases the uninitialised or NULL scratch pointer; a read
\* never leaves behind the dpiLob it allocated
ScratchBalanced == leaked = {} /\ badFree = {}

\* the value the spec says a round trip preserves: a DATE keeps whole seconds
Representable(ot, nt, d) ==
  CASE d.isNull \/ ot # "DATE" -> d
    [] nt = "TIMESTAMP" -> Val([s |-> d.val.s, f |-> 0])
    [] OTHER -> Val(2 * (d.val \div 2))

\* reading a slot back with the native type it was last written with gives
\* the value written, up to the precision of the Oracle type (toOracleValue
\* followed by fromOracleValue is the identity on what the type represents)
RoundTrip ==
  [][LET s == last'.slot IN
     (/\ last'.op = "get" /\ last'.st = "ok"
      /\ written[s] # NoWrite /\ written[s].nt = last'.nt)
       => last'.data = Representable(TypeOf(s), last'.nt, written[s].d)]_vars

\* the spec's conversion matrix: (Oracle type, native type) pairs allowed
SpecPairs ==
  ({<<t, "BYTES">> : t \in TextTypes \cup {"RAW"}})
  \cup {<<"NATIVE_INT", "INT64">>, <<"NATIVE_FLOAT", "FLOAT">>,
        <<"NATIVE_DOUBLE", "DOUBLE">>, <<"BOOLEAN", "BOOLEAN">>,
        <<"OBJECT", "OBJECT">>}
  \cup {<<"NUMBER", n>> : n \in {"DOUBLE", "INT64", "UINT64", "BYTES"}}
  \cup {<<t, n>> : t \in {"DATE"} \cup TimestampTypes,
                   n \in {"TIMESTAMP", "DOUBLE"}}
  \cup {<<t, n>> : t \in LobTypes, n \in {"LOB", "BYTES"}}

\* a write of a non-null value is refused as an unhandled conversion exactly
\* when the spec's matrix does not list its pair
WritesFollowSpecMatrix ==
  (/\ last.op = "set" /\ ~last.data.isNull
   /\ last.st \in {"ok", "unhandledConv"})
    => (last.st = "unhandledConv" <=> <<TypeOf(last.slot), last.nt>> \notin SpecPairs)

\* a value of a type with no mapping (oracleTypeNum 0) is refused with
\* UNHANDLED_DATA_TYPE before any native call, for attributes and collection
\* elements alike
UnmappedTypeRefused ==
  (/\ last.op \in {"get", "set"} /\ TypeOf(last.slot) = "NONE"
   /\ last.st # "wrongAttr")
    => last.st = "unhandledType" /\ ~last.native
=============================================================================
