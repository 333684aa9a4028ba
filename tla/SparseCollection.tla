-------------------------- MODULE SparseCollection --------------------------
(***************************************************************************)
(* What the collection calls of dpiObject promise a caller, stated over a  *)
(* sparse array: a partial map from int32 index to element, and the        *)
(* extent (one past the highest index ever appended and not trimmed).      *)
(* Every call records its outcome in res: the status, the value or index   *)
(* it returns and its exists flag.  A call on an object whose type is not  *)
(* a collection changes nothing and fails with "notCollection".            *)
(*                                                                         *)
(* A varray refuses deletion and has a declared limit; a nested table may  *)
(* be sparse.  getSize reports the extent, deleted elements included,      *)
(* while first/last/next/prev and exists see only present elements.       *)
(***************************************************************************)
EXTENDS Integers, FiniteSets, TLC

CONSTANTS
  Vals,           \* element values a caller can store
  Unconvertible,  \* a value the conversion to the element type refuses
  NoValue,        \* the out-parameter a failed or empty call leaves alone
  Capacity,       \* the varray limit, and the bound on a nested table
  IndexArgs,      \* int32 indexes callers pass
  TrimArgs        \* uint32 counts callers pass to trim

VARIABLES isColl, kind, elems, extent, res

vars == <<isColl, kind, elems, extent, res>>

Kinds == {"varray", "table"}
Statuses == {"ok", "notCollection", "conversion", "native", "invalidIndex"}
Present == DOMAIN elems

Outcome(op, st, out, ex) == [op |-> op, st |-> st, out |-> out, exists |-> ex]
Answer(op, out, ex) == res' = Outcome(op, "ok", out, ex) /\ UNCHANGED <<elems, extent>>
Refuse(op, st) == res' = Outcome(op, st, NoValue, FALSE) /\ UNCHANGED <<elems, extent>>

\* the least (first, next) or greatest (last, prev) index of S, if any
Neighbour(op, S) ==
  IF S = {} THEN Answer(op, NoValue, FALSE)
  ELSE Answer(op, CHOOSE j \in S : \A k \in S : IF op \in {"first", "next"}
                                                THEN j <= k ELSE j >= k, TRUE)

Init ==
  /\ isColl \in BOOLEAN
  /\ kind \in Kinds
  /\ elems = [i \in {} |-> NoValue]
  /\ extent = 0
  /\ res = Outcome("none", "ok", NoValue, FALSE)

\* A call on a non-collection, and a value the element type cannot take
Rejects(op, v) ==
  \/ ~isColl /\ Refuse(op, "notCollection")
  \/ isColl /\ v = Unconvertible /\ Refuse(op, "conversion")

Append(v) ==
  \/ Rejects("append", v)
  \/ /\ isColl /\ v # Unconvertible
     /\ extent < Capacity
     /\ elems' = [i \in Present \cup {extent} |-> IF i = extent THEN v ELSE elems[i]]
     /\ extent' = extent + 1
     /\ res' = Outcome("append", "ok", NoValue, FALSE)
  \/ isColl /\ v # Unconvertible /\ extent = Capacity /\ kind = "varray"
     /\ Refuse("append", "native")

\* An index inside the extent whose element was deleted may or may not be
\* assigned again: the native layer decides, and the call reports it.
SetElement(i, v) ==
  \/ Rejects("set", v)
  \/ /\ isColl /\ v # Unconvertible
     /\ \/ /\ i \in 0..extent-1
           /\ elems' = [j \in Present \cup {i} |-> IF j = i THEN v ELSE elems[j]]
           /\ res' = Outcome("set", "ok", NoValue, FALSE)
           /\ UNCHANGED extent
        \/ i \notin Present /\ Refuse("set", "native")

GetElement(i) ==
  \/ Rejects("get", NoValue)
  \/ isColl /\ i \in Present /\ Answer("get", elems[i], TRUE)
  \/ isColl /\ i \notin Present /\ Refuse("get", "invalidIndex")

ElementExists(i) ==
  \/ Rejects("exists", NoValue)
  \/ isColl /\ Answer("exists", NoValue, i \in Present)

Delete(i) ==
  \/ Rejects("delete", NoValue)
  \/ /\ isColl /\ kind = "table" /\ i \in Present
     /\ elems' = [j \in Present \ {i} |-> elems[j]]
     /\ res' = Outcome("delete", "ok", NoValue, FALSE)
     /\ UNCHANGED extent
  \/ isColl /\ (kind = "varray" \/ i \notin Present) /\ Refuse("delete", "native")

Size ==
  \/ Rejects("size", NoValue)
  \/ isColl /\ Answer("size", extent, FALSE)

FirstIndex ==
  \/ Rejects("first", NoValue)
  \/ isColl /\ Neighbour("first", Present)

LastIndex ==
  \/ Rejects("last", NoValue)
  \/ isColl /\ Neighbour("last", Present)

NextIndex(i) ==
  \/ Rejects("next", NoValue)
  \/ isColl /\ Neighbour("next", {j \in Present : j > i})

PrevIndex(i) ==
  \/ Rejects("prev", NoValue)
  \/ isColl /\ Neighbour("prev", {j \in Present : j < i})

Trim(n) ==
  \/ Rejects("trim", NoValue)
  \/ /\ isColl /\ n <= extent
     /\ elems' = [j \in {k \in Present : k < extent - n} |-> elems[j]]
     /\ extent' = extent - n
     /\ res' = Outcome("trim", "ok", NoValue, FALSE)
  \/ isColl /\ n > extent /\ Refuse("trim", "native")

Inputs == Vals \cup {Unconvertible}

Next ==
  /\ UNCHANGED <<isColl, kind>>
  /\ \/ \E v \in Inputs : Append(v)
     \/ \E i \in IndexArgs, v \in Inputs : SetElement(i, v)
     \/ \E i \in IndexArgs : \/ GetElement(i) \/ ElementExists(i) \/ Delete(i)
                             \/ NextIndex(i) \/ PrevIndex(i)
     \/ Size \/ FirstIndex \/ LastIndex
     \/ \E n \in TrimArgs : Trim(n)

Spec == Init /\ [][Next]_vars
=============================================================================
