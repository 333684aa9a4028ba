-------------------------- MODULE CollectionIndex ---------------------------
(***************************************************************************)
(* The collection calls of dpiObject.c (appendElement, deleteElementByIndex,*)
(* getElementExistsByIndex, getElementValueByIndex, getFirstIndex,         *)
(* getLastIndex, getNextIndex, getPrevIndex, getSize,                      *)
(* setElementValueByIndex, trim) over the native collection they drive     *)
(* through OCI.                                                            *)
(*                                                                         *)
(* The native collection (obj->instance) is a sequence of slots; slot i+1  *)
(* holds the element at index i, or Deleted once OCITableDelete removed    *)
(* it.  OCICollSize counts every slot, OCITableSize only those not         *)
(* deleted; the OCITable* neighbour functions skip deleted slots.  Element *)
(* values are opaque here: ValueConverter models their conversion, and     *)
(* Unconvertible stands for an input dpiObject__toOracleValue refuses.     *)
(* Each call's outcome is recorded in res as in SparseCollection, which    *)
(* this module implements.                                                 *)
(***************************************************************************)
EXTENDS Integers, Sequences, FiniteSets, TLC

CONSTANTS Vals, Unconvertible, NoValue, Deleted, Capacity, IndexArgs, TrimArgs

VARIABLES
  isColl,   \* obj->type->isCollection
  kind,     \* a varray or a nested table
  slots,    \* the native collection
  res       \* the outcome of the last public call

vars == <<isColl, kind, slots, res>>

Outcome(op, st, out, ex) == [op |-> op, st |-> st, out |-> out, exists |-> ex]
Reply(op, st, out, ex) == res' = Outcome(op, st, out, ex)

(* ---- the native collection (OCI, outside this file) ------------------- *)

Positions == 0..Len(slots) - 1
Existing == {i \in Positions : slots[i + 1] # Deleted}
CollSize == Len(slots)
TableSize == Cardinality(Existing)

\* OCITableFirst/Last/Next/Prev: the nearest existing index, if any
Nearest(S, least) == CHOOSE j \in S : \A k \in S : IF least THEN j <= k ELSE j >= k

\* OCICollAppend: a varray at its limit refuses; a nested table grows
\* (Capacity bounds it in the model)
CollAppend(v) ==
  /\ kind = "table" => Len(slots) < Capacity
  /\ IF Len(slots) < Capacity
     THEN slots' = Append(slots, v) /\ Reply("append", "ok", NoValue, FALSE)
     ELSE Reply("append", "native", NoValue, FALSE) /\ UNCHANGED slots

\* OCICollAssignElem: an index past the end is an error; a deleted slot of
\* a nested table is either assigned again or refused
CollAssignElem(i, v) ==
  \/ /\ i \in Positions
     /\ slots' = [slots EXCEPT ![i + 1] = v]
     /\ Reply("set", "ok", NoValue, FALSE)
  \/ i \notin Existing /\ Reply("set", "native", NoValue, FALSE) /\ UNCHANGED slots

\* OCITableDelete: only an existing element of a nested table
TableDelete(i) ==
  IF kind = "table" /\ i \in Existing
  THEN slots' = [slots EXCEPT ![i + 1] = Deleted] /\ Reply("delete", "ok", NoValue, FALSE)
  ELSE Reply("delete", "native", NoValue, FALSE) /\ UNCHANGED slots

\* OCICollTrim: removes n slots from the end, deleted ones included
CollTrim(n) ==
  IF n <= Len(slots)
  THEN slots' = SubSeq(slots, 1, Len(slots) - n) /\ Reply("trim", "ok", NoValue, FALSE)
  ELSE Reply("trim", "native", NoValue, FALSE) /\ UNCHANGED slots

(* ---- dpiObject.c ------------------------------------------------------ *)

Init ==
  /\ isColl \in BOOLEAN
  /\ kind \in {"varray", "table"}
  /\ slots = <<>>
  /\ res = Outcome("none", "ok", NoValue, FALSE)

\* dpiObject__checkIsCollection failing: NOT_COLLECTION, no native call
NotCollection(op) ==
  ~isColl /\ Reply(op, "notCollection", NoValue, FALSE) /\ UNCHANGED slots

\* dpiObject__toOracleValue failing: the call ends after the clear
ConversionFails(op, v) ==
  v = Unconvertible /\ Reply(op, "conversion", NoValue, FALSE) /\ UNCHANGED slots

AppendElement(v) ==
  \/ NotCollection("append")
  \/ isColl /\ ConversionFails("append", v)
  \/ isColl /\ v # Unconvertible /\ CollAppend(v)

\* setElementValueByIndex assigning without testing the conversion's status
SetElementValueByIndexUnchecked(i, v) ==
  \/ NotCollection("set")
  \/ isColl /\ CollAssignElem(i, v)

SetElementValueByIndex(i, v) ==
  \/ NotCollection("set")
  \/ isColl /\ ConversionFails("set", v)
  \/ isColl /\ v # Unconvertible /\ CollAssignElem(i, v)

\* OCICollGetElem's exists flag is FALSE for a deleted or out-of-range index
GetElementValueByIndex(i) ==
  \/ NotCollection("get")
  \/ isColl /\ i \notin Existing /\ Reply("get", "invalidIndex", NoValue, FALSE)
            /\ UNCHANGED slots
  \/ isColl /\ i \in Existing /\ Reply("get", "ok", slots[i + 1], TRUE)
            /\ UNCHANGED slots

GetElementExistsByIndex(i) ==
  \/ NotCollection("exists")
  \/ isColl /\ Reply("exists", "ok", NoValue, i \in Existing) /\ UNCHANGED slots

DeleteElementByIndex(i) ==
  \/ NotCollection("delete")
  \/ isColl /\ TableDelete(i)

GetSize ==
  \/ NotCollection("size")
  \/ isColl /\ Reply("size", "ok", CollSize, FALSE) /\ UNCHANGED slots

\* EndIndex testing OCICollSize, which counts deleted elements, instead
EndIndexCollSize(op, least) ==
  \/ NotCollection(op)
  \/ /\ isColl
     /\ IF CollSize # 0
        THEN IF Existing # {} THEN Reply(op, "ok", Nearest(Existing, least), TRUE)
                              ELSE Reply(op, "native", NoValue, FALSE)
        ELSE Reply(op, "ok", NoValue, FALSE)
     /\ UNCHANGED slots

\* getFirstIndex and getLastIndex ask OCITableSize first and call
\* OCITableFirst/Last only when it is not zero
EndIndex(op, least) ==
  \/ NotCollection(op)
  \/ /\ isColl
     /\ IF TableSize # 0
        THEN Reply(op, "ok", Nearest(Existing, least), TRUE)
        ELSE Reply(op, "ok", NoValue, FALSE)
     /\ UNCHANGED slots

GetFirstIndex == EndIndex("first", TRUE)
GetLastIndex == EndIndex("last", FALSE)

\* getNextIndex and getPrevIndex pass OCITableNext/Prev's exists through
Neighbour(op, S, least) ==
  \/ NotCollection(op)
  \/ /\ isColl
     /\ IF S # {} THEN Reply(op, "ok", Nearest(S, least), TRUE)
                  ELSE Reply(op, "ok", NoValue, FALSE)
     /\ UNCHANGED slots

GetNextIndex(i) == Neighbour("next", {j \in Existing : j > i}, TRUE)
GetPrevIndex(i) == Neighbour("prev", {j \in Existing : j < i}, FALSE)

Trim(n) ==
  \/ NotCollection("trim")
  \/ isColl /\ CollTrim(n)

Inputs == Vals \cup {Unconvertible}

Next ==
  /\ UNCHANGED <<isColl, kind>>
  /\ \/ \E v \in Inputs : AppendElement(v)
     \/ \E i \in IndexArgs, v \in Inputs : SetElementValueByIndex(i, v)
     \/ \E i \in IndexArgs : \/ GetElementValueByIndex(i)
                             \/ GetElementExistsByIndex(i)
                             \/ DeleteElementByIndex(i)
                             \/ GetNextIndex(i) \/ GetPrevIndex(i)
     \/ GetSize \/ GetFirstIndex \/ GetLastIndex
     \/ \E n \in TrimArgs : Trim(n)

Spec == Init /\ [][Next]_vars

(* ---- properties ------------------------------------------------------- *)

TypeOK ==
  /\ isColl \in BOOLEAN
  /\ kind \in {"varray", "table"}
  /\ slots \in Seq(Vals \cup {Deleted}) /\ Len(slots) <= Capacity
  /\ kind = "varray" => Deleted \notin {slots[k] : k \in DOMAIN slots}
  /\ res.st \in {"ok", "notCollection", "conversion", "native", "invalidIndex"}

\* The refinement mapping: the sparse array is the existing slots, its
\* extent every slot OCICollSize counts.
Abs == INSTANCE SparseCollection
         WITH elems <- [i \in Existing |-> slots[i + 1]], extent <- Len(slots)

\* Every sequence of collection calls, over a varray or a nested table and
\* with deletions and trims between them, gives each call the result the
\* sparse-array contract promises: getFirstIndex's size test, the exists
\* flags of getElementValueByIndex and getNext/PrevIndex, and getSize's use
\* of OCICollSize compose into that contract.
ImplementsSparseCollection == Abs!Spec
=============================================================================
