--------------------------- MODULE NativeLifetime ---------------------------
(***************************************************************************)
(* What dpiObject promises about the native object instances it manages in *)
(* the OCI object cache: an instance is created by OCIObjectNew or handed  *)
(* over by a fetch, and OCIObjectFree is called on it once, while it is     *)
(* allocated.  Its address may be handed out again only after that free.   *)
(* An instance freed twice is "overfreed", a state no step of this         *)
(* specification reaches.                                                  *)
(***************************************************************************)
CONSTANTS Ids   \* the addresses a native instance may have

VARIABLES inst  \* inst[a]: "none", "live" or "freed"

States == {"none", "live", "freed"}

Init == inst = [a \in Ids |-> "none"]

\* OCIObjectNew, or a fetched instance adopted by dpiObject__allocate
Allocate(a) ==
  /\ inst[a] \in {"none", "freed"}
  /\ inst' = [inst EXCEPT ![a] = "live"]

\* OCIObjectFree of an allocated instance
Free(a) ==
  /\ inst[a] = "live"
  /\ inst' = [inst EXCEPT ![a] = "freed"]

Next == \E a \in Ids : Allocate(a) \/ Free(a)

Spec == Init /\ [][Next]_inst
=============================================================================
