-------------------------- MODULE ObjectLifecycle --------------------------
(***************************************************************************)
(* Lifecycle of dpiObject records (src/odpi/src/dpiObject.c): allocation   *)
(* (dpiObject__allocate), the idempotent close state machine               *)
(* (dpiObject__close / dpiObject__closeHelper), free with the release of   *)
(* the parent a dependent object aliases (dpiObject__free), reference      *)
(* counting (dpiObject_addRef / dpiObject_release), copies and dependent   *)
(* objects read out of an attribute or element, and the registration of  *)
(* top-level objects in the connection's handle list, which the          *)
(* connection's close sweeps to force-close every object it still holds. *)
(*                                                                         *)
(* The handle list (dpiHandleList), dpiGen__setRefCount and the sweep of  *)
(* dpiConn_close are not in this file; they are modelled from the spec    *)
(* (sections 4.2 and 5) and marked so in the project map.                 *)
(*                                                                         *)
(* Each thread runs one public call at a time; its program counter pc,    *)
(* a return stack and a few locals model the calls between the functions *)
(* of the file (close is called by free and by the connection sweep,     *)
(* free by release, by failed allocations and by the sweep).             *)
(***************************************************************************)
EXTENDS Naturals, FiniteSets, Sequences

CONSTANTS
  Obj,            \* addresses of dpiObject records; reused after a free
  Thread,         \* application threads calling the library
  NULL,
  MaxRef,         \* bound on a record's reference count
  InitSlots,      \* initial number of slots of conn->objects (8 in the code)
  MaxSlots,       \* bound on the growth of conn->objects
  MaxCloses,      \* bound on the number of dpiConn_close attempts
  Fallible,       \* OCI calls that may fail in this configuration
  ConcurrentOps,  \* public calls other threads may have in flight while
                  \* dpiConn_close runs
  UInt32          \* modulus of the uint32_t numUsedSlots; TLC's integers
                  \* stop at 2^31, and any modulus above MaxSlots + 1
                  \* wraps below zero to a count no list size equals

ASSUME NULL \notin Obj
ASSUME Fallible \subseteq
         {"objectNew", "objectGetInd", "addHandle", "objectFree",
          "indicatorFree", "objectCopy"}

ASSUME UInt32 > MaxSlots + 1
SlotIdx == 0..(MaxSlots - 1)

VARIABLES
  \* fields of each dpiObject record (dpiImpl.h)
  rec,            \* "live" while the record's memory is allocated, else "none"
  refCount,       \* dpiBaseType.refCount
  checkInt,       \* dpiBaseType.checkInt is valid (cleared when refCount hits 0)
  held,           \* references the application holds (history variable)
  instance,       \* obj->instance: NULL or the native allocation it points into
  indicator,      \* obj->indicator when separately allocated, else NULL
  freeIndicator,  \* obj->freeIndicator
  dependsOnObj,   \* obj->dependsOnObj
  closing,        \* obj->closing
  openSlotNum,    \* obj->openSlotNum
  \* the connection's handle list conn->objects (dpiHandleList)
  handles, numSlots, numUsedSlots, currentPos,
  \* the connection: "open", "closing" (conn->closing set) or "closed"
  conn, closeAttempts,
  \* native memory of the OCI object cache (history variables)
  nativeLive,     \* native instances allocated and not yet freed
  indLive,        \* separately allocated null indicators not yet freed
  frees,          \* frees[a]: OCIObjectFree calls on native instance a
  badRead,        \* a native call read an instance that is NULL or freed
  \* thread state
  pc, stack, op, obj, tmp, ck, ok, st, idx

objVars    == <<rec, refCount, checkInt, held, instance, indicator,
                freeIndicator, dependsOnObj, closing, openSlotNum>>
listVars   == <<handles, numSlots, numUsedSlots, currentPos>>
connVars   == <<conn, closeAttempts>>
nativeVars == <<nativeLive, indLive, frees, badRead>>
thrVars    == <<pc, stack, op, obj, tmp, ck, ok, st, idx>>
vars       == <<objVars, listVars, connVars, nativeVars, thrVars>>

Labels == {"idle", "al_add", "nw_done", "cp_copy",
           "cl_mark", "cl_inst", "cl_ind", "cl_revert", "fr_rel",
           "td_slot", "td_ret", "td_chk"}
CloseLabels == {"cl_mark", "cl_inst", "cl_ind", "cl_revert"}
Ops == {"none", "new", "fetch", "copy", "getdep", "addref", "release",
        "close"}

-----------------------------------------------------------------------------
(* Control flow between the functions of the file.                         *)

Goto(t, l) == pc' = [pc EXCEPT ![t] = l]

\* return from the current function to the caller, or end the public call
Return(t) ==
  IF stack[t] = << >>
  THEN /\ pc' = [pc EXCEPT ![t] = "idle"]
       /\ op' = [op EXCEPT ![t] = "none"]
       /\ UNCHANGED stack
  ELSE /\ pc' = [pc EXCEPT ![t] = Head(stack[t])]
       /\ stack' = [stack EXCEPT ![t] = Tail(@)]
       /\ UNCHANGED op

\* call dpiObject__close(o, checkError) and continue at ret
CallClose(t, o, checkError, ret) ==
  /\ obj' = [obj EXCEPT ![t] = o]
  /\ ck' = [ck EXCEPT ![t] = checkError]
  /\ pc' = [pc EXCEPT ![t] = "cl_mark"]
  /\ stack' = [stack EXCEPT ![t] = <<ret>> \o @]

\* dpiObject__free(o): close(o, 0), then the rest of free at "fr_rel"
CallFree(t, o) == CallClose(t, o, FALSE, "fr_rel")

\* a failed allocation frees the record and fails the public call
FailAllocation(t, o) ==
  /\ obj' = [obj EXCEPT ![t] = o]
  /\ ck' = [ck EXCEPT ![t] = FALSE]
  /\ pc' = [pc EXCEPT ![t] = "cl_mark"]
  /\ stack' = [stack EXCEPT ![t] = <<"fr_rel">>]

\* dpiHandleList__removeHandle
RemoveHandle(s) ==
  /\ handles' = [handles EXCEPT ![s] = NULL]
  /\ numUsedSlots' = (numUsedSlots + UInt32 - 1) % UInt32
  /\ UNCHANGED <<numSlots, currentPos>>

\* the fields of record o other than refCount, checkInt and held become those of
\* a record allocated (r = "live") or returned to the allocator (r = "none")
SetRecord(o, r, inst, ind, freeInd, parent) ==
  /\ rec' = [rec EXCEPT ![o] = r]
  /\ instance' = [instance EXCEPT ![o] = inst]
  /\ indicator' = [indicator EXCEPT ![o] = ind]
  /\ freeIndicator' = [freeIndicator EXCEPT ![o] = freeInd]
  /\ dependsOnObj' = [dependsOnObj EXCEPT ![o] = parent]
  /\ closing' = [closing EXCEPT ![o] = FALSE]
  /\ openSlotNum' = [openSlotNum EXCEPT ![o] = 0]

-----------------------------------------------------------------------------
Init ==
  /\ rec = [o \in Obj |-> "none"]
  /\ refCount = [o \in Obj |-> 0]
  /\ checkInt = [o \in Obj |-> FALSE]
  /\ held = [o \in Obj |-> 0]
  /\ instance = [o \in Obj |-> NULL]
  /\ indicator = [o \in Obj |-> NULL]
  /\ freeIndicator = [o \in Obj |-> FALSE]
  /\ dependsOnObj = [o \in Obj |-> NULL]
  /\ closing = [o \in Obj |-> FALSE]
  /\ openSlotNum = [o \in Obj |-> 0]
  /\ handles = [s \in SlotIdx |-> NULL]
  /\ numSlots = InitSlots
  /\ numUsedSlots = 0
  /\ currentPos = 0
  /\ conn = "open"
  /\ closeAttempts = 0
  /\ nativeLive = {}
  /\ indLive = {}
  /\ frees = [a \in Obj |-> 0]
  /\ badRead = FALSE
  /\ pc = [t \in Thread |-> "idle"]
  /\ stack = [t \in Thread |-> << >>]
  /\ op = [t \in Thread |-> "none"]
  /\ obj = [t \in Thread |-> NULL]
  /\ tmp = [t \in Thread |-> NULL]
  /\ ck = [t \in Thread |-> FALSE]
  /\ ok = [t \in Thread |-> TRUE]
  /\ st = [t \in Thread |-> TRUE]
  /\ idx = [t \in Thread |-> 0]

-----------------------------------------------------------------------------
\* ClMark without the dependsOnObj test: a dependent frees the instance it
\* aliases
ClMarkFreesDependent(t) ==
  LET c == obj[t] IN
  /\ pc[t] = "cl_mark"
  /\ closing' = [closing EXCEPT ![c] = TRUE]
  /\ IF ~closing[c] /\ instance[c] # NULL
     THEN Goto(t, "cl_inst") /\ UNCHANGED <<stack, op, ok>>
     ELSE ok' = [ok EXCEPT ![t] = TRUE] /\ Return(t)
  /\ UNCHANGED <<rec, refCount, checkInt, held, instance, indicator,
                 freeIndicator, dependsOnObj, openSlotNum, listVars, connVars,
                 nativeVars, obj, tmp, ck, st, idx>>

\* ClMark that does not test the closing flag another close has set
ClMarkIgnoresClosing(t) ==
  LET c == obj[t] IN
  /\ pc[t] = "cl_mark"
  /\ closing' = [closing EXCEPT ![c] = TRUE]
  /\ IF instance[c] # NULL /\ dependsOnObj[c] = NULL
     THEN Goto(t, "cl_inst") /\ UNCHANGED <<stack, op, ok>>
     ELSE ok' = [ok EXCEPT ![t] = TRUE] /\ Return(t)
  /\ UNCHANGED <<rec, refCount, checkInt, held, instance, indicator,
                 freeIndicator, dependsOnObj, openSlotNum, listVars, connVars,
                 nativeVars, obj, tmp, ck, st, idx>>

\* ClMark that waits for a close already under way instead of returning
ClMarkWaits(t) ==
  LET c == obj[t] IN
  /\ pc[t] = "cl_mark"
  /\ IF closing[c]
     THEN UNCHANGED vars
     ELSE /\ closing' = [closing EXCEPT ![c] = TRUE]
          /\ IF instance[c] # NULL /\ dependsOnObj[c] = NULL
             THEN Goto(t, "cl_inst") /\ UNCHANGED <<stack, op, ok>>
             ELSE ok' = [ok EXCEPT ![t] = TRUE] /\ Return(t)
          /\ UNCHANGED <<rec, refCount, checkInt, held, instance, indicator,
                         freeIndicator, dependsOnObj, openSlotNum, listVars,
                         connVars, nativeVars, obj, tmp, ck, st, idx>>

(* dpiObject__close: the closing flag is read and set under the env mutex *)
(* (one step); only the caller that saw it clear does the native work,     *)
(* and only for a top-level object that still has an instance.            *)
ClMark(t) ==
  LET c == obj[t] IN
  /\ pc[t] = "cl_mark"
  /\ closing' = [closing EXCEPT ![c] = TRUE]
  /\ IF ~closing[c] /\ instance[c] # NULL /\ dependsOnObj[c] = NULL
     THEN Goto(t, "cl_inst") /\ UNCHANGED <<stack, op, ok>>
     ELSE ok' = [ok EXCEPT ![t] = TRUE] /\ Return(t)
  /\ UNCHANGED <<rec, refCount, checkInt, held, instance, indicator,
                 freeIndicator, dependsOnObj, openSlotNum, listVars, connVars,
                 nativeVars, obj, tmp, ck, st, idx>>

\* dpiObject__closeHelper: free the native instance, then null it
ClInst(t) ==
  LET c == obj[t]
      a == instance[c]
  IN
  /\ pc[t] = "cl_inst"
  /\ \/ /\ ck[t] /\ "objectFree" \in Fallible
        /\ Goto(t, "cl_revert")
        /\ UNCHANGED <<instance, nativeLive, frees>>
     \/ /\ nativeLive' = nativeLive \ {a}
        /\ frees' = [frees EXCEPT ![a] = @ + 1]
        /\ instance' = [instance EXCEPT ![c] = NULL]
        /\ Goto(t, "cl_ind")
  /\ UNCHANGED <<rec, refCount, checkInt, held, indicator, freeIndicator,
                 dependsOnObj, closing, openSlotNum, listVars, connVars,
                 indLive, badRead, stack, op, obj, tmp, ck, ok, st, idx>>

\* ClInd that forgets the separately allocated indicator
ClIndKeepsIndicator(t) ==
  LET c == obj[t] IN
  /\ pc[t] = "cl_ind"
  /\ indicator' = [indicator EXCEPT ![c] = NULL]
  /\ IF conn = "open" THEN RemoveHandle(openSlotNum[c])
                      ELSE UNCHANGED listVars
  /\ ok' = [ok EXCEPT ![t] = TRUE]
  /\ Return(t)
  /\ UNCHANGED <<rec, refCount, checkInt, held, instance, freeIndicator,
                 dependsOnObj, closing, openSlotNum, connVars, nativeVars,
                 obj, tmp, ck, st, idx>>

\* ClInd that leaves the object in the handle list
ClIndKeepsHandle(t) ==
  LET c == obj[t] IN
  /\ pc[t] = "cl_ind"
  /\ \/ /\ freeIndicator[c] /\ ck[t] /\ "indicatorFree" \in Fallible
        /\ Goto(t, "cl_revert")
        /\ UNCHANGED <<indicator, indLive, ok, stack, op>>
     \/ /\ indLive' = IF freeIndicator[c] THEN indLive \ {indicator[c]}
                                          ELSE indLive
        /\ indicator' = [indicator EXCEPT ![c] = NULL]
        /\ ok' = [ok EXCEPT ![t] = TRUE]
        /\ Return(t)
  /\ UNCHANGED <<rec, refCount, checkInt, held, instance, freeIndicator,
                 dependsOnObj, closing, openSlotNum, listVars, connVars,
                 nativeLive, frees, badRead, obj, tmp, ck, st, idx>>

\* dpiObject__closeHelper: free an owned indicator, null it, and remove the
\* object from the handle list unless the connection is closing
ClInd(t) ==
  LET c == obj[t] IN
  /\ pc[t] = "cl_ind"
  /\ \/ /\ freeIndicator[c] /\ ck[t] /\ "indicatorFree" \in Fallible
        /\ Goto(t, "cl_revert")
        /\ UNCHANGED <<indicator, indLive, listVars, ok, stack, op>>
     \/ /\ indLive' = IF freeIndicator[c] THEN indLive \ {indicator[c]}
                                          ELSE indLive
        /\ indicator' = [indicator EXCEPT ![c] = NULL]
        /\ IF conn = "open" THEN RemoveHandle(openSlotNum[c])
                            ELSE UNCHANGED listVars
        /\ ok' = [ok EXCEPT ![t] = TRUE]
        /\ Return(t)
  /\ UNCHANGED <<rec, refCount, checkInt, held, instance, freeIndicator,
                 dependsOnObj, closing, openSlotNum, connVars, nativeLive,
                 frees, badRead, obj, tmp, ck, st, idx>>

\* dpiObject__close: a failed closeHelper clears the flag under the mutex
ClRevert(t) ==
  /\ pc[t] = "cl_revert"
  /\ closing' = [closing EXCEPT ![obj[t]] = FALSE]
  /\ ok' = [ok EXCEPT ![t] = FALSE]
  /\ Return(t)
  /\ UNCHANGED <<rec, refCount, checkInt, held, instance, indicator,
                 freeIndicator, dependsOnObj, openSlotNum, listVars, connVars,
                 nativeVars, obj, tmp, ck, st, idx>>

\* FrRel whose cascade frees the parent without invalidating its handle
FrRelKeepsParentValid(t) ==
  LET c == obj[t]
      p == dependsOnObj[c]
  IN
  /\ pc[t] = "fr_rel"
  /\ SetRecord(c, "none", NULL, NULL, FALSE, NULL)
  /\ held' = [held EXCEPT ![c] = 0]
  /\ checkInt' = [checkInt EXCEPT ![c] = FALSE]
  /\ IF p = NULL
     THEN /\ refCount' = [refCount EXCEPT ![c] = 0]
          /\ Return(t)
          /\ UNCHANGED obj
     ELSE /\ refCount' = [refCount EXCEPT ![c] = 0, ![p] = @ - 1]
          /\ IF refCount[p] = 1
             THEN /\ obj' = [obj EXCEPT ![t] = p]
                  /\ pc' = [pc EXCEPT ![t] = "cl_mark"]
                  /\ stack' = [stack EXCEPT ![t] = <<"fr_rel">> \o @]
                  /\ UNCHANGED op
             ELSE /\ Return(t)
                  /\ UNCHANGED obj
  /\ UNCHANGED <<listVars, connVars, nativeVars, tmp, ck, ok, st, idx>>

\* dpiObject__free after its close (whose result it ignores): release the
\* parent and return the record; releasing the last reference to the parent
\* frees the parent in turn
FrRel(t) ==
  LET c == obj[t]
      p == dependsOnObj[c]
  IN
  /\ pc[t] = "fr_rel"
  /\ SetRecord(c, "none", NULL, NULL, FALSE, NULL)
  /\ held' = [held EXCEPT ![c] = 0]
  /\ IF p = NULL
     THEN /\ refCount' = [refCount EXCEPT ![c] = 0]
          /\ checkInt' = [checkInt EXCEPT ![c] = FALSE]
          /\ Return(t)
          /\ UNCHANGED obj
     ELSE /\ refCount' = [refCount EXCEPT ![c] = 0, ![p] = @ - 1]
          /\ IF refCount[p] = 1
             THEN /\ checkInt' = [checkInt EXCEPT ![c] = FALSE, ![p] = FALSE]
                  /\ obj' = [obj EXCEPT ![t] = p]
                  /\ pc' = [pc EXCEPT ![t] = "cl_mark"]
                  /\ stack' = [stack EXCEPT ![t] = <<"fr_rel">> \o @]
                  /\ UNCHANGED op
             ELSE /\ checkInt' = [checkInt EXCEPT ![c] = FALSE]
                  /\ Return(t)
                  /\ UNCHANGED obj
  /\ UNCHANGED <<listVars, connVars, nativeVars, tmp, ck, ok, st, idx>>

-----------------------------------------------------------------------------
(* Public calls and reference counting.                                    *)

\* a call may start while dpiConn_close runs only if it is one of those the
\* configuration lets race with the close
CanStart(t, name) ==
  /\ pc[t] = "idle"
  /\ conn # "closing" \/ name \in ConcurrentOps

\* threads in the middle of dpiObject_copy of o: each holds one of the
\* application's references to o until its call returns
InUse(o) ==
  Cardinality({t \in Thread : op[t] = "copy" /\ pc[t] \in {"al_add", "cp_copy"}
                              /\ obj[t] = o})

\* dpiObject_release (dpiGen__release): the last reference frees the object
Release(t, o) ==
  /\ CanStart(t, "release")
  /\ held[o] > InUse(o)
  /\ refCount' = [refCount EXCEPT ![o] = @ - 1]
  /\ held' = [held EXCEPT ![o] = @ - 1]
  /\ IF refCount[o] = 1
     THEN /\ checkInt' = [checkInt EXCEPT ![o] = FALSE]
          /\ CallFree(t, o)
          /\ op' = [op EXCEPT ![t] = "release"]
     ELSE UNCHANGED <<checkInt, pc, stack, obj, ck, op>>
  /\ UNCHANGED <<rec, instance, indicator, freeIndicator, dependsOnObj,
                 closing, openSlotNum, listVars, connVars, nativeVars,
                 tmp, ok, st, idx>>

\* dpiObject_addRef
AddRef(t, o) ==
  /\ CanStart(t, "addref")
  /\ held[o] > 0
  /\ refCount[o] < MaxRef
  /\ refCount' = [refCount EXCEPT ![o] = @ + 1]
  /\ held' = [held EXCEPT ![o] = @ + 1]
  /\ UNCHANGED <<rec, checkInt, instance, indicator, freeIndicator,
                 dependsOnObj, closing, openSlotNum, listVars, connVars,
                 nativeVars, thrVars>>

\* AllocNew that hands out the new object without registering it
AllocNewUnregistered(t, o, cont, src) ==
  /\ rec[o] = "none"
  /\ tmp' = [tmp EXCEPT ![t] = o]
  /\ refCount' = [refCount EXCEPT ![o] = 1]
  /\ checkInt' = [checkInt EXCEPT ![o] = TRUE]
  /\ held' = [held EXCEPT ![o] = 0]
  /\ \/ /\ "objectNew" \in Fallible
        /\ SetRecord(o, "live", NULL, NULL, FALSE, NULL)
        /\ FailAllocation(t, o)
        /\ UNCHANGED <<nativeLive, frees>>
     \/ /\ SetRecord(o, "live", o, NULL, FALSE, NULL)
        /\ nativeLive' = nativeLive \cup {o}
        /\ frees' = [frees EXCEPT ![o] = 0]
        /\ \/ /\ "objectGetInd" \in Fallible
              /\ FailAllocation(t, o)
           \/ /\ Goto(t, cont)
              /\ obj' = [obj EXCEPT ![t] = src]
              /\ UNCHANGED <<stack, ck>>

\* dpiObject__allocate with no instance: a new native instance
\* (OCIObjectNew) and its indicator (OCIObjectGetInd); on success the
\* object is registered at "al_add" and the call continues at cont with
\* obj set to src
AllocNew(t, o, cont, src) ==
  /\ rec[o] = "none"
  /\ tmp' = [tmp EXCEPT ![t] = o]
  /\ refCount' = [refCount EXCEPT ![o] = 1]
  /\ checkInt' = [checkInt EXCEPT ![o] = TRUE]
  /\ held' = [held EXCEPT ![o] = 0]
  /\ \/ /\ "objectNew" \in Fallible
        /\ SetRecord(o, "live", NULL, NULL, FALSE, NULL)
        /\ FailAllocation(t, o)
        /\ UNCHANGED <<nativeLive, frees>>
     \/ /\ SetRecord(o, "live", o, NULL, FALSE, NULL)
        /\ nativeLive' = nativeLive \cup {o}
        /\ frees' = [frees EXCEPT ![o] = 0]
        /\ \/ /\ "objectGetInd" \in Fallible
              /\ FailAllocation(t, o)
           \/ /\ Goto(t, "al_add")
              /\ stack' = [stack EXCEPT ![t] = <<cont>>]
              /\ obj' = [obj EXCEPT ![t] = src]
              /\ UNCHANGED ck

\* dpiObjectType_createObject
New(t) ==
  /\ CanStart(t, "new")
  /\ conn = "open"
  /\ op' = [op EXCEPT ![t] = "new"]
  /\ \E o \in Obj : AllocNew(t, o, "nw_done", NULL)
  /\ UNCHANGED <<listVars, connVars, indLive, badRead, ok, st, idx>>

\* dpiObject_copy: a new object, then OCIObjectCopy from the source at
\* "cp_copy"
Copy(t, s) ==
  /\ CanStart(t, "copy")
  /\ conn = "open"
  /\ held[s] > 0
  /\ op' = [op EXCEPT ![t] = "copy"]
  /\ \E o \in Obj : AllocNew(t, o, "cp_copy", s)
  /\ UNCHANGED <<listVars, connVars, indLive, badRead, ok, st, idx>>

\* dpiObject__allocate with the instance (and, for a dynamic variable, a
\* separately allocated indicator it must free) of a fetched object
Fetch(t) ==
  /\ CanStart(t, "fetch")
  /\ conn = "open"
  /\ \E o \in Obj, fi \in BOOLEAN :
       /\ rec[o] = "none"
       /\ SetRecord(o, "live", o, IF fi THEN o ELSE NULL, fi, NULL)
       /\ refCount' = [refCount EXCEPT ![o] = 1]
       /\ checkInt' = [checkInt EXCEPT ![o] = TRUE]
       /\ held' = [held EXCEPT ![o] = 0]
       /\ nativeLive' = nativeLive \cup {o}
       /\ indLive' = IF fi THEN indLive \cup {o} ELSE indLive
       /\ frees' = [frees EXCEPT ![o] = 0]
       /\ tmp' = [tmp EXCEPT ![t] = o]
  /\ Goto(t, "al_add")
  /\ stack' = [stack EXCEPT ![t] = <<"nw_done">>]
  /\ op' = [op EXCEPT ![t] = "fetch"]
  /\ UNCHANGED <<listVars, connVars, badRead, obj, ck, ok, st, idx>>

\* where dpiHandleList__addHandle's scan from currentPos stops: the first
\* free slot at or after it, cyclically, or currentPos itself when the scan
\* went round all numSlots slots without finding one
ScanStop ==
  LET free == {x \in 0..(numSlots - 1) : handles[x] = NULL}
      dist(x) == (x + numSlots - currentPos) % numSlots
  IN IF free = {} THEN currentPos
     ELSE CHOOSE x \in free : \A y \in free : dist(x) <= dist(y)

\* AlAdd without addHandle's wrap of currentPos to 0 at the end of the list
AlAddNoWrap(t) ==
  LET o == tmp[t]
      grow == numUsedSlots = numSlots
      ns == IF grow THEN numSlots + InitSlots ELSE numSlots
      s == IF grow THEN numSlots ELSE ScanStop
  IN
  /\ pc[t] = "al_add"
  /\ \/ /\ grow /\ "addHandle" \in Fallible
        /\ FailAllocation(t, o)
        /\ UNCHANGED <<listVars, openSlotNum, op>>
     \/ /\ ns <= MaxSlots
        /\ handles' = [handles EXCEPT ![s] = o]
        /\ openSlotNum' = [openSlotNum EXCEPT ![o] = s]
        /\ currentPos' = s + 1
        /\ numSlots' = ns
        /\ numUsedSlots' = (numUsedSlots + 1) % UInt32
        /\ Return(t)
        /\ UNCHANGED <<obj, ck>>
  /\ UNCHANGED <<rec, refCount, checkInt, held, instance, indicator,
                 freeIndicator, dependsOnObj, closing, connVars, nativeVars,
                 tmp, ok, st, idx>>

\* dpiObject__allocate registers a top-level object with an instance:
\* dpiHandleList__addHandle grows the list when numUsedSlots = numSlots
\* (the only step that can fail) and takes slot numUsedSlots, the first new
\* one; otherwise it writes the slot where the scan stopped, a live
\* registration included.  The code grows by 8 slots, so currentPos never
\* reaches numSlots after a growth; the model grows by InitSlots and wraps.
\* MaxSlots bounds the growth.
AlAdd(t) ==
  LET o == tmp[t]
      grow == numUsedSlots = numSlots
      ns == IF grow THEN numSlots + InitSlots ELSE numSlots
      s == IF grow THEN numSlots ELSE ScanStop
  IN
  /\ pc[t] = "al_add"
  /\ \/ /\ grow /\ "addHandle" \in Fallible
        /\ FailAllocation(t, o)
        /\ UNCHANGED <<listVars, openSlotNum, op>>
     \/ /\ ns <= MaxSlots
        /\ handles' = [handles EXCEPT ![s] = o]
        /\ openSlotNum' = [openSlotNum EXCEPT ![o] = s]
        /\ currentPos' = (s + 1) % ns
        /\ numSlots' = ns
        /\ numUsedSlots' = (numUsedSlots + 1) % UInt32
        /\ Return(t)
        /\ UNCHANGED <<obj, ck>>
  /\ UNCHANGED <<rec, refCount, checkInt, held, instance, indicator,
                 freeIndicator, dependsOnObj, closing, connVars, nativeVars,
                 tmp, ok, st, idx>>

\* the new object is handed to the caller
NwDone(t) ==
  /\ pc[t] = "nw_done"
  /\ held' = [held EXCEPT ![tmp[t]] = 1]
  /\ Return(t)
  /\ UNCHANGED <<rec, refCount, checkInt, instance, indicator, freeIndicator,
                 dependsOnObj, closing, openSlotNum, listVars, connVars,
                 nativeVars, obj, tmp, ck, ok, st, idx>>

\* dpiObject_copy: OCIObjectCopy reads the source instance; on failure the
\* new object is freed
CpCopy(t) ==
  LET s == obj[t]
      o == tmp[t]
  IN
  /\ pc[t] = "cp_copy"
  /\ badRead' = (badRead \/ instance[s] \notin nativeLive)
  /\ \/ /\ "objectCopy" \in Fallible
        /\ FailAllocation(t, o)
        /\ UNCHANGED <<held, op>>
     \/ /\ held' = [held EXCEPT ![o] = 1]
        /\ Return(t)
        /\ UNCHANGED <<obj, ck>>
  /\ UNCHANGED <<rec, refCount, checkInt, instance, indicator, freeIndicator,
                 dependsOnObj, closing, openSlotNum, listVars, connVars,
                 nativeLive, indLive, frees, tmp, ok, st, idx>>

\* GetDep whose dependent does not take a reference to its parent
GetDepNoParentRef(t, s) ==
  /\ CanStart(t, "getdep")
  /\ conn = "open"
  /\ held[s] > 0
  /\ refCount[s] < MaxRef
  /\ IF instance[s] \in nativeLive
     THEN \E d \in Obj :
            /\ rec[d] = "none"
            /\ SetRecord(d, "live", instance[s], NULL, FALSE, s)
            /\ refCount' = [refCount EXCEPT ![d] = 1]
            /\ checkInt' = [checkInt EXCEPT ![d] = TRUE]
            /\ held' = [held EXCEPT ![d] = 1]
            /\ UNCHANGED badRead
     ELSE /\ badRead' = TRUE
          /\ UNCHANGED objVars
  /\ UNCHANGED <<listVars, connVars, nativeLive, indLive, frees, thrVars>>

\* dpiObject_getAttributeValue / dpiObject_getElementValueByIndex of an
\* object-typed value: OCIObjectGetAttr / OCICollGetElem read the instance
\* and dpiObject__fromOracleValue wraps the value in a dependent object
\* that aliases it and holds a reference to its parent
GetDep(t, s) ==
  /\ CanStart(t, "getdep")
  /\ conn = "open"
  /\ held[s] > 0
  /\ refCount[s] < MaxRef
  /\ IF instance[s] \in nativeLive
     THEN \E d \in Obj :
            /\ rec[d] = "none"
            /\ SetRecord(d, "live", instance[s], NULL, FALSE, s)
            /\ refCount' = [refCount EXCEPT ![d] = 1, ![s] = @ + 1]
            /\ checkInt' = [checkInt EXCEPT ![d] = TRUE]
            /\ held' = [held EXCEPT ![d] = 1]
            /\ UNCHANGED badRead
     ELSE /\ badRead' = TRUE
          /\ UNCHANGED objVars
  /\ UNCHANGED <<listVars, connVars, nativeLive, indLive, frees, thrVars>>

-----------------------------------------------------------------------------
(* dpiConn_close (not in this file): set conn->closing, then for each slot *)
(* of the handle list take a reference to a valid object, close it with   *)
(* error checking, and release the reference; a failed close clears       *)
(* conn->closing and fails the call.                                       *)

TdStart(t) ==
  /\ CanStart(t, "close")
  /\ conn = "open"
  /\ closeAttempts < MaxCloses
  /\ \A u \in Thread \ {t} : op[u] \in ConcurrentOps \cup {"none"}
  /\ conn' = "closing"
  /\ closeAttempts' = closeAttempts + 1
  /\ idx' = [idx EXCEPT ![t] = 0]
  /\ op' = [op EXCEPT ![t] = "close"]
  /\ Goto(t, "td_slot")
  /\ UNCHANGED <<objVars, listVars, nativeVars, stack, obj, tmp, ck, ok, st>>

TdSlot(t) ==
  /\ pc[t] = "td_slot"
  /\ IF idx[t] >= numSlots
     THEN /\ conn' = "closed"
          /\ Return(t)
          /\ UNCHANGED <<refCount, idx, obj, ck>>
     ELSE LET h == handles[idx[t]] IN
          IF h = NULL \/ ~checkInt[h]
          THEN /\ idx' = [idx EXCEPT ![t] = @ + 1]
               /\ UNCHANGED <<conn, refCount, pc, stack, op, obj, ck>>
          ELSE /\ refCount' = [refCount EXCEPT ![h] = @ + 1]
               /\ CallClose(t, h, TRUE, "td_ret")
               /\ UNCHANGED <<conn, op, idx>>
  /\ UNCHANGED <<rec, checkInt, held, instance, indicator, freeIndicator,
                 dependsOnObj, closing, openSlotNum, listVars, closeAttempts,
                 nativeVars, tmp, ok, st>>

TdRet(t) ==
  LET h == obj[t] IN
  /\ pc[t] = "td_ret"
  /\ refCount' = [refCount EXCEPT ![h] = @ - 1]
  /\ st' = [st EXCEPT ![t] = ok[t]]
  /\ IF refCount[h] = 1
     THEN /\ checkInt' = [checkInt EXCEPT ![h] = FALSE]
          /\ ck' = [ck EXCEPT ![t] = FALSE]
          /\ pc' = [pc EXCEPT ![t] = "cl_mark"]
          /\ stack' = [stack EXCEPT ![t] = <<"fr_rel", "td_chk">> \o @]
     ELSE /\ Goto(t, "td_chk")
          /\ UNCHANGED <<checkInt, ck, stack>>
  /\ UNCHANGED <<rec, held, instance, indicator, freeIndicator, dependsOnObj,
                 closing, openSlotNum, listVars, connVars, nativeVars, op,
                 obj, tmp, ok, idx>>

TdChk(t) ==
  /\ pc[t] = "td_chk"
  /\ IF st[t]
     THEN /\ idx' = [idx EXCEPT ![t] = @ + 1]
          /\ Goto(t, "td_slot")
          /\ UNCHANGED <<conn, stack, op>>
     ELSE /\ conn' = "open"
          /\ Return(t)
          /\ UNCHANGED idx
  /\ UNCHANGED <<objVars, listVars, closeAttempts, nativeVars, obj, tmp, ck,
                 ok, st>>

-----------------------------------------------------------------------------
\* nothing is left to do once the connection is closed and every object freed
Finished ==
  /\ conn = "closed"
  /\ \A t \in Thread : pc[t] = "idle"
  /\ \A o \in Obj : rec[o] = "none"
  /\ UNCHANGED vars

\* the steps a thread takes inside a public call
ThreadStep(t) ==
  \/ ClMark(t) \/ ClInst(t) \/ ClInd(t) \/ ClRevert(t) \/ FrRel(t)
  \/ AlAdd(t) \/ NwDone(t) \/ CpCopy(t)
  \/ TdSlot(t) \/ TdRet(t) \/ TdChk(t)

\* a thread starting a public call
Call(t) ==
  \/ New(t) \/ Fetch(t) \/ TdStart(t)
  \/ \E o \in Obj : Release(t, o) \/ AddRef(t, o) \/ Copy(t, o) \/ GetDep(t, o)

Next == (\E t \in Thread : Call(t) \/ ThreadStep(t)) \/ Finished

\* the code never blocks inside a call except on the short env and list
\* mutexes, so a thread that is in a call keeps taking steps
Spec == Init /\ [][Next]_vars /\ \A t \in Thread : WF_vars(ThreadStep(t))

-----------------------------------------------------------------------------
TypeOK ==
  /\ rec \in [Obj -> {"none", "live"}]
  /\ refCount \in [Obj -> 0..(MaxRef + Cardinality(Thread))]
  /\ checkInt \in [Obj -> BOOLEAN]
  /\ held \in [Obj -> 0..MaxRef]
  /\ instance \in [Obj -> Obj \cup {NULL}]
  /\ indicator \in [Obj -> Obj \cup {NULL}]
  /\ freeIndicator \in [Obj -> BOOLEAN]
  /\ dependsOnObj \in [Obj -> Obj \cup {NULL}]
  /\ closing \in [Obj -> BOOLEAN]
  /\ openSlotNum \in [Obj -> SlotIdx]
  /\ handles \in [SlotIdx -> Obj \cup {NULL}]
  /\ numSlots \in InitSlots..MaxSlots
  /\ numUsedSlots \in 0..(UInt32 - 1)
  /\ currentPos \in SlotIdx
  /\ conn \in {"open", "closing", "closed"}
  /\ nativeLive \subseteq Obj /\ indLive \subseteq Obj
  /\ badRead \in BOOLEAN
  /\ pc \in [Thread -> Labels]
  /\ op \in [Thread -> Ops]
  /\ obj \in [Thread -> Obj \cup {NULL}]
  /\ tmp \in [Thread -> Obj \cup {NULL}]

\* objects some thread is registering or freeing right now
Busy(o) ==
  \E t \in Thread :
    \/ pc[t] = "al_add" /\ tmp[t] = o
    \/ pc[t] \in CloseLabels \cup {"fr_rel"} /\ obj[t] = o

(* Safety.                                                                 *)

\* dpiObject__close performs OCIObjectFree at most once per native instance:
\* the closing flag, a dependent's not owning its instance and the reference
\* taken by dpiConn_close keep two threads (a release and the connection's
\* sweep, or a parent and its dependents) from freeing the same instance
NoDoubleFree == \A a \in Obj : frees[a] <= 1

\* no native instance or indicator outlives every record that could free it:
\* a close that reports success has freed what the object owned
NoOrphanNative ==
  /\ \A a \in nativeLive :
       \E o \in Obj : rec[o] = "live" /\ dependsOnObj[o] = NULL
                      /\ instance[o] = a
  /\ \A a \in indLive : \E o \in Obj : rec[o] = "live" /\ indicator[o] = a

\* a thread inside dpiObject__close or dpiObject__free, or holding the
\* sweep's reference, works on a record whose memory has not been returned
CloseOnLiveRecord ==
  \A t \in Thread :
    pc[t] \in CloseLabels \cup {"fr_rel", "td_ret"} => rec[obj[t]] = "live"

\* while the connection is open its handle list holds exactly the live
\* top-level objects that have an instance, each in the slot it recorded,
\* and numUsedSlots counts them
RegistryConsistent ==
  conn = "open" =>
    /\ numUsedSlots = Cardinality({s \in SlotIdx : handles[s] # NULL})
    /\ \A s \in SlotIdx :
         handles[s] # NULL =>
           /\ rec[handles[s]] = "live"
           /\ openSlotNum[handles[s]] = s
    /\ \A o \in Obj :
         (/\ rec[o] = "live" /\ dependsOnObj[o] = NULL
          /\ instance[o] # NULL /\ ~Busy(o))
           => handles[openSlotNum[o]] = o

\* every native read of an object's instance (OCIObjectCopy, OCIObjectGetAttr)
\* reads an instance that is still allocated
NoReadOfFreedInstance == ~badRead

\* once dpiConn_close has succeeded no native instance or indicator of the
\* connection is left to be freed later (the reason dpiObject__close exists)
ConnCloseFreesAll == conn = "closed" => nativeLive = {} /\ indLive = {}

\* once dpiConn_close has succeeded, every native instance or indicator still
\* allocated belongs to an object some thread is in the middle of freeing
NoAbandonedNative ==
  conn = "closed" =>
    \A a \in nativeLive \cup indLive :
      \E o \in Obj : /\ Busy(o)
                    /\ a \in {instance[o], indicator[o]}

(* Refinement.                                                             *)

\* an address's native history as NativeLifetime sees it: allocated, never
\* allocated since its last free, or freed once since its last allocation
NativeState(a) ==
  IF a \in nativeLive THEN "live"
  ELSE CASE frees[a] = 0 -> "none"
         [] frees[a] = 1 -> "freed"
         [] OTHER        -> "overfreed"

Native == INSTANCE NativeLifetime WITH Ids <- Obj,
            inst <- [a \in Obj |-> NativeState(a)]

CallsReturn == \A t \in Thread : pc[t] # "idle" ~> pc[t] = "idle"
=============================================================================
