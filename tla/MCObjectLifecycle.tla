------------------------- MODULE MCObjectLifecycle -------------------------
(* Model-checking instance of ObjectLifecycle: three record addresses     *)
(* (two for the failure and liveness runs) and two threads; each .cfg     *)
(* sets the handle list's initial size and the bound on its growth.       *)
EXTENDS ObjectLifecycle, TLC

CONSTANTS o1, o2, o3, t1, t2

MCObj == {o1, o2, o3}
MCObj2 == {o1, o2}
MCThread == {t1, t2}
Symm == Permutations(MCObj) \cup Permutations(MCThread)
Symm2 == Permutations(MCObj2) \cup Permutations(MCThread)

\* a thread's locals are dead while it is idle: every call sets the ones it
\* reads before reading them
Live(t, x) == IF pc[t] = "idle" THEN NULL ELSE x
LiveLocals ==
  [t \in MCThread |-> <<Live(t, obj[t]), Live(t, tmp[t]), Live(t, ck[t]),
                        Live(t, ok[t]), Live(t, st[t]), Live(t, idx[t])>>]
View == <<objVars, listVars, connVars, nativeVars, pc, stack, op, LiveLocals>>
=============================================================================
