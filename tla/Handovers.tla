----------------------------- MODULE Handovers -----------------------------
(***************************************************************************)
(* The two registries that say who may work: one hands a workload of the   *)
(* order pipeline to another scheduler, the other hands a component of the *)
(* ticket platform to another version of its Worker.  They share no table  *)
(* and no process, so a behaviour moves one of the two.                    *)
(***************************************************************************)
EXTENDS SchedulerOwnership, RuntimeOwnership

VARIABLE half       \* "scheduler" or "runtime": the part that moves

hvars == <<half, vars, rvars>>

HInit == half \in {"scheduler", "runtime"} /\ Init /\ RInit

InScheduler(Step) == half = "scheduler" /\ Step /\ UNCHANGED <<half, rvars>>
InRuntime(Step) == half = "runtime" /\ Step /\ UNCHANGED <<half, vars>>
HNext == InScheduler(Next) \/ InRuntime(RNext)

HSpec == HInit /\ [][HNext]_hvars

HTypeOK == TypeOK /\ RTypeOK
=============================================================================
