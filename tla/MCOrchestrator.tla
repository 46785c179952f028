--------------------------- MODULE MCOrchestrator ---------------------------
(* TLC instance of Orchestrator: an excerpt of the DAG closed under dependsOn. *)
EXTENDS Orchestrator, OrderPipelineDag

MercariUnit(u) == u.name \in {"mercari_discovery", "mercari_lifecycle", "mercari_eligibility"}
ThreeUnits == SelectSeq(ORDER_PIPELINE_DAG, MercariUnit)

\* A shadow run, a live one, a live one without its last unit's flag, and a
\* canary of that unit.
Ask(flags, canary) == [mode |-> "live", canary |-> canary, flags |-> flags]
FourPlans == {Shadow, Ask(Flags, 0), Ask(Flags \ {Dag[3].flag}, 0), Ask(Flags, 3)}

\* The whole DAG meets the assumption that Orchestrator makes of its excerpt.
ASSUME WholeDag ==
  \A u \in DOMAIN ORDER_PIPELINE_DAG : \A n \in ORDER_PIPELINE_DAG[u].dependsOn :
    \E d \in 1..(u - 1) : ORDER_PIPELINE_DAG[d].name = n
=============================================================================
