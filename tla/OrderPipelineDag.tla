--------------------------- MODULE OrderPipelineDag ---------------------------
(***************************************************************************)
(* ORDER_PIPELINE_DAG of src/orchestrator.mjs: the units of a run in the   *)
(* order they execute, with the units each depends on, the live flag that  *)
(* enables it, and whether a shadow run skips it.                          *)
(***************************************************************************)
EXTENDS Sequences

Unit(name, dependsOn, flag, shadowSkip) ==
  [name |-> name, dependsOn |-> dependsOn, flag |-> flag, shadowSkip |-> shadowSkip]

Skip == TRUE
Preview == FALSE

ORDER_PIPELINE_DAG ==
  << Unit("message_ingestion", {}, "MESSAGE_INGESTION", Preview),
     Unit("mercari_discovery", {}, "MERCARI_LIFECYCLE", Preview),
     Unit("mercari_lifecycle", {"mercari_discovery"}, "MERCARI_LIFECYCLE", Preview),
     Unit("rakuten_discovery", {}, "RAKUTEN_LIFECYCLE", Preview),
     Unit("rakuten_lifecycle", {"rakuten_discovery"}, "RAKUTEN_LIFECYCLE", Preview),
     Unit("mercari_eligibility", {"mercari_lifecycle"}, "MERCARI_ELIGIBILITY", Skip),
     Unit("mercari_projection", {"mercari_eligibility"}, "MERCARI_PROJECTION", Skip),
     Unit("rakuten_confirmation", {"rakuten_lifecycle"}, "RAKUTEN_CONFIRMATION", Skip),
     Unit("rakuten_projection", {"rakuten_confirmation"}, "RAKUTEN_PROJECTION", Skip),
     Unit("mercari_giga_outbound", {"mercari_projection"}, "MERCARI_GIGA_OUTBOUND", Skip),
     Unit("rakuten_giga_outbound", {"rakuten_projection"}, "RAKUTEN_GIGA_OUTBOUND", Skip),
     Unit("mercari_tracking", {"mercari_giga_outbound"}, "MERCARI_TRACKING", Skip),
     Unit("rakuten_tracking", {"rakuten_giga_outbound"}, "RAKUTEN_TRACKING", Skip),
     Unit("mercari_close", {"mercari_tracking"}, "MERCARI_CLOSE", Skip),
     Unit("rakuten_close", {"rakuten_tracking"}, "RAKUTEN_CLOSE", Skip),
     Unit("integrity_audit", {}, "INTEGRITY_AUDIT", Preview),
     Unit("payment_reminders", {"mercari_lifecycle"}, "PAYMENT_REMINDERS", Preview) >>
=============================================================================
