-------------------------- MODULE SchedulerOwnership --------------------------
(***************************************************************************)
(* Handing one workload from the Cloudflare cron to the VPS orchestrator:  *)
(* the ownership row, the fence each scheduler reads it through, the       *)
(* read-only quiescence verifier and the operator's records.               *)
(*                                                                         *)
(* A fence is read once, and the phases it admits start later: an owner    *)
(* change stops nobody who is already in.  Time is ages in ticks, capped   *)
(* where nothing tells larger ones apart.                                  *)
(***************************************************************************)
EXTENDS Integers

CONSTANTS Legacy,     \* scheduled invocations of the Worker
          Drain,      \* drain_minutes of the verifier
          Day,        \* how old evidence may be
          Life        \* bound: how far ahead a record expires

ASSUME TimeAssumption ==
  /\ Drain \in Nat \ {0} /\ Day \in Nat /\ Drain < Day
  /\ Life \in Nat \ {0}

VARIABLES
  row,      \* order_scheduler_ownership of the workload
  cron,     \* the Cloudflare trigger fires
  quiet,    \* how long it has been off
  pc,       \* pc[w]: "out", "in" (admitted by the fence), "busy" (in a phase)
  since,    \* since[w]: age of its admission
  start,    \* start[w]: age of the phase it is in
  vps,      \* the orchestrator's unit, as pc
  vstart,   \* age of the phase the unit is in
  audit,    \* age of the youngest start in pipeline_run_log, Day if none
  verified, \* the verifier passed, and the Worker has not owned the row since
  stale     \* who was admitted under an owner replaced since

runs == <<pc, since, start, vps, vstart, audit>>
vars == <<row, cron, quiet, runs, verified, stale>>

Owner == {"cloudflare_worker", "vps_order_orchestrator", "disabled"}
KillSwitch == {"enabled", "disabled"}    \* "unverified" enables nobody either
VPS == "vps"
PC == {"out", "in", "busy"}

ASSUME LegacyAssumption == VPS \notin Legacy

TypeOK ==
  /\ row \in [owner : Owner \cup {"absent"}, switch : KillSwitch, off : BOOLEAN,
              obs : 0..Day, exp : 0..Life]
  /\ cron \in BOOLEAN /\ quiet \in 0..Day
  /\ pc \in [Legacy -> PC]
  /\ since \in [Legacy -> 0..Day] /\ start \in [Legacy -> 0..Day]
  /\ vps \in PC /\ vstart \in 0..Day /\ audit \in 0..Day
  /\ verified \in BOOLEAN
  /\ stale \subseteq Legacy \cup {VPS}

Init ==
  /\ row = [owner |-> "absent", switch |-> "disabled", off |-> FALSE,
            obs |-> 0, exp |-> 0]
  /\ cron = TRUE /\ quiet = 0
  /\ pc = [w \in Legacy |-> "out"]
  /\ since = [w \in Legacy |-> 0] /\ start = [w \in Legacy |-> 0]
  /\ vps = "out" /\ vstart = 0
  /\ audit = Day
  /\ verified = FALSE
  /\ stale = {}

\* Evidence older than a day and an expired row authorize nobody.
Current == row.obs < Day /\ row.exp > 0

-----------------------------------------------------------------------------
(* The Worker: fenceCloudflareScheduledPhases, then one phase after another *)

CloudflareMayWhenEnabled == row.owner = "absent"
                            \/ (row.switch = "enabled" /\ Current)          \* mutant
CloudflareMay ==
  \/ row.owner = "absent"
  \/ row.owner = "cloudflare_worker" /\ row.switch = "enabled" /\ Current

Admit(w) ==
  /\ cron /\ pc[w] = "out" /\ CloudflareMay
  /\ pc' = [pc EXCEPT ![w] = "in"]
  /\ UNCHANGED <<row, cron, quiet, since, start, vps, vstart, audit, verified, stale>>

Leave(w) == /\ pc' = [pc EXCEPT ![w] = "out"]
            /\ since' = [since EXCEPT ![w] = 0]
            /\ stale' = stale \ {w}

StartPhase(w) ==
  /\ pc[w] = "in"
  /\ pc' = [pc EXCEPT ![w] = "busy"]
  /\ UNCHANGED <<row, cron, quiet, since, start, vps, vstart, audit, verified, stale>>

\* executePhase writes its audit row once the phase is over, with both times;
\* a write that fails is only logged.
Audited(age) == audit' = IF age < audit THEN age ELSE audit

EndPhase(w) ==
  /\ pc[w] = "busy"
  /\ Audited(start[w]) \/ UNCHANGED audit
  /\ start' = [start EXCEPT ![w] = 0]
  /\ \/ /\ pc' = [pc EXCEPT ![w] = "in"]
        /\ UNCHANGED <<since, stale>>
     \/ Leave(w)
  /\ UNCHANGED <<row, cron, quiet, vps, vstart, verified>>

Die(w) ==
  /\ pc[w] # "out"
  /\ start' = [start EXCEPT ![w] = 0]
  /\ Leave(w)
  /\ UNCHANGED <<row, cron, quiet, vps, vstart, audit, verified>>

-----------------------------------------------------------------------------
(* The orchestrator's unit: verifyVpsLiveOwnership, then its phases *)

VpsMay == /\ row.owner = "vps_order_orchestrator"
          /\ row.switch = "enabled" /\ row.off /\ Current

VpsAdmit ==
  /\ vps = "out" /\ VpsMay
  /\ vps' = "in"
  /\ UNCHANGED <<row, cron, quiet, pc, since, start, vstart, audit, verified, stale>>

VpsStart ==
  /\ vps = "in"
  /\ vps' = "busy"
  /\ UNCHANGED <<row, cron, quiet, pc, since, start, vstart, audit, verified, stale>>

VpsEnd ==
  /\ vps = "busy"
  /\ Audited(vstart) \/ UNCHANGED audit
  /\ vstart' = 0
  /\ \/ vps' = "in" /\ UNCHANGED stale
     \/ vps' = "out" /\ stale' = stale \ {VPS}
  /\ UNCHANGED <<row, cron, quiet, pc, since, start, verified>>

VpsDies ==
  /\ vps # "out"
  /\ vps' = "out" /\ vstart' = 0
  /\ stale' = stale \ {VPS}
  /\ UNCHANGED <<row, cron, quiet, pc, since, start, audit, verified>>

-----------------------------------------------------------------------------
(* The operator *)

Trigger ==
  /\ cron' = ~cron /\ quiet' = 0
  /\ UNCHANGED <<row, runs, verified, stale>>

\* What record_order_scheduler_ownership accepts over the present row.  The
\* expected owner is the present one (compared under the row's lock).
Recordable(owner, switch, off) ==
  /\ owner = "vps_order_orchestrator" =>
       off /\ row.owner \in {"disabled", "vps_order_orchestrator"}
  /\ owner = "disabled" => switch = "disabled"

\* The evidence is true: the trigger was off since it was observed, or it is
\* observed now.
Record(owner, switch, off, obs, exp) ==
  /\ Recordable(owner, switch, off)
  /\ obs <= quiet
  /\ row' = [owner |-> owner, switch |-> switch, off |-> off, obs |-> obs, exp |-> exp]
  /\ verified' = (verified /\ owner # "cloudflare_worker")
  /\ stale' = IF owner = row.owner THEN stale
              ELSE stale \cup {w \in Legacy : pc[w] # "out"}
                         \cup (IF vps = "out" THEN {} ELSE {VPS})
  /\ UNCHANGED <<cron, quiet, runs>>

\* validateWorkloadQuiescence.  No audit row is ever unterminated, so that its
\* check of ended_at never fails; open operations and the shadow run of the
\* target release, which may also fail it, are left out.
QuiescentUndrained == row.owner = "disabled" /\ row.exp > 0
                      /\ ~(audit < row.obs) /\ vps = "out"                  \* mutant
Quiescent ==
  /\ row.owner = "disabled" /\ row.switch = "disabled" /\ row.exp > 0
  /\ row.obs >= Drain
  /\ ~(audit < row.obs)
  /\ vps = "out"

Verify ==
  /\ Quiescent
  /\ verified' = TRUE
  /\ UNCHANGED <<row, cron, quiet, runs, stale>>

-----------------------------------------------------------------------------
OlderUncapped(age) == age + 1                                               \* mutant
Older(age) == IF age < Day THEN age + 1 ELSE age

Tick ==
  /\ row' = [row EXCEPT !.obs = IF row.owner = "absent" THEN 0 ELSE Older(@),
                        !.exp = IF @ > 0 THEN @ - 1 ELSE 0]
  /\ quiet' = IF cron THEN 0 ELSE Older(quiet)
  /\ since' = [w \in Legacy |-> IF pc[w] = "out" THEN 0 ELSE Older(since[w])]
  /\ start' = [w \in Legacy |-> IF pc[w] = "busy" THEN Older(start[w]) ELSE 0]
  /\ vstart' = IF vps = "busy" THEN Older(vstart) ELSE 0
  /\ audit' = Older(audit)
  /\ UNCHANGED <<cron, pc, vps, verified, stale>>

Worker(w) == Admit(w) \/ StartPhase(w) \/ EndPhase(w) \/ Die(w)
Orchestrator == VpsAdmit \/ VpsStart \/ VpsEnd \/ VpsDies
Operator ==
  \/ Trigger \/ Verify
  \/ \E owner \in Owner, switch \in KillSwitch, off \in BOOLEAN,
        obs \in 0..(Day - 1), exp \in 1..Life : Record(owner, switch, off, obs, exp)

Next == (\E w \in Legacy : Worker(w)) \/ Orchestrator \/ Operator \/ Tick

Spec == Init /\ [][Next]_vars

-----------------------------------------------------------------------------
(* Properties *)

\* The two schedulers are never both inside on the word of the row as it
\* stands: when both work on the workload, one of them was let in under an
\* owner replaced since (the two fences, with the CAS of the RPC).
OverlapNeedsStaleAdmission ==
  \A w \in Legacy : pc[w] # "out" /\ vps # "out" => {w, VPS} \cap stale # {}

\* Once the verifier passed, and until the Worker owns the row again, an
\* invocation still at work, next to the orchestrator or not, was admitted at
\* least a drain interval ago: however evidence, records, triggers and stalled
\* invocations interleave, only its length bounds the overlap.
VerifiedMeansDrained ==
  verified => \A w \in Legacy : pc[w] # "out" => since[w] >= Drain

\* docs/05_DECISION_LOG.md: waiting a nominal interval is insufficient, no
\* unterminated legacy run remains when the verifier passes.
QuiescentMeansTerminated == verified => \A w \in Legacy : pc[w] # "busy"
=============================================================================
