---------------------------- MODULE Orchestrator ----------------------------
(***************************************************************************)
(* runOrchestrator: one invocation per timer tick or operator command.  It *)
(* takes the lease, inserts its run row, walks the DAG unit by unit with a *)
(* heartbeat before each, records every unit in pipeline_steps, closes the *)
(* run row and releases the lease.                                         *)
(*                                                                         *)
(* Every call to the database is one step.  A call may fail before it      *)
(* commits or lose its answer after it; a unit may fail, throw or outlive  *)
(* the lease; the process may die anywhere.                                *)
(***************************************************************************)
EXTENDS OrchestratorLease, Sequences

CONSTANTS Dag,          \* ORDER_PIPELINE_DAG, or an excerpt closed under dependsOn
          Plans,        \* what invocations are asked for
          MaxFaults     \* bound: crashes, failed calls, lost answers

U == 1..Len(Dag)
Deps(u) == {d \in U : Dag[d].name \in Dag[u].dependsOn}
Flags == {Dag[u].flag : u \in U}

ASSUME DagAssumption ==
  /\ Len(Dag) \in Nat \ {0}
  /\ \A u \in U : \A n \in Dag[u].dependsOn : \E d \in U : d < u /\ Dag[d].name = n
  /\ \A u, v \in U : Dag[u].name = Dag[v].name => u = v
ASSUME FaultsAssumption == MaxFaults \in Nat

VARIABLES
  pc,         \* where each invocation is
  plan,       \* its mode, canary unit and enabled live flags
  idx,        \* the unit its loop is at
  state,      \* stepState: what it remembers of each unit
  runRow,     \* status of its pipeline_orchestration_runs row
  row,        \* status of its pipeline_steps rows
  faults      \* faults so far

memvars == <<pc, plan, idx, state>>
vars == <<leasevars, memvars, runRow, row, faults>>

\* resolveOrchestratorRequest: a live run has a flag on, a canary is live and
\* its own flag is on.  Canary 0 is none.
Plan == {p \in [mode : {"shadow", "live"}, canary : U \cup {0}, flags : SUBSET Flags] :
           /\ p.mode = "live" => p.flags # {}
           /\ p.canary # 0 => p.mode = "live" /\ Dag[p.canary].flag \in p.flags}
Shadow == [mode |-> "shadow", canary |-> 0, flags |-> {}]
ASSUME PlansAssumption == Plans \subseteq Plan

PC == {"idle", "insert", "heartbeat", "decide", "unit", "finish", "fail", "release"}
State == {"", "NOT_SELECTED", "DISABLED", "BLOCKED", "SUCCEEDED", "FAILED"}
StepStatus == {"NONE", "RUNNING", "SUCCEEDED", "FAILED", "BLOCKED", "SKIPPED"}
RunStatus == {"NONE", "RUNNING", "SUCCEEDED", "PARTIAL", "FAILED"}

NoState == [u \in U |-> ""]
NoRows == [u \in U |-> "NONE"]

TypeOK ==
  /\ LeaseTypeOK
  /\ pc \in [Run -> PC]
  /\ plan \in [Run -> Plan]
  /\ idx \in [Run -> U]
  /\ state \in [Run -> [U -> State]]
  /\ runRow \in [Run -> RunStatus]
  /\ row \in [Run -> [U -> StepStatus]]
  /\ faults \in 0..MaxFaults

Init ==
  /\ LeaseInit
  /\ pc = [r \in Run |-> "idle"]
  /\ plan = [r \in Run |-> Shadow]
  /\ idx = [r \in Run |-> 1]
  /\ state = [r \in Run |-> NoState]
  /\ runRow = [r \in Run |-> "NONE"]
  /\ row = [r \in Run |-> NoRows]
  /\ faults = 0

Fault == faults < MaxFaults /\ faults' = faults + 1
At(r, l) == pc[r] = l
Goto(r, l) == pc' = [pc EXCEPT ![r] = l]

\* The process is gone.  Its rows never change again and no invocation reads
\* them, so the slot forgets them: its next invocation has a new run id.
End(r) == /\ Goto(r, "idle")
          /\ plan' = [plan EXCEPT ![r] = Shadow]
          /\ idx' = [idx EXCEPT ![r] = 1]
          /\ state' = [state EXCEPT ![r] = NoState]
          /\ runRow' = [runRow EXCEPT ![r] = "NONE"]
          /\ row' = [row EXCEPT ![r] = NoRows]
          /\ own' = [own EXCEPT ![r] = 0]

-----------------------------------------------------------------------------
(* Taking the lease and opening the run *)

Acquire(r) ==
  /\ At(r, "idle") /\ Acquirable
  /\ Grant(r)
  /\ \E p \in Plans : plan' = [plan EXCEPT ![r] = p]
  /\ Goto(r, "insert")
  /\ UNCHANGED <<idx, state, runRow, row, faults>>

\* The lease is taken: the invocation throws and has changed nothing.
Refused(r) == At(r, "idle") /\ ~Acquirable /\ UNCHANGED vars

\* The claim commits and its answer is lost: the throw is outside the try, so
\* nothing releases the row.
AcquireLost(r) ==
  /\ At(r, "idle") /\ Acquirable
  /\ Fault
  /\ lease' = [run |-> Gone, left |-> TTL]
  /\ UNCHANGED <<own, memvars, runRow, row>>

InsertRun(r) ==
  /\ At(r, "insert")
  /\ \/ /\ runRow' = [runRow EXCEPT ![r] = "RUNNING"]
        /\ \/ Goto(r, "heartbeat") /\ UNCHANGED faults
           \/ Goto(r, "fail") /\ Fault
     \/ Goto(r, "fail") /\ Fault /\ UNCHANGED runRow
  /\ UNCHANGED <<leasevars, plan, idx, state, row>>

-----------------------------------------------------------------------------
(* The loop over the DAG *)

Heartbeat(r) ==
  /\ At(r, "heartbeat")
  /\ \/ /\ Renewable(r)
        /\ Renew
        /\ \/ /\ own' = [own EXCEPT ![r] = TTL]
              /\ Goto(r, "decide")
              /\ UNCHANGED faults
           \/ Goto(r, "fail") /\ Fault /\ UNCHANGED own
     \/ /\ ~Renewable(r)
        /\ Goto(r, "fail")
        /\ UNCHANGED <<leasevars, faults>>
     \/ Goto(r, "fail") /\ Fault /\ UNCHANGED leasevars
  /\ UNCHANGED <<plan, idx, state, runRow, row>>

\* The unit is settled and the loop goes on.
Advance(r) ==
  IF idx[r] = Len(Dag)
  THEN Goto(r, "finish") /\ UNCHANGED idx
  ELSE Goto(r, "heartbeat") /\ idx' = [idx EXCEPT ![r] = @ + 1]

\* writeStep or finishStep stores status s; memory and control follow only if
\* its answer arrives.
Store(r, s) == row' = [row EXCEPT ![r][idx[r]] = s]
Settle(r, s, st) ==
  /\ Store(r, s)
  /\ \/ /\ state' = [state EXCEPT ![r][idx[r]] = st]
        /\ Advance(r)
        /\ UNCHANGED faults
     \/ Goto(r, "fail") /\ Fault /\ UNCHANGED <<state, idx>>
  /\ UNCHANGED <<leasevars, plan, runRow>>

Live(r) == plan[r].mode = "live"
Canary(r) == plan[r].canary # 0
Unselected(r) == Canary(r) /\ idx[r] # plan[r].canary
Disabled(r) == Live(r) /\ Dag[idx[r]].flag \notin plan[r].flags
BlockedByUnlessFailed(r) ==                                             \* mutant
  IF Canary(r) THEN {} ELSE {d \in Deps(idx[r]) : state[r][d] = "FAILED"}
BlockedBy(r) ==
  IF Canary(r) THEN {} ELSE {d \in Deps(idx[r]) : state[r][d] # "SUCCEEDED"}

SkipUnselected(r) ==
  At(r, "decide") /\ Unselected(r) /\ Settle(r, "SKIPPED", "NOT_SELECTED")

SkipDisabled(r) ==
  At(r, "decide") /\ ~Unselected(r) /\ Disabled(r) /\ Settle(r, "SKIPPED", "DISABLED")

\* verifyLiveSchedulerOwnership does not find this host the owner of the
\* workload, or a dependency did not succeed in this run.
Block(r) ==
  /\ At(r, "decide") /\ ~Unselected(r) /\ ~Disabled(r)
  /\ Live(r) \/ BlockedBy(r) # {}
  /\ Settle(r, "BLOCKED", "BLOCKED")

StartUnit(r) ==
  /\ At(r, "decide") /\ ~Unselected(r) /\ ~Disabled(r) /\ BlockedBy(r) = {}
  /\ Store(r, "RUNNING")
  /\ \/ Goto(r, "unit") /\ UNCHANGED faults
     \/ Goto(r, "fail") /\ Fault
  /\ UNCHANGED <<leasevars, plan, idx, state, runRow>>

\* A shadow run records a unit that would write as skipped, and counts it as
\* succeeded for the units behind it.
ShadowSkips(r) == ~Live(r) /\ Dag[idx[r]].shadowSkip

FinishSkipped(r) ==
  At(r, "unit") /\ ShadowSkips(r) /\ Settle(r, "SKIPPED", "SUCCEEDED")

FinishUnit(r) ==
  /\ At(r, "unit") /\ ~ShadowSkips(r)
  /\ \E s \in {"SUCCEEDED", "FAILED"} : Settle(r, s, s)

\* execute() throws, or a step write fails without committing.
StepThrows(r) ==
  /\ pc[r] \in {"decide", "unit"}
  /\ Fault
  /\ Goto(r, "fail")
  /\ UNCHANGED <<leasevars, plan, idx, state, runRow, row>>

-----------------------------------------------------------------------------
(* Closing the run *)

AllOk(r) == \A u \in U : state[r][u] \notin {"FAILED", "BLOCKED"}

FinishRun(r) ==
  /\ At(r, "finish")
  /\ \/ /\ runRow' = [runRow EXCEPT ![r] = IF AllOk(r) THEN "SUCCEEDED" ELSE "PARTIAL"]
        /\ \/ Goto(r, "release") /\ UNCHANGED faults
           \/ Goto(r, "fail") /\ Fault
     \/ Goto(r, "fail") /\ Fault /\ UNCHANGED runRow
  /\ UNCHANGED <<leasevars, plan, idx, state, row>>

\* The catch block overwrites the run row, if it is there; whether that works
\* or not the lease is released next.
FailRun(r) ==
  /\ At(r, "fail")
  /\ Goto(r, "release")
  /\ \/ /\ runRow' = [runRow EXCEPT ![r] = IF @ = "NONE" THEN @ ELSE "FAILED"]
        /\ UNCHANGED faults
     \/ Fault /\ UNCHANGED runRow
  /\ UNCHANGED <<leasevars, plan, idx, state, row>>

ReleaseLease(r) ==
  /\ At(r, "release")
  /\ End(r)
  /\ \/ Release(r) /\ UNCHANGED faults
     \/ Abandon(r) /\ Fault

Crash(r) ==
  /\ ~At(r, "idle")
  /\ Fault
  /\ End(r)
  /\ Abandon(r)

Tick == Pass /\ UNCHANGED <<memvars, runRow, row, faults>>

-----------------------------------------------------------------------------
Proceed(r) ==
  \/ InsertRun(r) \/ Heartbeat(r)
  \/ SkipUnselected(r) \/ SkipDisabled(r) \/ Block(r) \/ StartUnit(r)
  \/ FinishSkipped(r) \/ FinishUnit(r) \/ StepThrows(r)
  \/ FinishRun(r) \/ FailRun(r) \/ ReleaseLease(r)

Next ==
  \/ \E r \in Run : Acquire(r) \/ Refused(r) \/ AcquireLost(r) \/ Proceed(r) \/ Crash(r)
  \/ Tick

\* The timer keeps starting invocations, each started one is scheduled and its
\* units return, and time passes.
Fairness == /\ WF_vars(Tick)
            /\ WF_vars(\E r \in Run : Acquire(r))
            /\ \A r \in Run : WF_vars(Proceed(r))

Spec == Init /\ [][Next]_vars /\ Fairness

-----------------------------------------------------------------------------
(* Properties *)

\* Two invocations are inside a unit at once only if one of them has outlived
\* the TTL of its own last heartbeat: within it, the lease is exclusive
\* however late releases, heartbeats and claims of other invocations arrive
\* (acquire, heartbeat and release of the lease).
OverlapNeedsOverrun ==
  \A r, q \in Run : At(r, "unit") /\ At(q, "unit") /\ r # q => own[r] = 0 \/ own[q] = 0

\* What the recorded rows say of unit d lets the units behind it run.
Satisfied(r, d) == row[r][d] = IF ~Live(r) /\ Dag[d].shadowSkip THEN "SKIPPED" ELSE "SUCCEEDED"

\* A unit outside a canary runs only when the durable rows of all units it
\* depends on are satisfied, hence transitively: a failed, blocked or disabled
\* unit stops everything behind it (blockedBy in runOrchestrator).
DependenciesHonoured ==
  \A r \in Run, u \in U :
    row[r][u] \in {"RUNNING", "SUCCEEDED", "FAILED"} /\ ~Canary(r)
      => \A d \in Deps(u) : Satisfied(r, d)

\* A run row says SUCCEEDED only if no unit failed, was blocked or is still
\* running; and then a shadow run has exactly the step rows that
\* validateShadowRunAcceptance demands before a cutover.
RunStatusHonest ==
  \A r \in Run : runRow[r] = "SUCCEEDED" =>
    /\ \A u \in U : row[r][u] \in {"SUCCEEDED", "SKIPPED"}
    /\ ~Live(r) => \A u \in U : Satisfied(r, u)

\* The durable rows explain each other: a unit's row its dependencies, the run's
\* row its units, whatever answer of a write was lost.
RowsHonest == DependenciesHonoured /\ RunStatusHonest

\* No crash, lost claim or lost release keeps the pipeline from running: some
\* invocation gets the lease again and again.
PipelineKeepsRunning == []<>(\E r \in Run : At(r, "heartbeat"))
=============================================================================
