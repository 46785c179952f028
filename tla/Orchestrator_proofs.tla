-------------------------- MODULE Orchestrator_proofs --------------------------
(***************************************************************************)
(* Proofs about Orchestrator, for every DAG whose units depend on earlier  *)
(* ones only, any number of invocations, any TTL and any number of faults. *)
(***************************************************************************)
EXTENDS Orchestrator, TLAPS

LEMMA UnitNumbers == Len(Dag) \in Nat \ {0} /\ 1 \in U /\ Len(Dag) \in U /\ U \subseteq Nat
BY DagAssumption DEF U

LEMMA UnitOrder ==
  /\ \A i \in U : i # Len(Dag) => i + 1 \in U
  /\ \A i \in U : ~(i < 1) /\ (i = 1 \/ i > 1)
  /\ \A i \in U : ~(i < i) /\ ~(i > i) /\ ~(i > Len(Dag)) /\ i + 1 > i
  /\ \A i, u \in U : u < i \/ u = i \/ u > i
  /\ \A i, u \in U : ~(u < i /\ u > i)
  /\ \A i, u \in U : (u < i + 1 <=> ~(u > i)) /\ (u > i + 1 => u > i)
BY UnitNumbers DEF U

LEMMA DepsAreEarlier ==
  ASSUME NEW u \in U, NEW d \in Deps(u)
  PROVE  d \in U /\ d < u
<1>1. d \in U /\ Dag[d].name \in Dag[u].dependsOn
  BY DEF Deps
<1>2. PICK e \in U : e < u /\ Dag[e].name = Dag[d].name
  BY <1>1, DagAssumption
<1>3. e = d
  BY <1>1, <1>2, DagAssumption
<1> QED BY <1>1, <1>2, <1>3

-----------------------------------------------------------------------------
(* Types *)

LEMMA ShadowIsPlan == Shadow \in Plan
BY DEF Shadow, Plan

LEMMA InitType == Init => TypeOK
<1> SUFFICES ASSUME Init PROVE TypeOK
  OBVIOUS
<1>1. LeaseTypeOK
  BY LeaseAssumption DEF Init, LeaseInit, LeaseTypeOK, Unleased
<1>2. NoState \in [U -> State] /\ NoRows \in [U -> StepStatus]
  BY DEF NoState, State, NoRows, StepStatus
<1>3. faults \in 0..MaxFaults
  BY FaultsAssumption DEF Init
<1> QED BY <1>1, <1>2, <1>3, ShadowIsPlan, UnitNumbers DEF Init, TypeOK, PC, RunStatus

LEMMA FaultType == faults \in 0..MaxFaults /\ Fault => faults' \in 0..MaxFaults
BY FaultsAssumption DEF Fault

\* The lease operations keep the lease's types.
LEMMA LeaseTypes ==
  ASSUME LeaseTypeOK, NEW r \in Run
  PROVE  /\ Grant(r) => LeaseTypeOK'
         /\ Renew => lease' \in [run : Run \cup {NoRun, Gone}, left : 0..TTL]
         /\ Release(r) => lease' \in [run : Run \cup {NoRun, Gone}, left : 0..TTL]
         /\ Abandon(r) => lease' \in [run : Run \cup {NoRun, Gone}, left : 0..TTL]
<1>1. TTL \in 0..TTL /\ 0 \in 0..TTL
  BY LeaseAssumption
<1>3. Grant(r) => LeaseTypeOK'
  BY <1>1 DEF Grant, LeaseTypeOK
<1>4. Renew => lease' \in [run : Run \cup {NoRun, Gone}, left : 0..TTL]
  BY <1>1 DEF Renew, LeaseTypeOK
<1>5. Release(r) => lease' \in [run : Run \cup {NoRun, Gone}, left : 0..TTL]
  BY <1>1 DEF Release, Unleased, LeaseTypeOK
<1>6. Abandon(r) => lease' \in [run : Run \cup {NoRun, Gone}, left : 0..TTL]
  BY DEF Abandon, LeaseTypeOK
<1> QED BY <1>3, <1>4, <1>5, <1>6

LEMMA PassType == LeaseTypeOK /\ Pass => LeaseTypeOK'
<1>1. \A n \in 0..TTL : Dec(n) \in 0..TTL
  BY LeaseAssumption DEF Dec
<1> QED BY <1>1 DEF Pass, LeaseTypeOK

LEMMA SettleType ==
  ASSUME TypeOK, NEW r \in Run, NEW s \in StepStatus, NEW st \in State, Settle(r, s, st)
  PROVE  TypeOK'
<1>1. idx[r] \in U
  BY DEF TypeOK
<1>2. row' \in [Run -> [U -> StepStatus]]
  BY <1>1 DEF Settle, Store, TypeOK
<1>3. state' \in [Run -> [U -> State]]
  <2>1. CASE state' = [state EXCEPT ![r][idx[r]] = st]
    BY <1>1, <2>1 DEF TypeOK
  <2>2. CASE state' = state
    BY <2>2 DEF TypeOK
  <2> QED BY <2>1, <2>2 DEF Settle
<1>4. idx' \in [Run -> U]
  <2>1. idx[r] # Len(Dag) => idx[r] + 1 \in U
    BY <1>1, UnitNumbers DEF U
  <2> QED BY <1>1, <2>1 DEF Settle, Advance, TypeOK
<1>5. pc' \in [Run -> PC]
  BY DEF Settle, Advance, Goto, TypeOK, PC
<1>6. faults' \in 0..MaxFaults
  BY FaultType DEF Settle, TypeOK
<1> QED BY <1>2, <1>3, <1>4, <1>5, <1>6 DEF Settle, TypeOK, leasevars, LeaseTypeOK

LEMMA EndType ==
  ASSUME TypeOK, NEW r \in Run, End(r), faults' \in 0..MaxFaults,
         lease' \in [run : Run \cup {NoRun, Gone}, left : 0..TTL]
  PROVE  TypeOK'
<1>1. NoState \in [U -> State] /\ NoRows \in [U -> StepStatus] /\ 0 \in 0..TTL
  BY LeaseAssumption DEF NoState, State, NoRows, StepStatus
<1> QED BY <1>1, ShadowIsPlan, UnitNumbers
        DEF End, Goto, TypeOK, LeaseTypeOK, PC, RunStatus

LEMMA StepType == TypeOK /\ [Next]_vars => TypeOK'
<1> SUFFICES ASSUME TypeOK, [Next]_vars PROVE TypeOK'
  OBVIOUS
<1>0. LeaseTypeOK /\ faults \in 0..MaxFaults
  BY DEF TypeOK
<1>1. ASSUME NEW r \in Run, Acquire(r) PROVE TypeOK'
  <2>1. LeaseTypeOK'
    BY <1>0, <1>1, LeaseTypes DEF Acquire
  <2> QED BY <1>1, <2>1, PlansAssumption DEF Acquire, Goto, TypeOK, PC
<1>2. ASSUME NEW r \in Run, AcquireLost(r) PROVE TypeOK'
  <2>1. LeaseTypeOK'
    BY <1>0, <1>2, LeaseAssumption DEF AcquireLost, LeaseTypeOK
  <2> QED BY <1>0, <1>2, <2>1, FaultType DEF AcquireLost, TypeOK, memvars
<1>3. ASSUME NEW r \in Run, InsertRun(r) PROVE TypeOK'
  BY <1>0, <1>3, FaultType DEF InsertRun, Goto, TypeOK, PC, RunStatus, leasevars, LeaseTypeOK
<1>4. ASSUME NEW r \in Run, Heartbeat(r) PROVE TypeOK'
  <2>1. LeaseTypeOK'
    BY <1>0, <1>4, LeaseTypes, LeaseAssumption DEF Heartbeat, LeaseTypeOK, leasevars
  <2>2. pc' \in [Run -> PC] /\ faults' \in 0..MaxFaults
    BY <1>0, <1>4, FaultType DEF Heartbeat, Goto, TypeOK, PC
  <2> QED BY <1>4, <2>1, <2>2 DEF Heartbeat, TypeOK
<1>5. ASSUME NEW r \in Run, SkipUnselected(r) \/ SkipDisabled(r) \/ Block(r) PROVE TypeOK'
  BY <1>5, SettleType DEF SkipUnselected, SkipDisabled, Block, StepStatus, State
<1>6. ASSUME NEW r \in Run, StartUnit(r) PROVE TypeOK'
  <2>1. row' \in [Run -> [U -> StepStatus]]
    BY <1>6 DEF StartUnit, Store, TypeOK, StepStatus
  <2> QED BY <1>0, <1>6, <2>1, FaultType
          DEF StartUnit, Goto, TypeOK, PC, leasevars, LeaseTypeOK
<1>7. ASSUME NEW r \in Run, FinishSkipped(r) \/ FinishUnit(r) PROVE TypeOK'
  BY <1>7, SettleType DEF FinishSkipped, FinishUnit, StepStatus, State
<1>8. ASSUME NEW r \in Run, StepThrows(r) PROVE TypeOK'
  BY <1>0, <1>8, FaultType DEF StepThrows, Goto, TypeOK, PC, leasevars, LeaseTypeOK
<1>9. ASSUME NEW r \in Run, FinishRun(r) PROVE TypeOK'
  <2>1. runRow' \in [Run -> RunStatus]
    BY <1>9 DEF FinishRun, TypeOK, RunStatus
  <2> QED BY <1>0, <1>9, <2>1, FaultType
          DEF FinishRun, Goto, TypeOK, PC, leasevars, LeaseTypeOK
<1>10. ASSUME NEW r \in Run, FailRun(r) PROVE TypeOK'
  <2>1. runRow' \in [Run -> RunStatus]
    BY <1>10 DEF FailRun, TypeOK, RunStatus
  <2> QED BY <1>0, <1>10, <2>1, FaultType
          DEF FailRun, Goto, TypeOK, PC, leasevars, LeaseTypeOK
<1>11. ASSUME NEW r \in Run, ReleaseLease(r) \/ Crash(r) PROVE TypeOK'
  <2>1. faults' \in 0..MaxFaults
    BY <1>0, <1>11, FaultType DEF ReleaseLease, Crash
  <2>2. lease' \in [run : Run \cup {NoRun, Gone}, left : 0..TTL]
    BY <1>0, <1>11, LeaseTypes DEF ReleaseLease, Crash
  <2> QED BY <1>11, <2>1, <2>2, EndType DEF ReleaseLease, Crash
<1>12. CASE Tick
  <2>1. LeaseTypeOK'
    BY <1>0, <1>12, PassType DEF Tick
  <2> QED BY <1>12, <2>1 DEF Tick, TypeOK, memvars
<1>13. CASE UNCHANGED vars
  BY <1>13 DEF vars, memvars, leasevars, TypeOK, LeaseTypeOK
<1>14. ASSUME NEW r \in Run, Refused(r) PROVE TypeOK'
  BY <1>13, <1>14 DEF Refused
<1> QED BY <1>1, <1>2, <1>3, <1>4, <1>5, <1>6, <1>7, <1>8, <1>9, <1>10, <1>11, <1>12,
           <1>13, <1>14 DEF Next, Proceed

\* The lease, the rows and the memory of every invocation keep their types.
THEOREM TypeCorrect == Spec => []TypeOK
BY InitType, StepType, PTL DEF Spec

-----------------------------------------------------------------------------
(* The lease *)

\* What a run still has of its TTL, the row still grants it.
LeaseInv == \A r \in Run : own[r] > 0 => lease.run = r /\ lease.left >= own[r]

\* A step that takes the lease from nobody but r, and leaves the others alone.
LEMMA LeaseFrame ==
  ASSUME TypeOK, LeaseInv, NEW r \in Run,
         \A q \in Run \ {r} : own'[q] = own[q],
         lease' = lease \/ lease.run = r,
         own'[r] > 0 => lease'.run = r /\ lease'.left >= own'[r]
  PROVE  LeaseInv'
<1> SUFFICES ASSUME NEW q \in Run, own'[q] > 0
             PROVE  lease'.run = q /\ lease'.left >= own'[q]
  BY DEF LeaseInv
<1>1. CASE q = r
  BY <1>1
<1>2. CASE q # r
  <2>1. own'[q] = own[q] /\ lease.run = q
    BY <1>2 DEF LeaseInv
  <2>2. lease' = lease
    BY <1>2, <2>1
  <2> QED BY <2>1, <2>2 DEF LeaseInv
<1> QED BY <1>1, <1>2

\* Nobody has anything left of a lease that can be acquired.
LEMMA AcquirableMeansFree ==
  ASSUME TypeOK, LeaseInv, Acquirable
  PROVE  \A r \in Run : ~(own[r] > 0)
<1> SUFFICES ASSUME NEW r \in Run, own[r] > 0 PROVE FALSE
  OBVIOUS
<1>1. own[r] \in Nat /\ lease.left \in Nat
  BY LeaseAssumption DEF TypeOK, LeaseTypeOK
<1>2. lease.run = r /\ lease.left >= own[r]
  BY DEF LeaseInv
<1> QED BY <1>1, <1>2, LeaseAssumption DEF Acquirable

LEMMA EndLease ==
  ASSUME TypeOK, LeaseInv, NEW r \in Run, End(r), Release(r) \/ Abandon(r)
  PROVE  LeaseInv'
<1>1. own'[r] = 0 /\ \A q \in Run \ {r} : own'[q] = own[q]
  BY DEF End, TypeOK, LeaseTypeOK
<1>2. lease' = lease \/ lease.run = r
  BY DEF Release, Abandon
<1> QED BY <1>1, <1>2, LeaseFrame

LEMMA PassLease == TypeOK /\ LeaseInv /\ Pass => LeaseInv'
<1> SUFFICES ASSUME TypeOK, LeaseInv, Pass, NEW r \in Run, own'[r] > 0
             PROVE  lease'.run = r /\ lease'.left >= own'[r]
  BY DEF LeaseInv
<1>1. lease'.run = lease.run /\ lease'.left = Dec(lease.left) /\ own'[r] = Dec(own[r])
  BY DEF Pass, TypeOK, LeaseTypeOK
<1>2. own[r] \in Nat /\ lease.left \in Nat
  BY LeaseAssumption DEF TypeOK, LeaseTypeOK
<1>3. own[r] > 0
  BY <1>1, <1>2 DEF Dec
<1>4. lease.run = r /\ lease.left >= own[r]
  BY <1>3 DEF LeaseInv
<1> QED BY <1>1, <1>2, <1>3, <1>4 DEF Dec

LEMMA StepLease == TypeOK /\ LeaseInv /\ [Next]_vars => LeaseInv'
<1> SUFFICES ASSUME TypeOK, LeaseInv, [Next]_vars PROVE LeaseInv'
  OBVIOUS
<1>1. ASSUME NEW r \in Run, Acquire(r) PROVE LeaseInv'
  <2>1. \A q \in Run : ~(own[q] > 0)
    BY <1>1, AcquirableMeansFree DEF Acquire
  <2>2. lease' = [run |-> r, left |-> TTL] /\ own' = [own EXCEPT ![r] = TTL]
    BY <1>1 DEF Acquire, Grant
  <2> QED BY <2>1, <2>2, LeaseAssumption DEF LeaseInv, TypeOK, LeaseTypeOK
<1>2. ASSUME NEW r \in Run, AcquireLost(r) PROVE LeaseInv'
  <2>1. \A q \in Run : ~(own[q] > 0)
    BY <1>2, AcquirableMeansFree DEF AcquireLost
  <2> QED BY <1>2, <2>1 DEF AcquireLost, LeaseInv
<1>3. ASSUME NEW r \in Run, Heartbeat(r) PROVE LeaseInv'
  <2>1. CASE UNCHANGED leasevars
    BY <2>1 DEF leasevars, LeaseInv
  <2>2. CASE Renewable(r) /\ Renew /\ (own' = [own EXCEPT ![r] = TTL] \/ UNCHANGED own)
    <3>1. lease'.run = r /\ lease'.left = TTL /\ lease.run = r
      BY <2>2 DEF Renewable, Renew, TypeOK, LeaseTypeOK
    <3>2. own'[r] \in 0..TTL /\ \A q \in Run \ {r} : own'[q] = own[q]
      BY <2>2, LeaseAssumption DEF TypeOK, LeaseTypeOK
    <3>3. TTL >= own'[r]
      BY <3>2, LeaseAssumption
    <3> QED BY <3>1, <3>2, <3>3, LeaseFrame
  <2> QED BY <1>3, <2>1, <2>2 DEF Heartbeat
<1>4. ASSUME NEW r \in Run, ReleaseLease(r) \/ Crash(r) PROVE LeaseInv'
  BY <1>4, EndLease DEF ReleaseLease, Crash
<1>5. CASE Tick
  BY <1>5, PassLease DEF Tick
<1>6. CASE UNCHANGED leasevars
  BY <1>6 DEF leasevars, LeaseInv
<1>7. ASSUME NEW r \in Run, Proceed(r), ~Heartbeat(r), ~ReleaseLease(r)
      PROVE  UNCHANGED leasevars
  BY <1>7 DEF Proceed, InsertRun, SkipUnselected, SkipDisabled, Block, StartUnit,
              FinishSkipped, FinishUnit, StepThrows, FinishRun, FailRun, Settle
<1>8. UNCHANGED vars => UNCHANGED leasevars
  BY DEF vars
<1> QED BY <1>1, <1>2, <1>3, <1>4, <1>5, <1>6, <1>7, <1>8 DEF Next, Refused

\* Within the TTL of its own last heartbeat no invocation runs a unit next to
\* another one, whatever was lost, late or crashed.
THEOREM OverlapCorrect == Spec => []OverlapNeedsOverrun
<1>1. Init => LeaseInv
  BY DEF Init, LeaseInit, LeaseInv
<1>2. TypeOK /\ LeaseInv => OverlapNeedsOverrun
  <2> SUFFICES ASSUME TypeOK, LeaseInv, NEW r \in Run, NEW q \in Run, r # q
               PROVE  own[r] = 0 \/ own[q] = 0
    BY DEF OverlapNeedsOverrun
  <2>1. own[r] \in Nat /\ own[q] \in Nat
    BY LeaseAssumption DEF TypeOK, LeaseTypeOK
  <2>2. ~(own[r] > 0 /\ own[q] > 0)
    BY DEF LeaseInv
  <2> QED BY <2>1, <2>2
<1> QED BY <1>1, <1>2, InitType, StepType, StepLease, PTL DEF Spec

-----------------------------------------------------------------------------
(* The rows of the DAG *)

Walking == {"idle", "insert", "heartbeat", "decide", "unit"}
Ran == {"RUNNING", "SUCCEEDED", "FAILED"}

\* Where an invocation is says which units it remembers and which have rows.
Place(r) ==
  /\ pc[r] \in {"idle", "insert"} => idx[r] = 1
  /\ pc[r] \in Walking =>
       /\ \A u \in U : u > idx[r] => row[r][u] = "NONE"
       /\ row[r][idx[r]] = IF pc[r] = "unit" THEN "RUNNING" ELSE "NONE"
       /\ \A u \in U : state[r][u] # "" <=> u < idx[r]
  /\ pc[r] = "finish" => \A u \in U : state[r][u] # ""
  /\ runRow[r] = "SUCCEEDED" => pc[r] \in {"fail", "release"}

\* What it remembers of a unit, the unit's row confirms.
Remembered(r, u) ==
  /\ state[r][u] = "SUCCEEDED" => Satisfied(r, u)
  /\ state[r][u] \in {"NOT_SELECTED", "DISABLED"} => row[r][u] = "SKIPPED" /\ Live(r)

Honoured(r, u) == row[r][u] \in Ran /\ ~Canary(r) => \A d \in Deps(u) : Satisfied(r, d)

Honest(r) == runRow[r] = "SUCCEEDED" =>
               /\ \A u \in U : row[r][u] \in {"SUCCEEDED", "SKIPPED"}
               /\ ~Live(r) => \A u \in U : Satisfied(r, u)

RowInv(r) == /\ Place(r)
             /\ \A u \in U : Remembered(r, u) /\ Honoured(r, u)
             /\ Honest(r)

LEMMA CanaryIsLive == TypeOK => \A r \in Run : Canary(r) => Live(r)
BY DEF TypeOK, Plan, Canary, Live

\* A step of another invocation.
LEMMA RowFrame ==
  ASSUME NEW r \in Run, RowInv(r),
         pc'[r] = pc[r], plan'[r] = plan[r], idx'[r] = idx[r], state'[r] = state[r],
         runRow'[r] = runRow[r], row'[r] = row[r]
  PROVE  RowInv(r)'
<1>1. /\ Live(r)' <=> Live(r)
      /\ Canary(r)' <=> Canary(r)
      /\ \A u \in U : Satisfied(r, u)' <=> Satisfied(r, u)
  BY DEF Live, Canary, Satisfied
<1>2. Place(r)'
  BY DEF RowInv, Place
<1>3. \A u \in U : Remembered(r, u)'
  BY <1>1 DEF RowInv, Remembered
<1>4. \A u \in U : Honoured(r, u)'
  <2>1. \A u \in U : Deps(u) \subseteq U
    BY DEF Deps
  <2> QED BY <1>1, <2>1 DEF RowInv, Honoured
<1>5. Honest(r)'
  BY <1>1 DEF RowInv, Honest
<1> QED BY <1>2, <1>3, <1>4, <1>5 DEF RowInv

\* What the place says of an invocation on its way through the DAG.
LEMMA PlaceNow ==
  ASSUME NEW r \in Run, Place(r), pc[r] \in Walking, idx[r] \in U
  PROVE  /\ state[r][idx[r]] = ""
         /\ \A u \in U : u > idx[r] => row[r][u] = "NONE" /\ state[r][u] = ""
         /\ \A u \in U : u < idx[r] => state[r][u] # ""
<1>1. \A u \in U : state[r][u] # "" <=> u < idx[r]
  BY DEF Place
<1>2. \A u \in U : u > idx[r] => row[r][u] = "NONE"
  BY DEF Place
<1> QED BY <1>1, <1>2, UnitOrder

\* The next unit's place.
LEMMA PlaceNext ==
  ASSUME NEW r \in Run, NEW i \in U, i # Len(Dag),
         pc'[r] = "heartbeat", idx'[r] = i + 1, runRow'[r] # "SUCCEEDED",
         \A u \in U : u > i => row'[r][u] = "NONE" /\ state'[r][u] = "",
         \A u \in U : ~(u > i) => state'[r][u] # ""
  PROVE  Place(r)'
<1>4. row'[r][i + 1] = "NONE"
  BY UnitOrder
<1>5. \A u \in U : state'[r][u] # "" <=> u < i + 1
  BY UnitOrder
<1>6. \A u \in U : u > i + 1 => row'[r][u] = "NONE"
  BY UnitOrder
<1> QED BY <1>4, <1>5, <1>6 DEF Place, Walking

\* A step that moves pc only, and keeps what the place says.
LEMMA MoveFrame ==
  ASSUME NEW r \in Run, RowInv(r), Place(r)',
         UNCHANGED <<plan, idx, state, row>>,
         runRow'[r] = "SUCCEEDED" => runRow[r] = "SUCCEEDED"
  PROVE  RowInv(r)'
BY DEF RowInv, Remembered, Honoured, Honest, Satisfied, Canary, Live

\* An invocation that has run nothing yet, or nothing any more.
LEMMA FreshRows ==
  ASSUME NEW r \in Run, pc[r] \in {"idle", "insert"}, idx[r] = 1, state[r] = NoState,
         row[r] = NoRows, runRow[r] = "NONE"
  PROVE  RowInv(r)
<1>1. \A u \in U : state[r][u] = "" /\ row[r][u] = "NONE"
  BY DEF NoState, NoRows
<1>2. \A u \in U : ~(u < 1)
  BY DEF U
<1> QED BY <1>1, <1>2, UnitNumbers
        DEF RowInv, Place, Walking, Remembered, Honoured, Honest, Ran

\* The row of the unit at idx changes to s; everything known of the units
\* before it stands, and the units behind it have no rows.
LEMMA StoreKeeps ==
  ASSUME TypeOK, NEW r \in Run, RowInv(r), pc[r] \in Walking,
         NEW s \in StepStatus, row' = [row EXCEPT ![r][idx[r]] = s], UNCHANGED plan,
         s \in Ran /\ ~Canary(r) => \A d \in Deps(idx[r]) : Satisfied(r, d)
  PROVE  /\ row'[r][idx[r]] = s
         /\ \A u \in U : u # idx[r] => row'[r][u] = row[r][u]
         /\ \A u \in U : u # idx[r] => (Satisfied(r, u)' <=> Satisfied(r, u))
         /\ \A u \in U : Honoured(r, u)'
<1>0. idx[r] \in U
  BY DEF TypeOK
<1>1. row'[r][idx[r]] = s /\ \A u \in U : u # idx[r] => row'[r][u] = row[r][u]
  BY <1>0 DEF TypeOK
<1>2. \A u \in U : u # idx[r] => (Satisfied(r, u)' <=> Satisfied(r, u))
  BY <1>1 DEF Satisfied, Live
<1>3. \A u \in U : u > idx[r] => row'[r][u] = "NONE"
  <2>1. \A u \in U : u > idx[r] => row[r][u] = "NONE" /\ u # idx[r]
    BY <1>0, PlaceNow, UnitOrder DEF RowInv
  <2> QED BY <1>1, <2>1
<1>4. ASSUME NEW u \in U, row'[r][u] \in Ran, ~Canary(r), NEW d \in Deps(u)
      PROVE  Satisfied(r, d)'
  <2>1. u \in Nat /\ idx[r] \in Nat /\ d \in U /\ d \in Nat /\ d < u
    BY <1>0, UnitNumbers, DepsAreEarlier
  <2>2. u <= idx[r]
    BY <1>3, <1>4, <2>1 DEF Ran
  <2>3. d # idx[r]
    BY <2>1, <2>2
  <2>4. Satisfied(r, d)
    <3>1. CASE u = idx[r]
      BY <1>1, <1>4, <3>1
    <3>2. CASE u # idx[r]
      BY <1>1, <1>4, <3>2 DEF RowInv, Honoured
    <3> QED BY <3>1, <3>2
  <2> QED BY <1>2, <2>1, <2>3, <2>4
<1> QED BY <1>1, <1>2, <1>4 DEF Honoured, Canary

\* Settling a unit as s, remembered as st.
LEMMA SettleRows ==
  ASSUME TypeOK, NEW r \in Run, RowInv(r), pc[r] \in {"decide", "unit"},
         NEW s \in StepStatus, NEW st \in State, st # "", Settle(r, s, st),
         s \in Ran /\ ~Canary(r) => \A d \in Deps(idx[r]) : Satisfied(r, d),
         st = "SUCCEEDED" =>
           s = IF ~Live(r) /\ Dag[idx[r]].shadowSkip THEN "SKIPPED" ELSE "SUCCEEDED",
         st \in {"NOT_SELECTED", "DISABLED"} => s = "SKIPPED" /\ Live(r)
  PROVE  RowInv(r)'
<1>0. idx[r] \in U /\ idx[r] \in Nat /\ Len(Dag) \in Nat /\ pc[r] \in Walking
  BY UnitNumbers DEF TypeOK, Walking
<1>1. row' = [row EXCEPT ![r][idx[r]] = s] /\ UNCHANGED <<plan, runRow>>
  BY DEF Settle, Store
<1>2. /\ row'[r][idx[r]] = s
      /\ \A u \in U : u # idx[r] => row'[r][u] = row[r][u]
      /\ \A u \in U : u # idx[r] => (Satisfied(r, u)' <=> Satisfied(r, u))
      /\ \A u \in U : Honoured(r, u)'
  BY <1>0, <1>1, StoreKeeps
<1>3. runRow'[r] # "SUCCEEDED"
  BY <1>1 DEF RowInv, Place
<1>4. Honest(r)'
  BY <1>3 DEF Honest
<1>5. CASE state' = state /\ idx' = idx /\ pc' = [pc EXCEPT ![r] = "fail"]
  <2>1. state[r][idx[r]] = ""
    BY <1>0, PlaceNow DEF RowInv
  <2>2. \A u \in U : Remembered(r, u)'
    BY <1>1, <1>2, <1>5, <2>1 DEF RowInv, Remembered, Live
  <2>3. Place(r)'
    BY <1>3, <1>5 DEF Place, Walking, TypeOK
  <2> QED BY <1>2, <1>4, <2>2, <2>3 DEF RowInv
<1>6. CASE state' = [state EXCEPT ![r][idx[r]] = st] /\ Advance(r)
  <2>1. state'[r][idx[r]] = st /\ \A u \in U : u # idx[r] => state'[r][u] = state[r][u]
    BY <1>0, <1>6 DEF TypeOK
  <2>2. \A u \in U : Remembered(r, u)'
    <3>2. ASSUME NEW u \in U, u = idx[r] PROVE Remembered(r, u)'
      <4>1. row'[r][u] = s /\ state'[r][u] = st /\ (Live(r)' <=> Live(r))
        BY <1>1, <1>2, <2>1, <3>2 DEF Live
      <4>2. st = "SUCCEEDED" => Satisfied(r, u)'
        BY <3>2, <4>1 DEF Satisfied
      <4> QED BY <4>1, <4>2 DEF Remembered
    <3>3. ASSUME NEW u \in U, u # idx[r] PROVE Remembered(r, u)'
      BY <1>1, <1>2, <2>1, <3>3 DEF RowInv, Remembered, Live
    <3> QED BY <3>2, <3>3
  <2>3. \A u \in U : ~(u > idx[r]) => state'[r][u] # ""
    <3>1. \A u \in U : u < idx[r] => state[r][u] # ""
      BY <1>0, PlaceNow DEF RowInv
    <3>2. \A u \in U : ~(u > idx[r]) => u = idx[r] \/ u < idx[r]
      BY <1>0, UnitOrder
    <3> QED BY <2>1, <3>1, <3>2
  <2>4. CASE idx[r] = Len(Dag)
    <3>1. pc'[r] = "finish"
      BY <1>6, <2>4 DEF Advance, Goto, TypeOK
    <3>2. \A u \in U : ~(u > idx[r])
      BY <2>4, UnitOrder
    <3>3. Place(r)'
      BY <1>3, <2>3, <3>1, <3>2 DEF Place, Walking
    <3> QED BY <1>2, <1>4, <2>2, <3>3 DEF RowInv
  <2>5. CASE idx[r] # Len(Dag)
    <3>1. pc'[r] = "heartbeat" /\ idx'[r] = idx[r] + 1
      BY <1>6, <2>5 DEF Advance, Goto, TypeOK
    <3>2. \A u \in U : u > idx[r] => row'[r][u] = "NONE" /\ state'[r][u] = ""
      <4>1. \A u \in U : u > idx[r] => row[r][u] = "NONE" /\ state[r][u] = "" /\ u # idx[r]
        BY <1>0, PlaceNow, UnitOrder DEF RowInv
      <4> QED BY <1>2, <2>1, <4>1
    <3>3. Place(r)'
      BY <1>0, <1>3, <2>3, <2>5, <3>1, <3>2, PlaceNext
    <3> QED BY <1>2, <1>4, <2>2, <3>3 DEF RowInv
  <2> QED BY <2>4, <2>5
<1> QED BY <1>5, <1>6 DEF Settle, Goto

LEMMA EndRows ==
  ASSUME TypeOK, NEW r \in Run, End(r)
  PROVE  RowInv(r)'
<1>1. pc'[r] = "idle" /\ idx'[r] = 1 /\ state'[r] = NoState /\ row'[r] = NoRows
      /\ runRow'[r] = "NONE"
  BY DEF End, Goto, TypeOK
<1>2. \A u \in U : state'[r][u] = "" /\ row'[r][u] = "NONE" /\ ~(u < 1)
  <2>1. \A u \in U : state'[r][u] = "" /\ row'[r][u] = "NONE"
    BY <1>1 DEF NoState, NoRows
  <2>2. \A u \in U : ~(u < 1)
    BY UnitOrder
  <2> QED BY <2>1, <2>2
<1>3. row'[r][1] = "NONE"
  BY <1>2, UnitNumbers
<1> QED BY <1>1, <1>2, <1>3 DEF RowInv, Place, Walking, Remembered, Honoured, Honest, Ran

\* The unit of a row that runs is not blocked.
LEMMA UnitHonoured ==
  ASSUME TypeOK, NEW r \in Run, RowInv(r), pc[r] = "unit", ~Canary(r)
  PROVE  \A d \in Deps(idx[r]) : Satisfied(r, d)
<1>1. idx[r] \in U /\ row[r][idx[r]] = "RUNNING"
  BY DEF RowInv, Place, Walking, TypeOK
<1> QED BY <1>1 DEF RowInv, Honoured, Ran

LEMMA StartRows ==
  ASSUME TypeOK, NEW r \in Run, RowInv(r), StartUnit(r)
  PROVE  RowInv(r)'
<1>0. idx[r] \in U /\ pc[r] \in Walking /\ pc[r] = "decide" /\ "RUNNING" \in StepStatus
  BY DEF StartUnit, At, Walking, StepStatus, TypeOK
<1>1. row' = [row EXCEPT ![r][idx[r]] = "RUNNING"] /\ UNCHANGED <<plan, runRow, state, idx>>
  BY DEF StartUnit, Store
<1>2. ~Canary(r) => \A d \in Deps(idx[r]) : Satisfied(r, d)
  <2>1. ~Canary(r) => \A d \in Deps(idx[r]) : d \in U /\ state[r][d] = "SUCCEEDED"
    BY DEF StartUnit, BlockedBy, Deps
  <2> QED BY <2>1 DEF RowInv, Remembered
<1>3. /\ row'[r][idx[r]] = "RUNNING"
      /\ \A u \in U : u # idx[r] => row'[r][u] = row[r][u]
      /\ \A u \in U : u # idx[r] => (Satisfied(r, u)' <=> Satisfied(r, u))
      /\ \A u \in U : Honoured(r, u)'
  BY <1>0, <1>1, <1>2, StoreKeeps
<1>4. runRow'[r] # "SUCCEEDED" /\ state[r][idx[r]] = ""
  BY <1>0, <1>1, PlaceNow DEF RowInv, Place
<1>5. \A u \in U : Remembered(r, u)'
  BY <1>1, <1>3, <1>4 DEF RowInv, Remembered, Live
<1>6. Place(r)'
  <2>1. \A u \in U : u > idx[r] => row'[r][u] = "NONE"
    BY <1>0, <1>3, PlaceNow, UnitOrder DEF RowInv
  <2>2. \A u \in U : state[r][u] # "" <=> u < idx[r]
    BY <1>0 DEF RowInv, Place
  <2>3. pc'[r] \in {"unit", "fail"}
    BY DEF StartUnit, Goto, TypeOK
  <2> QED BY <1>1, <1>3, <1>4, <2>1, <2>2, <2>3 DEF Place, Walking
<1> QED BY <1>3, <1>4, <1>5, <1>6 DEF RowInv, Honest

\* Closing the run with everything settled and nothing failed or blocked.
LEMMA FinishRows ==
  ASSUME TypeOK, NEW r \in Run, RowInv(r), FinishRun(r)
  PROVE  RowInv(r)'
<1>1. pc[r] = "finish" /\ UNCHANGED <<plan, idx, state, row>>
  BY DEF FinishRun, At
<1>2. pc'[r] \in {"release", "fail"}
  BY DEF FinishRun, Goto, TypeOK
<1>3. Place(r)'
  BY <1>2 DEF Place, Walking
<1>4. CASE runRow'[r] # "SUCCEEDED"
  BY <1>1, <1>3, <1>4, MoveFrame
<1>5. CASE runRow'[r] = "SUCCEEDED"
  <2>1. AllOk(r)
    BY <1>1, <1>5 DEF FinishRun, TypeOK, RowInv, Place
  <2>2. \A u \in U : state[r][u] \in {"NOT_SELECTED", "DISABLED", "SUCCEEDED"}
    BY <1>1, <2>1 DEF AllOk, RowInv, Place, TypeOK, State
  <2>3. \A u \in U : row[r][u] \in {"SUCCEEDED", "SKIPPED"}
    BY <2>2 DEF RowInv, Remembered, Satisfied
  <2>4. ~Live(r) => \A u \in U : Satisfied(r, u)
    BY <2>2 DEF RowInv, Remembered
  <2>5. Honest(r)'
    BY <1>1, <2>3, <2>4 DEF Honest, Satisfied, Live
  <2>6. \A u \in U : Remembered(r, u)' /\ Honoured(r, u)'
    BY <1>1 DEF RowInv, Remembered, Honoured, Satisfied, Live, Canary
  <2> QED BY <1>3, <2>5, <2>6 DEF RowInv
<1> QED BY <1>4, <1>5

\* Every step that an invocation takes keeps its own rows in order.
LEMMA OwnRows ==
  ASSUME TypeOK, NEW r \in Run, RowInv(r), Acquire(r) \/ Proceed(r) \/ Crash(r)
  PROVE  RowInv(r)'
<1>1. CASE Acquire(r)
  <2>1. pc'[r] = "insert" /\ UNCHANGED <<idx, state, runRow, row>> /\ pc[r] = "idle"
    BY <1>1 DEF Acquire, At, Goto, TypeOK
  <2>2. idx[r] = 1 /\ runRow[r] # "SUCCEEDED" /\ row[r][1] = "NONE"
    BY <2>1 DEF RowInv, Place, Walking
  <2>3. \A u \in U : state[r][u] = "" /\ row[r][u] = "NONE"
    <3>1. \A u \in U : u = 1 \/ u > 1
      BY UnitOrder
    <3>2. \A u \in U : row[r][u] = "NONE" /\ (state[r][u] # "" <=> u < idx[r])
      BY <2>1, <2>2, <3>1 DEF RowInv, Place, Walking
    <3>3. \A u \in U : ~(u < idx[r])
      BY <2>2, UnitOrder
    <3> QED BY <3>2, <3>3
  <2>4. Place(r)'
    BY <2>1, <2>2 DEF RowInv, Place, Walking
  <2> QED BY <2>1, <2>2, <2>3, <2>4 DEF RowInv, Remembered, Honoured, Honest, Ran
<1>2. CASE InsertRun(r)
  <2>1. pc[r] = "insert" /\ pc'[r] \in {"heartbeat", "fail"} /\ UNCHANGED <<plan, idx, state, row>>
        /\ runRow'[r] # "SUCCEEDED"
    BY <1>2 DEF InsertRun, At, Goto, TypeOK, RowInv, Place
  <2>2. Place(r)'
    BY <2>1 DEF RowInv, Place, Walking
  <2> QED BY <2>1, <2>2, MoveFrame
<1>3. CASE Heartbeat(r)
  <2>1. pc[r] = "heartbeat" /\ pc'[r] \in {"decide", "fail"} /\ UNCHANGED <<plan, idx, state, row, runRow>>
    BY <1>3 DEF Heartbeat, At, Goto, TypeOK
  <2>2. Place(r)'
    BY <2>1 DEF RowInv, Place, Walking
  <2> QED BY <2>1, <2>2, MoveFrame
<1>4. CASE SkipUnselected(r)
  <2>1. Live(r)
    BY <1>4, CanaryIsLive DEF SkipUnselected, Unselected
  <2> QED BY <1>4, <2>1, SettleRows DEF SkipUnselected, At, StepStatus, State, Ran
<1>5. CASE SkipDisabled(r)
  BY <1>5, SettleRows DEF SkipDisabled, Disabled, At, StepStatus, State, Ran
<1>6. CASE Block(r)
  BY <1>6, SettleRows DEF Block, At, StepStatus, State, Ran
<1>7. CASE StartUnit(r)
  BY <1>7, StartRows
<1>8. CASE FinishSkipped(r)
  BY <1>8, SettleRows DEF FinishSkipped, ShadowSkips, At, StepStatus, State, Ran
<1>9. CASE FinishUnit(r)
  <2>1. pc[r] = "unit" /\ ~ShadowSkips(r)
    BY <1>9 DEF FinishUnit, At
  <2>2. ~Canary(r) => \A d \in Deps(idx[r]) : Satisfied(r, d)
    BY <2>1, UnitHonoured
  <2>3. CASE Settle(r, "SUCCEEDED", "SUCCEEDED")
    BY <2>1, <2>2, <2>3, SettleRows DEF ShadowSkips, StepStatus, State
  <2>4. CASE Settle(r, "FAILED", "FAILED")
    BY <2>1, <2>2, <2>4, SettleRows DEF StepStatus, State
  <2> QED BY <1>9, <2>3, <2>4 DEF FinishUnit
<1>10. CASE StepThrows(r)
  <2>1. pc[r] \in {"decide", "unit"} /\ pc'[r] = "fail" /\ UNCHANGED <<plan, idx, state, row, runRow>>
    BY <1>10 DEF StepThrows, Goto, TypeOK
  <2>2. Place(r)'
    BY <2>1 DEF RowInv, Place, Walking
  <2> QED BY <2>1, <2>2, MoveFrame
<1>11. CASE FinishRun(r)
  BY <1>11, FinishRows
<1>12. CASE FailRun(r)
  <2>1. pc[r] = "fail" /\ pc'[r] = "release" /\ UNCHANGED <<plan, idx, state, row>>
    BY <1>12 DEF FailRun, At, Goto, TypeOK
  <2>2. runRow'[r] = "SUCCEEDED" => runRow[r] = "SUCCEEDED"
    BY <1>12 DEF FailRun, TypeOK
  <2>3. Place(r)'
    BY <2>1 DEF Place, Walking
  <2> QED BY <2>1, <2>2, <2>3, MoveFrame
<1>13. CASE ReleaseLease(r) \/ Crash(r)
  BY <1>13, EndRows DEF ReleaseLease, Crash
<1> QED BY <1>1, <1>2, <1>3, <1>4, <1>5, <1>6, <1>7, <1>8, <1>9, <1>10, <1>11, <1>12, <1>13
        DEF Proceed

\* and everybody else's.
LEMMA OthersUntouched ==
  ASSUME TypeOK, NEW r \in Run, NEW q \in Run, q # r, Acquire(r) \/ Proceed(r) \/ Crash(r)
  PROVE  /\ pc'[q] = pc[q] /\ plan'[q] = plan[q] /\ idx'[q] = idx[q]
         /\ state'[q] = state[q] /\ runRow'[q] = runRow[q] /\ row'[q] = row[q]
<1>1. ASSUME NEW s \in StepStatus, NEW st \in State, Settle(r, s, st)
      PROVE  /\ pc'[q] = pc[q] /\ plan'[q] = plan[q] /\ idx'[q] = idx[q]
             /\ state'[q] = state[q] /\ runRow'[q] = runRow[q] /\ row'[q] = row[q]
  BY <1>1 DEF Settle, Store, Advance, Goto, TypeOK
<1>2. CASE Acquire(r)
  BY <1>2 DEF Acquire, Goto, TypeOK
<1>3. CASE InsertRun(r) \/ Heartbeat(r)
  BY <1>3 DEF InsertRun, Heartbeat, Goto, TypeOK
<1>4. CASE SkipUnselected(r) \/ SkipDisabled(r) \/ Block(r) \/ FinishSkipped(r) \/ FinishUnit(r)
  BY <1>1, <1>4
     DEF SkipUnselected, SkipDisabled, Block, FinishSkipped, FinishUnit, StepStatus, State
<1>5. CASE StartUnit(r) \/ StepThrows(r)
  BY <1>5 DEF StartUnit, StepThrows, Store, Goto, TypeOK
<1>6. CASE FinishRun(r) \/ FailRun(r)
  BY <1>6 DEF FinishRun, FailRun, Goto, TypeOK
<1>7. CASE ReleaseLease(r) \/ Crash(r)
  BY <1>7 DEF ReleaseLease, Crash, End, Goto, TypeOK
<1> QED BY <1>2, <1>3, <1>4, <1>5, <1>6, <1>7 DEF Proceed

RowsInv == \A r \in Run : RowInv(r)

LEMMA StepRows == TypeOK /\ RowsInv /\ [Next]_vars => RowsInv'
<1> SUFFICES ASSUME TypeOK, \A r \in Run : RowInv(r), [Next]_vars, NEW q \in Run
             PROVE  RowInv(q)'
  BY DEF RowsInv
<1>1. ASSUME NEW r \in Run, Acquire(r) \/ Proceed(r) \/ Crash(r) PROVE RowInv(q)'
  <2>1. CASE q = r
    BY <1>1, <2>1, OwnRows
  <2>2. CASE q # r
    BY <1>1, <2>2, OthersUntouched, RowFrame
  <2> QED BY <2>1, <2>2
<1>2. CASE UNCHANGED <<memvars, runRow, row>>
  BY <1>2, RowFrame DEF memvars
<1>3. ASSUME NEW r \in Run, AcquireLost(r) PROVE UNCHANGED <<memvars, runRow, row>>
  BY <1>3 DEF AcquireLost
<1>4. Tick \/ UNCHANGED vars => UNCHANGED <<memvars, runRow, row>>
  BY DEF Tick, vars
<1> QED BY <1>1, <1>2, <1>3, <1>4 DEF Next, Refused

LEMMA InitRows == Init => RowsInv
BY FreshRows DEF Init, RowsInv

\* No unit runs, outside a canary, before the rows of all the units it depends
\* on are satisfied.
THEOREM DependenciesCorrect == Spec => []DependenciesHonoured
<1>1. RowsInv => DependenciesHonoured
  BY DEF RowsInv, RowInv, Honoured, Ran, DependenciesHonoured
<1> QED BY <1>1, InitType, StepType, InitRows, StepRows, PTL DEF Spec

\* A run recorded as SUCCEEDED has nothing failed, blocked or unfinished, and a
\* shadow one the step rows its acceptance demands.
THEOREM StatusCorrect == Spec => []RunStatusHonest
<1>1. RowsInv => RunStatusHonest
  BY DEF RowsInv, RowInv, Honest, RunStatusHonest
<1> QED BY <1>1, InitType, StepType, InitRows, StepRows, PTL DEF Spec

\* The step rows and the run row of an invocation never disagree.
THEOREM RowsCorrect == Spec => []RowsHonest
<1>1. DependenciesHonoured /\ RunStatusHonest => RowsHonest
  BY DEF RowsHonest
<1> QED BY <1>1, DependenciesCorrect, StatusCorrect, PTL
=============================================================================
