--------------------------- MODULE Handovers_proofs ---------------------------
(***************************************************************************)
(* Proofs about the two registries of Handovers, for any number of         *)
(* schedulers' invocations, versions, transitions, lost and late calls.    *)
(*                                                                         *)
(* SchedulerOwnership: whoever is inside and not marked stale came in      *)
(* under the owner that still stands; and an invocation inside is at least *)
(* as old as the time the trigger is off, hence as the evidence of any row *)
(* that does not belong to the Worker.                                     *)
(*                                                                         *)
(* RuntimeOwnership, who operates: a begin of a rollback looks at          *)
(* in_flight_count and at no lease, so the argument is about the count: as *)
(* long as no reaping raced it is the number of leases, which all name the *)
(* active version, and a component that is not active has none.  What the  *)
(* scripts ask, in which order, and what arrives late does not matter:     *)
(* each transaction keeps this by its own guards.                          *)
(*                                                                         *)
(* RuntimeOwnership, where the traffic goes: here the order does matter.   *)
(* A call given up may arrive in any later activation or rollback, so the  *)
(* invariant says what such a call can still do to the row: which version  *)
(* it can lead to, and which it cannot any more.                           *)
(***************************************************************************)
EXTENDS Handovers, TLAPS, FiniteSetTheorems

-----------------------------------------------------------------------------
(* The schedulers *)

Working(w) == pc[w] # "out"
WorkersRow == row.owner \in {"absent", "cloudflare_worker"}

\* Admissions that still hold are by the present owner.
FreshInv ==
  /\ \A w \in Legacy : Working(w) /\ w \notin stale => WorkersRow
  /\ vps # "out" /\ VPS \notin stale => row.owner = "vps_order_orchestrator"

\* An invocation at work is older than the silence of the trigger and than the
\* evidence of a row that shuts it out.
AgeInv ==
  /\ cron => quiet = 0
  /\ \A w \in Legacy : Working(w) => since[w] >= quiet
  /\ ~WorkersRow => \A w \in Legacy : Working(w) => since[w] >= row.obs
  /\ verified => ~WorkersRow
  /\ verified => \A w \in Legacy : Working(w) => since[w] >= Drain

LEMMA AgesAreNumbers ==
  ASSUME NEW age \in 0..Day
  PROVE  /\ Older(age) \in 0..Day /\ Older(age) >= age
         /\ \A b \in 0..Day : age >= b => Older(age) >= Older(b)
         /\ 0 \in 0..Day
BY TimeAssumption DEF Older

-----------------------------------------------------------------------------
LEMMA InitType == Init => TypeOK
<1> SUFFICES ASSUME Init PROVE TypeOK
  OBVIOUS
<1>1. /\ 0 \in 0..Day /\ Day \in 0..Day /\ 0 \in 0..Life
  BY TimeAssumption
<1> QED BY <1>1 DEF Init, TypeOK, PC, KillSwitch

LEMMA RecordType ==
  ASSUME TypeOK, NEW owner \in Owner, NEW switch \in KillSwitch, NEW off \in BOOLEAN,
         NEW obs \in 0..(Day - 1), NEW exp \in 1..Life, Record(owner, switch, off, obs, exp)
  PROVE  TypeOK'
<1>1. obs \in 0..Day /\ exp \in 0..Life
  BY TimeAssumption
<1>2. row' \in [owner : Owner \cup {"absent"}, switch : KillSwitch, off : BOOLEAN,
                obs : 0..Day, exp : 0..Life]
  BY <1>1 DEF Record
<1>3. verified' \in BOOLEAN
  BY DEF Record, TypeOK
<1>4. stale' \subseteq Legacy \cup {VPS}
  BY DEF Record, TypeOK
<1> QED BY <1>2, <1>3, <1>4 DEF Record, TypeOK, runs

LEMMA TickType == TypeOK /\ Tick => TypeOK'
<1> SUFFICES ASSUME TypeOK, Tick PROVE TypeOK'
  OBVIOUS
<1>1. /\ row.obs \in 0..Day /\ row.exp \in 0..Life /\ quiet \in 0..Day
      /\ vstart \in 0..Day /\ audit \in 0..Day
      /\ \A w \in Legacy : since[w] \in 0..Day /\ start[w] \in 0..Day
  BY DEF TypeOK
<1>2. \A age \in 0..Day : Older(age) \in 0..Day /\ 0 \in 0..Day
  BY AgesAreNumbers
<1>3. (IF row.exp > 0 THEN row.exp - 1 ELSE 0) \in 0..Life
  BY <1>1, TimeAssumption
<1>4. (IF row.owner = "absent" THEN 0 ELSE Older(row.obs)) \in 0..Day
  BY <1>1, <1>2
<1>5. row' \in [owner : Owner \cup {"absent"}, switch : KillSwitch, off : BOOLEAN,
                obs : 0..Day, exp : 0..Life]
  BY <1>3, <1>4 DEF Tick, TypeOK
<1>6. since' \in [Legacy -> 0..Day] /\ start' \in [Legacy -> 0..Day]
  BY <1>1, <1>2 DEF Tick
<1>7. quiet' \in 0..Day /\ vstart' \in 0..Day /\ audit' \in 0..Day
  BY <1>1, <1>2 DEF Tick
<1> QED BY <1>5, <1>6, <1>7 DEF Tick, TypeOK

LEMMA StepType == TypeOK /\ [Next]_vars => TypeOK'
<1> SUFFICES ASSUME TypeOK, [Next]_vars PROVE TypeOK'
  OBVIOUS
<1> USE DEF TypeOK, PC
<1>0. 0 \in 0..Day
  BY TimeAssumption
<1>1. ASSUME NEW w \in Legacy, Admit(w) PROVE TypeOK'
  BY <1>1 DEF Admit
<1>2. ASSUME NEW w \in Legacy, StartPhase(w) PROVE TypeOK'
  BY <1>2 DEF StartPhase
<1>3. ASSUME NEW w \in Legacy, EndPhase(w) PROVE TypeOK'
  <2>1. audit' \in 0..Day
    BY <1>3 DEF EndPhase, Audited
  <2> QED BY <1>0, <1>3, <2>1 DEF EndPhase, Leave
<1>4. ASSUME NEW w \in Legacy, Die(w) PROVE TypeOK'
  BY <1>0, <1>4 DEF Die, Leave
<1>5. CASE VpsAdmit
  BY <1>5 DEF VpsAdmit
<1>6. CASE VpsStart
  BY <1>6 DEF VpsStart
<1>7. CASE VpsEnd
  <2>1. audit' \in 0..Day
    BY <1>7 DEF VpsEnd, Audited
  <2> QED BY <1>0, <1>7, <2>1 DEF VpsEnd
<1>8. CASE VpsDies
  BY <1>0, <1>8 DEF VpsDies
<1>9. CASE Trigger
  BY <1>0, <1>9 DEF Trigger, runs
<1>10. CASE Verify
  BY <1>10 DEF Verify, runs
<1>11. CASE Tick
  BY <1>11, TickType
<1>12. CASE UNCHANGED vars
  BY <1>12 DEF vars, runs
<1> QED BY <1>1, <1>2, <1>3, <1>4, <1>5, <1>6, <1>7, <1>8, <1>9, <1>10, <1>11, <1>12,
           RecordType DEF Next, Worker, Orchestrator, Operator

\* The registry, the schedulers' places and every age keep their ranges.
THEOREM TypeCorrect == Spec => []TypeOK
BY InitType, StepType, PTL DEF Spec

-----------------------------------------------------------------------------
LEMMA StepFresh == TypeOK /\ FreshInv /\ [Next]_vars => FreshInv'
<1> SUFFICES ASSUME TypeOK, FreshInv, [Next]_vars PROVE FreshInv'
  OBVIOUS
<1>0. VPS \notin Legacy
  BY LegacyAssumption
<1> USE DEF FreshInv, Working, WorkersRow
<1>1. ASSUME NEW w \in Legacy, Admit(w) PROVE FreshInv'
  BY <1>1 DEF Admit, CloudflareMay, TypeOK
<1>2. ASSUME NEW w \in Legacy, StartPhase(w) PROVE FreshInv'
  BY <1>2 DEF StartPhase, TypeOK
<1>3. ASSUME NEW w \in Legacy, EndPhase(w) PROVE FreshInv'
  BY <1>0, <1>3 DEF EndPhase, Leave, TypeOK
<1>4. ASSUME NEW w \in Legacy, Die(w) PROVE FreshInv'
  BY <1>0, <1>4 DEF Die, Leave, TypeOK
<1>5. CASE VpsAdmit
  BY <1>5 DEF VpsAdmit, VpsMay
<1>6. CASE VpsStart
  BY <1>6 DEF VpsStart
<1>7. CASE VpsEnd
  BY <1>0, <1>7 DEF VpsEnd
<1>8. CASE VpsDies
  BY <1>0, <1>8 DEF VpsDies
<1>9. CASE Trigger
  BY <1>9 DEF Trigger, runs
<1>10. CASE Verify
  BY <1>10 DEF Verify, runs
<1>11. ASSUME NEW owner \in Owner, NEW switch \in KillSwitch, NEW off \in BOOLEAN,
              NEW obs \in 0..(Day - 1), NEW exp \in 1..Life,
              Record(owner, switch, off, obs, exp)
       PROVE  FreshInv'
  BY <1>11 DEF Record, runs
<1>12. CASE Tick
  BY <1>12 DEF Tick, TypeOK
<1>13. CASE UNCHANGED vars
  BY <1>13 DEF vars, runs
<1> QED BY <1>1, <1>2, <1>3, <1>4, <1>5, <1>6, <1>7, <1>8, <1>9, <1>10, <1>11, <1>12, <1>13
        DEF Next, Worker, Orchestrator, Operator

\* Both schedulers at work on the workload: one of them was admitted under an
\* owner replaced since, for any number of invocations.
THEOREM OverlapCorrect == Spec => []OverlapNeedsStaleAdmission
<1>1. Init => FreshInv
  BY DEF Init, FreshInv, Working
<1>2. TypeOK /\ FreshInv => OverlapNeedsStaleAdmission
  BY DEF FreshInv, Working, WorkersRow, OverlapNeedsStaleAdmission
<1> QED BY <1>1, <1>2, InitType, StepType, StepFresh, PTL DEF Spec

-----------------------------------------------------------------------------
\* A step that admits nobody, keeps ages, row, cron, quiet and verified.
LEMMA AgeFrame ==
  ASSUME AgeInv, UNCHANGED <<row, cron, quiet, verified>>,
         \A w \in Legacy : Working(w)' => Working(w) /\ since'[w] = since[w]
  PROVE  AgeInv'
BY DEF AgeInv, Working, WorkersRow

LEMMA RecordAge ==
  ASSUME TypeOK, AgeInv, NEW owner \in Owner, NEW switch \in KillSwitch, NEW off \in BOOLEAN,
         NEW obs \in 0..(Day - 1), NEW exp \in 1..Life, Record(owner, switch, off, obs, exp)
  PROVE  AgeInv'
<1>1. UNCHANGED <<pc, since, cron, quiet>> /\ row'.owner = owner /\ row'.obs = obs
  BY DEF Record, runs
<1>2. \A w \in Legacy : Working(w) => since[w] >= obs
  <2> SUFFICES ASSUME NEW w \in Legacy, Working(w) PROVE since[w] >= obs
    OBVIOUS
  <2>1. since[w] \in 0..Day /\ quiet \in 0..Day /\ obs \in 0..(Day - 1)
    BY DEF TypeOK
  <2>2. since[w] >= quiet /\ obs <= quiet
    BY DEF AgeInv, Record
  <2> QED BY <2>1, <2>2, TimeAssumption
<1>3. verified' => verified /\ owner # "cloudflare_worker"
  BY DEF Record, TypeOK
<1>4. verified' => ~WorkersRow'
  BY <1>1, <1>3 DEF WorkersRow, Owner
<1> QED BY <1>1, <1>2, <1>3, <1>4 DEF AgeInv, Working

LEMMA TickAge == TypeOK /\ AgeInv /\ Tick => AgeInv'
<1> SUFFICES ASSUME TypeOK, AgeInv, Tick PROVE AgeInv'
  OBVIOUS
<1>1. UNCHANGED <<pc, cron, verified>> /\ row'.owner = row.owner
  BY DEF Tick, TypeOK
<1>2. quiet \in 0..Day /\ row.obs \in 0..Day /\ \A w \in Legacy : since[w] \in 0..Day
  BY DEF TypeOK
<1>3. \A w \in Legacy : Working(w) => since'[w] = Older(since[w])
  BY DEF Tick, Working
<1>4. ~WorkersRow => row'.obs = Older(row.obs)
  BY DEF Tick, TypeOK, WorkersRow
<1>5. quiet' = IF cron THEN 0 ELSE Older(quiet)
  BY DEF Tick
<1>6. ASSUME NEW w \in Legacy, Working(w)
      PROVE  /\ since'[w] >= quiet'
             /\ ~WorkersRow => since'[w] >= row'.obs
             /\ verified => since'[w] >= Drain
  <2>1. /\ since[w] >= quiet
        /\ ~WorkersRow => since[w] >= row.obs
        /\ verified => since[w] >= Drain
    BY <1>6 DEF AgeInv
  <2>2. Older(since[w]) \in 0..Day /\ Older(since[w]) >= since[w]
    BY <1>2, AgesAreNumbers
  <2>3. Older(since[w]) >= Older(quiet)
    BY <1>2, <2>1, AgesAreNumbers
  <2>4. ~WorkersRow => Older(since[w]) >= Older(row.obs)
    BY <1>2, <2>1, AgesAreNumbers
  <2>5. since'[w] = Older(since[w])
    BY <1>3, <1>6
  <2>6. since'[w] >= quiet'
    BY <1>5, <2>2, <2>3, <2>5, TimeAssumption
  <2>7. verified => since'[w] >= Drain
    BY <1>2, <2>1, <2>2, <2>5, TimeAssumption
  <2> QED BY <1>4, <2>4, <2>5, <2>6, <2>7
<1> QED BY <1>1, <1>5, <1>6 DEF AgeInv, Working, WorkersRow

LEMMA StepAge == TypeOK /\ AgeInv /\ [Next]_vars => AgeInv'
<1> SUFFICES ASSUME TypeOK, AgeInv, [Next]_vars PROVE AgeInv'
  OBVIOUS
<1>1. ASSUME NEW w \in Legacy, Admit(w) PROVE AgeInv'
  <2>1. cron /\ WorkersRow /\ quiet = 0 /\ ~verified
    BY <1>1 DEF Admit, CloudflareMay, AgeInv, WorkersRow
  <2>2. \A v \in Legacy : since[v] >= 0
    BY DEF TypeOK
  <2> QED BY <1>1, <2>1, <2>2 DEF Admit, AgeInv, WorkersRow
<1>2. ASSUME NEW w \in Legacy, StartPhase(w) PROVE AgeInv'
  BY <1>2, AgeFrame DEF StartPhase, TypeOK, Working
<1>3. ASSUME NEW w \in Legacy, EndPhase(w) PROVE AgeInv'
  BY <1>3, AgeFrame DEF EndPhase, Leave, TypeOK, Working
<1>4. ASSUME NEW w \in Legacy, Die(w) PROVE AgeInv'
  BY <1>4, AgeFrame DEF Die, Leave, TypeOK, Working
<1>5. CASE Orchestrator
  BY <1>5, AgeFrame DEF Orchestrator, VpsAdmit, VpsStart, VpsEnd, VpsDies, Working
<1>6. CASE Trigger
  <2>1. \A v \in Legacy : since[v] >= 0
    BY DEF TypeOK
  <2> QED BY <1>6, <2>1 DEF Trigger, runs, AgeInv, Working, WorkersRow
<1>7. CASE Verify
  <2>1. ~WorkersRow /\ row.obs >= Drain
    BY <1>7 DEF Verify, Quiescent, WorkersRow
  <2>2. row.obs \in Nat /\ \A w \in Legacy : since[w] \in Nat
    BY TimeAssumption DEF TypeOK
  <2>3. \A w \in Legacy : Working(w) => since[w] >= Drain
    BY <2>1, <2>2, TimeAssumption DEF AgeInv
  <2> QED BY <1>7, <2>1, <2>3 DEF Verify, runs, AgeInv, Working, WorkersRow
<1>8. CASE Tick
  BY <1>8, TickAge
<1>9. CASE UNCHANGED vars
  BY <1>9, AgeFrame DEF vars, runs, Working
<1> QED BY <1>1, <1>2, <1>3, <1>4, <1>5, <1>6, <1>7, <1>8, <1>9, RecordAge
        DEF Next, Worker, Operator

\* After the verifier passed, an invocation still at work was admitted at least
\* a drain interval ago, whatever records and triggers follow.
THEOREM DrainCorrect == Spec => []VerifiedMeansDrained
<1>1. Init => AgeInv
  BY DEF Init, AgeInv, Working, WorkersRow
<1>2. AgeInv => VerifiedMeansDrained
  BY DEF AgeInv, Working, VerifiedMeansDrained
<1> QED BY <1>1, <1>2, InitType, StepType, StepAge, PTL DEF Spec

-----------------------------------------------------------------------------
(* Who may operate *)

OwnRow == [state : State, active : Version, gen : Null, prev : Null, pend : Null,
           nonce : Nat, count : Nat]

\* A call names versions, and a begin names the state it leads to.
Queries ==
  {q \in [rpc : {"prepare", "begin", "finish", "abort", "cancel", "restore"}, as : {"none"} \cup Transition,
          gen : Null, from : Version, to : Version, nonce : Nat] :
     q.rpc = "begin" => q.as \in Transition}

\* What the scripts, the calls on their way and the reaping work on.
Typed ==
  /\ own \in OwnRow
  /\ lease \in [Invocation -> Null] /\ works \in [Invocation -> BOOLEAN]
  /\ dep \in [pc : Pc, from : Version, to : Version, gen : Null, nonce : Nat]
  /\ late \subseteq Queries
  /\ traffic \in Version
  /\ \/ accepted = NoManifest
     \/ accepted \in [cur : Version, prev : Version]

\* Whoever works holds a lease, and the lease being reaped is nobody's.
HoldsLease ==
  /\ \A i \in Invocation : works[i] => lease[i] # NoVersion
  /\ \A i \in reap.of : i \in Invocation /\ lease[i] # NoVersion /\ ~works[i]
  /\ reap.count \in Nat

\* What the row says of the leases.
Agrees(o) ==
  /\ o.count = Cardinality(Leased)
  /\ o.state # "active" => Leased = {}
  /\ \A i \in Leased : lease[i] = o.active

LeaseInv == Typed /\ HoldsLease /\ (~raced => Agrees(own))

-----------------------------------------------------------------------------
\* A set of leases is finite, and counts as empty only when it is.
LEMMA LeasesFinite ==
  /\ IsFiniteSet(Leased) /\ Cardinality(Leased) \in Nat
  /\ Cardinality(Leased) = 0 <=> Leased = {}
<1>1. IsFiniteSet(Leased)
  BY RuntimeAssumption, FS_Subset DEF Leased
<1>2. QED
  BY <1>1, FS_CardinalityType, FS_EmptySet

\* Every transaction of the deployer leaves a typed row, and one that agrees
\* with the leases if it did before.
LEMMA EffectAgrees ==
  ASSUME Typed, NEW q \in Queries, NEW o \in Effect(q)
  PROVE  o \in OwnRow /\ (Agrees(own) => Agrees(o))
<1> USE RuntimeAssumption
<1>0. own \in OwnRow
  BY DEF Typed
<1>1. CASE q.rpc = "prepare"
  <2>1. o \in Prepared(q)
    BY <1>1 DEF Effect
  <2>2. Leased = {} /\ o = [own EXCEPT !.prev = own.gen, !.gen = q.to,
                                       !.state = "quiesced", !.count = 0]
    BY <2>1 DEF Prepared, If
  <2>3. QED
    BY <2>2, <1>0, LeasesFinite DEF Agrees, OwnRow, Queries, State, Null
<1>2. CASE q.rpc = "begin"
  <2>1. o \in Begun(q)
    BY <1>2 DEF Effect
  <2>2. own.count = 0 /\ o = [own EXCEPT !.state = q.as, !.pend = q.to, !.nonce = q.nonce]
    BY <2>1 DEF Begun, If
  <2>3. q.as \in Transition
    BY <1>2 DEF Queries
  <2>4. QED
    BY <2>2, <2>3, <1>0, LeasesFinite DEF Agrees, OwnRow, Queries, State, Transition, Null
<1>3. CASE q.rpc = "finish"
  <2>1. o \in Finished(q)
    BY <1>3 DEF Effect
  <2>2. own.state \in Transition /\ o = Settled(own, q.to)
    BY <2>1 DEF Finished, If
  <2>3. QED
    BY <2>2, <1>0 DEF Agrees, Settled, OwnRow, Queries, State, Transition, Null
<1>4. CASE q.rpc = "abort"
  <2>1. o \in Aborted(q)
    BY <1>4 DEF Effect
  <2>2. /\ own.state \in Transition
        /\ o = [own EXCEPT !.gen = IF own.state = "activating" /\ own.prev # NoVersion
                                   THEN own.prev ELSE own.gen,
                           !.state = "active", !.pend = NoVersion, !.nonce = 0]
    BY <2>1 DEF Aborted, If
  <2>3. QED
    BY <2>2, <1>0 DEF Agrees, OwnRow, State, Transition, Null
<1>5. CASE q.rpc = "cancel"
  <2>1. o \in Cancelled(q)
    BY <1>5 DEF Effect
  <2>2. o = [own EXCEPT !.gen = own.prev, !.state = "active", !.prev = NoVersion]
        /\ own.state = "quiesced"
    BY <2>1 DEF Cancelled, If
  <2>3. QED
    BY <2>2, <1>0 DEF Agrees, OwnRow, State, Null
<1>6. CASE q.rpc = "restore"
  <2>1. o \in Restored(q)
    BY <1>6 DEF Effect
  <2>2. Leased = {} /\ o = [Settled(own, q.to) EXCEPT !.gen = q.gen, !.prev = NoVersion]
    BY <2>1 DEF Restored, If
  <2>3. QED
    BY <2>2, <1>0 DEF Agrees, Settled, OwnRow, Queries, State, Null
<1>7. QED
  BY <1>1, <1>2, <1>3, <1>4, <1>5, <1>6 DEF Queries

\* A step that leaves the workers alone keeps what is said of them.
LEMMA WorkersRest ==
  ASSUME LeaseInv, UNCHANGED workers, own' = own \/ (Agrees(own) => Agrees(own'))
  PROVE  HoldsLease' /\ (~raced' => Agrees(own)')
BY DEF LeaseInv, HoldsLease, Agrees, Leased, workers

DepType == [pc : Pc, from : Version, to : Version, gen : Null, nonce : Nat]

LEMMA CallKeeps ==
  ASSUME LeaseInv, NEW q \in Queries, NEW ok \in Pc, NEW failed \in Pc,
         Call(q, ok, failed), UNCHANGED <<workers, traffic, accepted>>
  PROVE  LeaseInv'
<1>1. Typed
  BY DEF LeaseInv
<1>2. own' = own \/ own' \in Effect(q)
  BY DEF Call
<1>3. own' \in OwnRow /\ (own' = own \/ (Agrees(own) => Agrees(own')))
  BY <1>1, <1>2, EffectAgrees DEF Typed
<1>4. HoldsLease' /\ (~raced' => Agrees(own)')
  BY <1>3, WorkersRest
<1>5. late' \subseteq Queries
  BY <1>1 DEF Call, Typed
<1>6. dep' \in [pc : Pc, from : Version, to : Version, gen : Null, nonce : Nat]
  BY <1>1 DEF Call, Typed
<1>7. QED
  BY <1>1, <1>3, <1>4, <1>5, <1>6 DEF LeaseInv, Typed, workers

\* A step of a script that touches neither the row nor the workers.
LEMMA ScriptKeeps ==
  ASSUME LeaseInv, UNCHANGED <<own, workers, late>>, traffic' \in Version,
         dep' \in DepType,
         accepted' = NoManifest \/ accepted' \in [cur : Version, prev : Version]
  PROVE  LeaseInv'
<1>1. HoldsLease' /\ (~raced' => Agrees(own)')
  BY WorkersRest
<1>2. QED
  BY <1>1 DEF LeaseInv, Typed, workers, DepType

-----------------------------------------------------------------------------
(* The leases *)

LEMMA AcquireKeeps ==
  ASSUME LeaseInv, NEW i \in Invocation, Acquire(i)
  PROVE  LeaseInv'
<1> USE RuntimeAssumption
<1>1. /\ lease[i] = NoVersion /\ own.state = "active"
      /\ own' = [own EXCEPT !.count = @ + 1]
      /\ lease' = [lease EXCEPT ![i] = own.active]
      /\ works' \in {works, [works EXCEPT ![i] = TRUE]}
      /\ UNCHANGED <<dep, late, traffic, accepted, reap, raced>>
  BY DEF Acquire, quietly
<1>2. /\ own \in OwnRow /\ lease \in [Invocation -> Null] /\ works \in [Invocation -> BOOLEAN]
      /\ own.active \in Version /\ own.active # NoVersion
  BY DEF LeaseInv, Typed, OwnRow
<1>3. own' \in OwnRow /\ lease' \in [Invocation -> Null] /\ works' \in [Invocation -> BOOLEAN]
  <2>1. own' \in OwnRow
    BY <1>1, <1>2 DEF OwnRow
  <2>2. lease' \in [Invocation -> Null]
    BY <1>1, <1>2 DEF Null
  <2>3. works' \in [Invocation -> BOOLEAN]
    BY <1>1, <1>2
  <2>4. QED
    BY <2>1, <2>2, <2>3
<1>4. HoldsLease'
  BY <1>1, <1>2 DEF LeaseInv, HoldsLease
<1>5. Leased' = Leased \cup {i} /\ i \notin Leased
  BY <1>1, <1>2 DEF Leased
<1>6. ASSUME ~raced PROVE Agrees(own)'
  <2>1. Agrees(own)
    BY <1>6 DEF LeaseInv
  <2>2. Cardinality(Leased') = Cardinality(Leased) + 1
    BY <1>5, LeasesFinite, FS_AddElement
  <2>3. own'.count = Cardinality(Leased')
    BY <2>1, <2>2, <1>1, <1>2 DEF Agrees, OwnRow
  <2>4. \A j \in Leased' : lease'[j] = own'.active
    BY <2>1, <1>1, <1>2, <1>5 DEF Agrees, OwnRow, Leased
  <2>5. own'.state = "active"
    BY <1>1, <1>2 DEF OwnRow
  <2>6. QED
    BY <2>3, <2>4, <2>5 DEF Agrees
<1>7. QED
  BY <1>1, <1>3, <1>4, <1>6 DEF LeaseInv, Typed

LEMMA ReleaseKeeps ==
  ASSUME LeaseInv, NEW i \in Invocation, Release(i)
  PROVE  LeaseInv'
<1> USE RuntimeAssumption
<1>1. /\ lease[i] # NoVersion /\ i \notin reap.of
      /\ own' = [own EXCEPT !.count = IF @ > 0 THEN @ - 1 ELSE 0]
      /\ lease' = [lease EXCEPT ![i] = NoVersion]
      /\ works' = [works EXCEPT ![i] = FALSE]
      /\ UNCHANGED <<dep, late, traffic, accepted, reap, raced>>
  BY DEF Release, quietly
<1>2. own \in OwnRow /\ lease \in [Invocation -> Null] /\ works \in [Invocation -> BOOLEAN]
  BY DEF LeaseInv, Typed
<1>3. own' \in OwnRow /\ lease' \in [Invocation -> Null] /\ works' \in [Invocation -> BOOLEAN]
  <2>1. own' \in OwnRow
    BY <1>1, <1>2 DEF OwnRow
  <2>2. lease' \in [Invocation -> Null]
    BY <1>1, <1>2 DEF Null
  <2>3. works' \in [Invocation -> BOOLEAN]
    BY <1>1, <1>2
  <2>4. QED
    BY <2>1, <2>2, <2>3
<1>4. HoldsLease'
  BY <1>1, <1>2 DEF LeaseInv, HoldsLease
<1>5. Leased' = Leased \ {i} /\ i \in Leased
  BY <1>1, <1>2 DEF Leased
<1>6. ASSUME ~raced PROVE Agrees(own)'
  <2>1. Agrees(own)
    BY <1>6 DEF LeaseInv
  <2>2. Cardinality(Leased') = Cardinality(Leased) - 1
    BY <1>5, LeasesFinite, FS_RemoveElement
  <2>3. Cardinality(Leased) > 0
    BY <1>5, LeasesFinite
  <2>4. own'.count = Cardinality(Leased')
    BY <2>1, <2>2, <2>3, <1>1, <1>2, LeasesFinite DEF Agrees, OwnRow
  <2>5. \A j \in Leased' : lease'[j] = own'.active
    BY <2>1, <1>1, <1>2, <1>5 DEF Agrees, OwnRow, Leased
  <2>6. own'.state = own.state
    BY <1>1, <1>2 DEF OwnRow
  <2>7. QED
    BY <2>1, <2>4, <2>5, <2>6, <1>5 DEF Agrees
<1>7. QED
  BY <1>1, <1>3, <1>4, <1>6 DEF LeaseInv, Typed

LEMMA AbandonKeeps ==
  ASSUME LeaseInv, NEW i \in Invocation, Abandon(i)
  PROVE  LeaseInv'
<1>1. works' = [works EXCEPT ![i] = FALSE]
      /\ UNCHANGED <<dep, late, traffic, accepted, own, lease, reap, raced>>
  BY DEF Abandon, quietly
<1>2. QED
  BY <1>1 DEF LeaseInv, Typed, HoldsLease, Agrees, Leased

LEMMA ReapReadsKeeps ==
  ASSUME LeaseInv, NEW i \in Invocation, ReapReads(i)
  PROVE  LeaseInv'
<1>1. /\ lease[i] # NoVersion /\ ~works[i]
      /\ reap' = [of |-> {i}, version |-> own.active, count |-> Cardinality(Leased \ {i})]
      /\ UNCHANGED <<dep, late, traffic, accepted, own, lease, works, raced>>
  BY DEF ReapReads, quietly
<1>2. Cardinality(Leased \ {i}) \in Nat
  BY LeasesFinite, FS_Subset, FS_CardinalityType
<1>3. QED
  BY <1>1, <1>2 DEF LeaseInv, Typed, HoldsLease, Agrees, Leased

\* The count written is the number of leases, or else the reaping raced.
LEMMA ReapWritesKeeps ==
  ASSUME LeaseInv, NEW i \in Invocation, ReapWrites(i)
  PROVE  LeaseInv'
<1> USE RuntimeAssumption
<1>1. /\ reap.of = {i} /\ reap' = NoReap
      /\ own' = own \/ own' = [own EXCEPT !.count = reap.count]
      /\ lease' = [lease EXCEPT ![i] = NoVersion]
      /\ raced' = (raced \/ own'.count # Cardinality(Leased \ {i}))
      /\ UNCHANGED <<dep, late, traffic, accepted, works>>
  BY DEF ReapWrites, quietly
<1>2. own \in OwnRow /\ lease \in [Invocation -> Null] /\ works \in [Invocation -> BOOLEAN]
  BY DEF LeaseInv, Typed
<1>3. lease[i] # NoVersion /\ ~works[i] /\ reap.count \in Nat
  BY <1>1 DEF LeaseInv, HoldsLease
<1>4. own' \in OwnRow /\ lease' \in [Invocation -> Null]
  BY <1>1, <1>2, <1>3 DEF OwnRow, Null
<1>5. HoldsLease'
  BY <1>1, <1>2, <1>3 DEF LeaseInv, HoldsLease, NoReap
<1>6. Leased' = Leased \ {i} /\ i \in Leased
  BY <1>1, <1>2, <1>3 DEF Leased
<1>7. ASSUME ~raced' PROVE Agrees(own)'
  <2>1. Agrees(own) /\ own'.count = Cardinality(Leased')
    BY <1>1, <1>6, <1>7 DEF LeaseInv
  <2>2. own'.state = "active" /\ own'.active = own.active
    BY <2>1, <1>1, <1>2, <1>6 DEF Agrees, OwnRow
  <2>3. \A j \in Leased' : lease'[j] = own'.active
    BY <2>1, <2>2, <1>1, <1>2, <1>6 DEF Agrees, Leased
  <2>4. QED
    BY <2>1, <2>2, <2>3 DEF Agrees
<1>8. QED
  BY <1>1, <1>2, <1>4, <1>5, <1>7 DEF LeaseInv, Typed

-----------------------------------------------------------------------------
(* The calls of the scripts *)

\* What a script knows.
LEMMA DepKnows ==
  ASSUME LeaseInv
  PROVE  /\ dep = [pc |-> dep.pc, from |-> dep.from, to |-> dep.to, gen |-> dep.gen,
                   nonce |-> dep.nonce]
         /\ dep.pc \in Pc /\ dep.from \in Version /\ dep.to \in Version
         /\ dep.gen \in Null /\ dep.nonce \in Nat
         /\ own.gen \in Null /\ own.prev \in Null /\ traffic \in Version
BY DEF LeaseInv, Typed, OwnRow

\* q is asked at d.pc, and given up for `failed'.
Asked(q, d, failed) ==
  /\ q.nonce = d.nonce /\ q.gen \in {d.from, d.to, d.gen}
  /\ \/ /\ d.pc = "prepare" /\ failed = "cancel"
        /\ q.rpc = "prepare" /\ q.as = "none" /\ q.from = d.from /\ q.to = d.to
     \/ /\ d.pc = "cancel" /\ failed = "idle"
        /\ q.rpc = "cancel" /\ q.as = "none" /\ q.from = d.from /\ q.to = d.to
     \/ /\ d.pc = "begin" /\ failed = "redeploy"
        /\ q.rpc = "begin" /\ q.as = "activating" /\ q.from = d.from /\ q.to = d.to
     \/ /\ d.pc = "finish" /\ failed = "redeploy"
        /\ q.rpc = "finish" /\ q.as = "none" /\ q.from = d.from /\ q.to = d.to
     \/ /\ d.pc = "restore" /\ failed = "verify" /\ q.gen = d.gen
        /\ q.rpc = "restore" /\ q.as = "none" /\ q.from = d.to /\ q.to = d.from
     \/ /\ d.pc = "back" /\ failed = "cleanup"
        /\ q.rpc = "begin" /\ q.as = "rolling_back" /\ q.from = d.from /\ q.to = d.to
     \/ /\ d.pc = "rolled" /\ failed = "cleanup"
        /\ q.rpc = "finish" /\ q.as = "rolling_back" /\ q.from = d.from /\ q.to = d.to
     \/ /\ d.pc = "abort" /\ failed = "idle"
        /\ q.rpc = "abort" /\ q.as = "rolling_back" /\ q.from = d.from /\ q.to = d.to
     \/ /\ d.pc = "again" /\ failed = "regained"
        /\ q.rpc = "begin" /\ q.as = "rolling_back" /\ q.from = d.to /\ q.to = d.from
     \/ /\ d.pc = "regained" /\ failed = "idle"
        /\ q.rpc = "finish" /\ q.as = "rolling_back" /\ q.from = d.to /\ q.to = d.from

\* ... and answered, where the script goes on differently: to `ok'.
Answered(q, d, ok) ==
  /\ q.nonce = d.nonce
  /\ \/ /\ d.pc = "prepare" /\ ok = "begin"
        /\ q.rpc = "prepare" /\ q.from = d.from /\ q.to = d.to
     \/ /\ d.pc = "begin" /\ ok = "deploy"
        /\ q.rpc = "begin" /\ q.as = "activating" /\ q.from = d.from /\ q.to = d.to
     \/ /\ d.pc = "finish" /\ ok = "manifest"
        /\ q.rpc = "finish" /\ q.from = d.from /\ q.to = d.to
     \/ /\ d.pc = "back" /\ ok = "route"
        /\ q.rpc = "begin" /\ q.as = "rolling_back" /\ q.from = d.from /\ q.to = d.to
     \/ /\ d.pc = "rolled" /\ ok = "done"
        /\ q.rpc = "finish" /\ q.from = d.from /\ q.to = d.to

\* One curl of a script.
Curl == \E q \in Queries, ok \in Pc, failed \in Pc :
  /\ Call(q, ok, failed) /\ Asked(q, dep, failed)
  /\ \/ ok = failed /\ dep.pc \notin {"finish", "rolled"}
     \/ Answered(q, dep, ok)
  /\ UNCHANGED <<workers, traffic, fresh, accepted>>

LEMMA ActivateCurls ==
  ASSUME LeaseInv, Activate \/ Restore
  PROVE  Curl \/ Switch("deploy", dep.to, "finish", "redeploy")
<1> USE DEF Pc
<1>1. CASE Ask("prepare", Query("prepare", dep.to, dep.from, dep.to), "begin", "cancel")
  <2>1. PICK q \in {Query("prepare", dep.to, dep.from, dep.to)} : Call(q, "begin", "cancel")
    BY <1>1 DEF Ask
  <2>2. q \in Queries
    BY DepKnows DEF Query, Queries, Null, Transition
  <2>3. UNCHANGED <<workers, traffic, fresh, accepted>> /\ dep.pc = "prepare"
    BY <1>1 DEF Ask
  <2>4. Asked(q, dep, "cancel") /\ Answered(q, dep, "begin")
    BY <2>3 DEF Asked, Answered, Query
  <2>5. QED
    BY <2>1, <2>2, <2>3, <2>4 DEF Curl
<1>2. CASE Ask("cancel", Query("cancel", dep.to, dep.from, dep.to), "idle", "idle")
  <2>1. PICK q \in {Query("cancel", dep.to, dep.from, dep.to)} : Call(q, "idle", "idle")
    BY <1>2 DEF Ask
  <2>2. q \in Queries
    BY DepKnows DEF Query, Queries, Null, Transition
  <2>3. UNCHANGED <<workers, traffic, fresh, accepted>> /\ dep.pc = "cancel"
    BY <1>2 DEF Ask
  <2>4. Asked(q, dep, "idle")
    BY <2>3 DEF Asked, Query
  <2>5. QED
    BY <2>1, <2>2, <2>3, <2>4 DEF Curl
<1>3. CASE Ask("begin", [Query("begin", dep.to, dep.from, dep.to) EXCEPT !.as = "activating"],
               "deploy", "redeploy")
  <2>1. PICK q \in {[Query("begin", dep.to, dep.from, dep.to) EXCEPT !.as = "activating"]} : Call(q, "deploy", "redeploy")
    BY <1>3 DEF Ask
  <2>2. q \in Queries
    BY DepKnows DEF Query, Queries, Null, Transition
  <2>3. UNCHANGED <<workers, traffic, fresh, accepted>> /\ dep.pc = "begin"
    BY <1>3 DEF Ask
  <2>4. Asked(q, dep, "redeploy") /\ Answered(q, dep, "deploy")
    BY <2>3 DEF Asked, Answered, Query
  <2>5. QED
    BY <2>1, <2>2, <2>3, <2>4 DEF Curl
<1>4. CASE Ask("finish", Query("finish", dep.to, dep.from, dep.to), "manifest", "redeploy")
  <2>1. PICK q \in {Query("finish", dep.to, dep.from, dep.to)} : Call(q, "manifest", "redeploy")
    BY <1>4 DEF Ask
  <2>2. q \in Queries
    BY DepKnows DEF Query, Queries, Null, Transition
  <2>3. UNCHANGED <<workers, traffic, fresh, accepted>> /\ dep.pc = "finish"
    BY <1>4 DEF Ask
  <2>4. Asked(q, dep, "redeploy") /\ Answered(q, dep, "manifest")
    BY <2>3 DEF Asked, Answered, Query
  <2>5. QED
    BY <2>1, <2>2, <2>3, <2>4 DEF Curl
<1>5. CASE Ask("restore", Query("restore", dep.gen, dep.to, dep.from), "verify", "verify")
  <2>1. PICK q \in {Query("restore", dep.gen, dep.to, dep.from)} : Call(q, "verify", "verify")
    BY <1>5 DEF Ask
  <2>2. q \in Queries
    BY DepKnows DEF Query, Queries, Null, Transition
  <2>3. UNCHANGED <<workers, traffic, fresh, accepted>> /\ dep.pc = "restore"
    BY <1>5 DEF Ask
  <2>4. Asked(q, dep, "verify")
    BY <2>3 DEF Asked, Query
  <2>5. QED
    BY <2>1, <2>2, <2>3, <2>4 DEF Curl
<1>6. CASE Switch("deploy", dep.to, "finish", "redeploy")
  BY <1>6
<1>7. QED
  BY <1>1, <1>2, <1>3, <1>4, <1>5, <1>6 DEF Activate, Restore

LEMMA RollbackCurls ==
  ASSUME LeaseInv, Rollback \/ Recover
  PROVE  Curl \/ Switch("route", dep.to, "rolled", "cleanup")
<1> USE DEF Pc
<1>1. CASE Ask("back", BackQuery("begin", dep.from, dep.to), "route", "cleanup")
  <2>1. PICK q \in {BackQuery("begin", dep.from, dep.to)} : Call(q, "route", "cleanup")
    BY <1>1 DEF Ask
  <2>2. q \in Queries
    BY DepKnows DEF BackQuery, Query, Queries, Null, Transition
  <2>3. UNCHANGED <<workers, traffic, fresh, accepted>> /\ dep.pc = "back"
    BY <1>1 DEF Ask
  <2>4. Asked(q, dep, "cleanup") /\ Answered(q, dep, "route")
    BY <2>3 DEF Asked, Answered, BackQuery, Query
  <2>5. QED
    BY <2>1, <2>2, <2>3, <2>4 DEF Curl
<1>2. CASE Ask("rolled", BackQuery("finish", dep.from, dep.to), "done", "cleanup")
  <2>1. PICK q \in {BackQuery("finish", dep.from, dep.to)} : Call(q, "done", "cleanup")
    BY <1>2 DEF Ask
  <2>2. q \in Queries
    BY DepKnows DEF BackQuery, Query, Queries, Null, Transition
  <2>3. UNCHANGED <<workers, traffic, fresh, accepted>> /\ dep.pc = "rolled"
    BY <1>2 DEF Ask
  <2>4. Asked(q, dep, "cleanup") /\ Answered(q, dep, "done")
    BY <2>3 DEF Asked, Answered, BackQuery, Query
  <2>5. QED
    BY <2>1, <2>2, <2>3, <2>4 DEF Curl
<1>3. CASE Ask("abort", BackQuery("abort", dep.from, dep.to), "idle", "idle")
  <2>1. PICK q \in {BackQuery("abort", dep.from, dep.to)} : Call(q, "idle", "idle")
    BY <1>3 DEF Ask
  <2>2. q \in Queries
    BY DepKnows DEF BackQuery, Query, Queries, Null, Transition
  <2>3. UNCHANGED <<workers, traffic, fresh, accepted>> /\ dep.pc = "abort"
    BY <1>3 DEF Ask
  <2>4. Asked(q, dep, "idle")
    BY <2>3 DEF Asked, BackQuery, Query
  <2>5. QED
    BY <2>1, <2>2, <2>3, <2>4 DEF Curl
<1>4. CASE Ask("again", BackQuery("begin", dep.to, dep.from), "regained", "regained")
  <2>1. PICK q \in {BackQuery("begin", dep.to, dep.from)} : Call(q, "regained", "regained")
    BY <1>4 DEF Ask
  <2>2. q \in Queries
    BY DepKnows DEF BackQuery, Query, Queries, Null, Transition
  <2>3. UNCHANGED <<workers, traffic, fresh, accepted>> /\ dep.pc = "again"
    BY <1>4 DEF Ask
  <2>4. Asked(q, dep, "regained")
    BY <2>3 DEF Asked, BackQuery, Query
  <2>5. QED
    BY <2>1, <2>2, <2>3, <2>4 DEF Curl
<1>5. CASE Ask("regained", BackQuery("finish", dep.to, dep.from), "idle", "idle")
  <2>1. PICK q \in {BackQuery("finish", dep.to, dep.from)} : Call(q, "idle", "idle")
    BY <1>5 DEF Ask
  <2>2. q \in Queries
    BY DepKnows DEF BackQuery, Query, Queries, Null, Transition
  <2>3. UNCHANGED <<workers, traffic, fresh, accepted>> /\ dep.pc = "regained"
    BY <1>5 DEF Ask
  <2>4. Asked(q, dep, "idle")
    BY <2>3 DEF Asked, BackQuery, Query
  <2>5. QED
    BY <2>1, <2>2, <2>3, <2>4 DEF Curl
<1>6. CASE Switch("route", dep.to, "rolled", "cleanup")
  BY <1>6
<1>7. QED
  BY <1>1, <1>2, <1>3, <1>4, <1>5, <1>6 DEF Rollback, Recover

-----------------------------------------------------------------------------
(* The scripts *)

LEMMA UploadKeeps ==
  ASSUME LeaseInv, NEW v \in Version, Upload(v)
  PROVE  LeaseInv'
<1>1. dep' = [pc |-> "prepare", from |-> traffic, to |-> v, gen |-> dep.gen,
              nonce |-> dep.nonce + 1]
      /\ UNCHANGED <<own, workers, late, traffic, accepted>>
  BY DEF Upload, settled
<1>2. dep' \in DepType /\ traffic' \in Version
  BY <1>1, DepKnows DEF DepType, Pc
<1>3. QED
  BY <1>1, <1>2, ScriptKeeps DEF LeaseInv, Typed

LEMMA StartRollbackKeeps ==
  ASSUME LeaseInv, StartRollback
  PROVE  LeaseInv'
<1>1. /\ accepted \in [cur : Version, prev : Version]
      /\ dep' = [pc |-> "back", from |-> accepted.cur, to |-> accepted.prev,
                 gen |-> dep.gen, nonce |-> dep.nonce + 1]
      /\ UNCHANGED <<own, workers, late, traffic, accepted>>
  BY DEF StartRollback, settled, LeaseInv, Typed
<1>2. dep' \in DepType /\ traffic' \in Version
  BY <1>1, DepKnows DEF DepType, Pc
<1>3. QED
  BY <1>1, <1>2, ScriptKeeps

LEMMA ReadsKeep ==
  ASSUME LeaseInv, Manifest \/ ReadRestored \/ VerifyRestored \/ RolledBack \/ Inspect
  PROVE  LeaseInv'
<1>1. UNCHANGED <<own, workers, late, traffic>>
  BY DEF Manifest, ReadRestored, VerifyRestored, RolledBack, Inspect, settled
<1>2. dep' \in DepType
  <2>1. CASE Manifest \/ VerifyRestored \/ RolledBack
    BY <2>1, DepKnows DEF Manifest, VerifyRestored, RolledBack, Goto, DepType, Pc
  <2>2. CASE ReadRestored
    BY <2>2, DepKnows DEF ReadRestored, DepType, Pc
  <2>3. CASE Inspect
    <3>1. \/ \E x \in Pc : dep' = [dep EXCEPT !.pc = x]
          \/ dep' = [dep EXCEPT !.pc = "again", !.nonce = dep.nonce + 1]
      BY <2>3 DEF Inspect, Pc
    <3>2. CASE \E x \in Pc : dep' = [dep EXCEPT !.pc = x]
      BY <3>2, DepKnows DEF DepType
    <3>3. CASE dep' = [dep EXCEPT !.pc = "again", !.nonce = dep.nonce + 1]
      <4>1. dep' = [pc |-> "again", from |-> dep.from, to |-> dep.to, gen |-> dep.gen,
                    nonce |-> dep.nonce + 1]
        BY <3>3, DepKnows, Zenon
      <4>2. QED
        BY <4>1, DepKnows DEF DepType, Pc
    <3>4. QED
      BY <3>1, <3>2, <3>3
  <2>4. QED
    BY <2>1, <2>2, <2>3
<1>3. accepted' = NoManifest \/ accepted' \in [cur : Version, prev : Version]
  BY DepKnows DEF Manifest, ReadRestored, VerifyRestored, RolledBack, Inspect, LeaseInv, Typed
<1>4. QED
  BY <1>1, <1>2, <1>3, DepKnows, ScriptKeeps

LEMMA KilledKeeps ==
  ASSUME LeaseInv, Killed
  PROVE  LeaseInv'
<1>1. dep' = [dep EXCEPT !.pc = "idle"] /\ UNCHANGED <<own, workers, late, traffic, accepted>>
  BY DEF Killed, Goto
<1>2. dep' \in DepType
  BY <1>1, DepKnows DEF DepType, Pc
<1>3. QED
  BY <1>1, <1>2, DepKnows, ScriptKeeps DEF LeaseInv, Typed

LEMMA SwitchesKeep ==
  ASSUME LeaseInv,
         \/ Switch("deploy", dep.to, "finish", "redeploy") \/ Redeploy
         \/ Switch("route", dep.to, "rolled", "cleanup") \/ Cleanup
  PROVE  LeaseInv'
<1>1. /\ UNCHANGED <<own, workers, late, accepted>>
      /\ traffic' \in {traffic, dep.from, dep.to}
      /\ \E x \in Pc : dep' = [dep EXCEPT !.pc = x]
  BY DEF Switch, Redeploy, Cleanup, settled, Goto, Pc
<1>2. dep' \in DepType
  BY <1>1, DepKnows DEF DepType, Pc
<1>3. QED
  BY <1>1, <1>2, DepKnows, ScriptKeeps DEF LeaseInv, Typed

LEMMA LandKeeps ==
  ASSUME LeaseInv, NEW q \in late, Land(q)
  PROVE  LeaseInv'
<1>1. q \in Queries /\ Typed
  BY DEF LeaseInv, Typed
<1>2. UNCHANGED <<workers, traffic, accepted, dep>> /\ late' \subseteq Queries
  BY <1>1 DEF Land, Typed
<1>3. own' \in OwnRow /\ (own' = own \/ (Agrees(own) => Agrees(own')))
  BY <1>1, EffectAgrees DEF Land, Typed
<1>4. HoldsLease' /\ (~raced' => Agrees(own)')
  BY <1>2, <1>3, WorkersRest
<1>5. QED
  BY <1>1, <1>2, <1>3, <1>4 DEF LeaseInv, Typed, workers

LEMMA CurlKeeps ==
  ASSUME LeaseInv, Curl
  PROVE  LeaseInv'
BY CallKeeps DEF Curl, workers

-----------------------------------------------------------------------------
LEMMA InitHolds == RInit => LeaseInv
<1> SUFFICES ASSUME RInit PROVE LeaseInv
  OBVIOUS
<1> USE RuntimeAssumption DEF RInit
<1>1. Typed
  BY DEF Typed, OwnRow, State, Null, Pc
<1>2. HoldsLease
  BY DEF HoldsLease, NoReap
<1>3. Leased = {}
  BY DEF Leased
<1>4. Agrees(own)
  BY <1>3, FS_EmptySet DEF Agrees
<1>5. QED
  BY <1>1, <1>2, <1>4 DEF LeaseInv

LEMMA StepKeeps == LeaseInv /\ [RNext]_rvars => LeaseInv'
<1> SUFFICES ASSUME LeaseInv, [RNext]_rvars PROVE LeaseInv'
  OBVIOUS
<1>1. CASE \E i \in Invocation : OnLease(i)
  BY <1>1, AcquireKeeps, ReleaseKeeps, AbandonKeeps, ReapReadsKeeps, ReapWritesKeeps
     DEF OnLease
<1>2. CASE \E v \in Version : Upload(v)
  BY <1>2, UploadKeeps
<1>3. CASE Activate \/ Redeploy \/ Restore
  BY <1>3, ActivateCurls, CurlKeeps, SwitchesKeep
<1>4. CASE Manifest \/ ReadRestored \/ VerifyRestored \/ RolledBack \/ Inspect
  BY <1>4, ReadsKeep
<1>5. CASE StartRollback
  BY <1>5, StartRollbackKeeps
<1>6. CASE Rollback \/ Cleanup \/ Recover
  BY <1>6, RollbackCurls, CurlKeeps, SwitchesKeep
<1>7. CASE Killed
  BY <1>7, KilledKeeps
<1>8. CASE \E q \in late : Land(q)
  BY <1>8, LandKeeps
<1>9. CASE UNCHANGED rvars
  BY <1>9 DEF rvars, LeaseInv, Typed, HoldsLease, Agrees, Leased
<1>10. QED
  BY <1>1, <1>2, <1>3, <1>4, <1>5, <1>6, <1>7, <1>8, <1>9 DEF RNext

\* Two versions hold work at once only after a reaping that raced: for any
\* versions, invocations, scripts and lost or late calls
\* (acquire_, begin_ and reap_ of platform_runtime_ownership.sql).
THEOREM OneVersionWorks == RSpec => []OverlapNeedsRacedReap
<1>1. LeaseInv => OverlapNeedsRacedReap
  BY DEF LeaseInv, HoldsLease, Agrees, Leased, OverlapNeedsRacedReap
<1>2. QED
  BY <1>1, InitHolds, StepKeeps, PTL DEF RSpec

-----------------------------------------------------------------------------
(* Where the traffic goes.                                                 *)
(*                                                                         *)
(* Each predicate speaks of a row o, the calls L that may still arrive,    *)
(* the script d, traffic t, the manifest a, the fresh versions f and b,    *)
(* whether the row was moved blindly: a call that is given up and then     *)
(* takes effect is two such steps.                                         *)

ActPcs == {"begin", "deploy", "finish", "redeploy", "read", "restore", "verify"}
ActivationPcs == ActPcs \cup {"prepare", "cancel"}
RollPcs == {"back", "route", "rolled", "done", "cleanup", "inspect", "abort", "again", "regained"}

\* Where no begin and no finish of the transition has been given up yet
Unsaid == {"prepare", "cancel", "begin", "deploy", "finish", "back", "route", "rolled", "again"}

\* Where the script knows the traffic to go to the version it comes from
AtFrom == {"prepare", "cancel", "begin", "deploy", "read", "restore", "verify", "back",
           "inspect", "abort", "again", "regained"}

Same(d2, d) == d2.from = d.from /\ d2.to = d.to /\ d2.gen = d.gen /\ d2.nonce = d.nonce

Shapes(o, L, d, t, a, f) ==
  /\ o \in OwnRow /\ L \subseteq Queries /\ d \in DepType /\ t \in Version
  /\ a = NoManifest \/ a \in [cur : Version, prev : Version]
  /\ f \subseteq Version

\* The generation is the active version's, until a prepare keeps it as prev.
RowInv(o) ==
  /\ o.state \in Transition <=> o.pend # NoVersion
  /\ o.state \in {"active", "rolling_back"} => o.gen = o.active
  /\ o.state \in {"quiesced", "activating"} => o.prev = o.active

\* A fresh version is in nobody's hands.
FreshOnes(L, d, t, a, f) ==
  /\ t \notin f /\ d.from \notin f /\ d.to \notin f /\ a.cur \notin f /\ a.prev \notin f
  /\ \A q \in L : q.from \notin f /\ q.to \notin f

NonceInv(L, d) ==
  /\ \A q \in L : q.nonce <= d.nonce
  /\ d.pc \in Unsaid => \A q \in L : q.nonce = d.nonce => q.rpc \notin {"begin", "finish"}
  /\ d.pc # "idle" => \A q \in L : q.rpc = "abort" => q.nonce # d.nonce

\* The version being activated is in no call but those of its activation.
NewInv(L, d, a) == d.pc \in ActivationPcs =>
  /\ a.cur # d.to /\ a.prev # d.to
  /\ \A q \in L :
       /\ q.rpc = "restore" => q.to # d.to
       /\ q.rpc # "restore" => q.from # d.to
       /\ q.as = "rolling_back" => q.to # d.to
       /\ q.rpc = "restore" /\ q.from = d.to =>
            q.to = d.from /\ d.pc \in {"redeploy", "read", "restore", "verify"}
       /\ q.rpc = "begin" /\ q.nonce = d.nonce =>
            q.as = "activating" /\ q.from = d.from /\ q.to = d.to

\* A version whose activation was given up for good: a restore from it may
\* arrive, and no call and no manifest leads back to it.
Dead(q, d) == q.rpc = "restore" /\ ~(d.pc \in ActPcs /\ d.to = q.from)
LeadsTo(q, o, v) ==
  /\ q.to = v
  /\ \/ q.rpc = "restore"
     \/ q.rpc = "finish" /\ q.as = "rolling_back"
     \/ q.rpc = "finish" /\ o.state \in Transition /\ o.nonce = q.nonce
RetiredInv(o, L, d, a) == \A q \in L : Dead(q, d) =>
  /\ o.active # q.from /\ a.cur # q.from /\ a.prev # q.from
  /\ \A p \in L : ~LeadsTo(p, o, q.from)
  /\ d.pc \in ActPcs => d.from # q.from
  /\ d.pc \in RollPcs \cup {"manifest"} => d.from # q.from /\ d.to # q.from

\* Versions are ordered by their uploads.  A call given up whose begin and
\* finish may both arrive leads to a newer version, so during an activation
\* the row is at one of its two versions or has gone astray to a newer one.
Ordered(rank, o, L, d, a, f) ==
  /\ \A v \in Version \ f : rank[v] <= d.nonce
  /\ a # NoManifest => rank[a.prev] < rank[a.cur]
  /\ d.pc \in RollPcs => rank[d.to] < rank[d.from]
  /\ d.pc \in ActivationPcs \cup {"manifest"} => rank[d.from] < rank[d.to]
  /\ \A p, q \in L : p.rpc = "begin" /\ q.rpc = "finish" /\ p.nonce = q.nonce =>
       q.as = "rolling_back" /\ rank[p.from] < rank[p.to]
  /\ d.pc = "regained" =>
       \A p \in L : p.rpc = "begin" /\ p.nonce = d.nonce => rank[p.from] < rank[p.to]

OwnBegin(o, d) ==
  /\ o.nonce = d.nonce /\ o.state = "activating" /\ o.pend = d.to /\ o.active = d.from
AlienBegin(rank, o, L, d) ==
  /\ o.nonce # d.nonce /\ o.active # d.to
  /\ \A q \in L : q.rpc = "finish" /\ q.nonce = o.nonce =>
       q.as = "rolling_back" /\ rank[o.active] < rank[o.pend]
Astray(rank, o, L, d) == d.pc \in ActPcs =>
  /\ o.active \notin {d.from, d.to} => rank[d.from] < rank[o.active]
  /\ o.state \in Transition => OwnBegin(o, d) \/ AlienBegin(rank, o, L, d)

\* What a restore goes back to.
RestoreInv(o, L, d) ==
  /\ d.pc \in ActPcs => /\ o.active = d.from => o.prev \in {NoVersion, d.from}
                        /\ o.active = d.to => o.prev = d.from
  /\ d.pc = "restore" /\ o.active \in {d.from, d.to} => d.gen = d.from
  /\ \A q \in L : q.rpc = "restore" =>
       \/ q.gen = q.to
       \/ /\ d.pc \in ActPcs /\ d.to = q.from /\ d.from = q.to
          /\ o.active \notin {q.from, q.to}

PlaceInv(d, t) ==
  /\ d.pc \in AtFrom => t = d.from
  /\ d.pc \in {"finish", "rolled"} => t = d.to

Sighted(o, L, d, t) ==
  /\ t \in {o.active, o.pend}
  /\ d.pc \in ActPcs \cup {"rolled"} => o.active = d.from
  /\ d.pc = "deploy" => o.pend = d.to /\ o.nonce = d.nonce
  /\ d.pc = "route" => o.active = d.from /\ o.pend = d.to /\ o.nonce = d.nonce
  /\ d.pc = "cleanup" => t = d.from \/ o.active = d.from
  /\ \A q \in L : q.rpc = "abort" /\ o.state \in Transition /\ o.nonce = q.nonce
                    /\ o.active = q.from => t = q.from

Held(rank, o, L, b, d, t, a, f) ==
  /\ Shapes(o, L, d, t, a, f) /\ RowInv(o) /\ FreshOnes(L, d, t, a, f)
  /\ NonceInv(L, d) /\ NewInv(L, d, a) /\ RetiredInv(o, L, d, a)
  /\ Ordered(rank, o, L, d, a, f) /\ Astray(rank, o, L, d)
  /\ RestoreInv(o, L, d) /\ PlaceInv(d, t)
  /\ ~b => Sighted(o, L, d, t)

Ranks == [Version -> Nat]
TransInv == \E rank \in Ranks : Held(rank, own, late, blind, dep, traffic, accepted, fresh)

\* What a transaction that accepts does to the row, field by field.
Moves(o, q, r) ==
  \/ /\ q.rpc = "prepare" /\ o.active = q.from /\ o.state = "active"
     /\ r.state = "quiesced" /\ r.active = o.active /\ r.gen = q.to /\ r.prev = o.gen
     /\ r.pend = o.pend /\ r.nonce = o.nonce
  \/ /\ q.rpc = "begin" /\ o.gen = q.gen /\ o.active = q.from
     /\ o.state = (IF q.as = "activating" THEN "quiesced" ELSE "active")
     /\ r.state = q.as /\ r.active = o.active /\ r.gen = o.gen /\ r.prev = o.prev
     /\ r.pend = q.to /\ r.nonce = q.nonce
  \/ /\ q.rpc = "finish" /\ o.pend = q.to /\ o.nonce = q.nonce /\ o.state \in Transition
     /\ r.state = "active" /\ r.active = q.to /\ r.gen = q.to /\ r.prev = o.prev
     /\ r.pend = NoVersion /\ r.nonce = 0
  \/ /\ q.rpc = "abort" /\ o.active = q.from /\ o.nonce = q.nonce /\ o.state \in Transition
     /\ r.gen = (IF o.state = "activating" /\ o.prev # NoVersion THEN o.prev ELSE o.gen)
     /\ r.state = "active" /\ r.active = o.active /\ r.prev = o.prev
     /\ r.pend = NoVersion /\ r.nonce = 0
  \/ /\ q.rpc = "cancel" /\ o.state = "quiesced" /\ o.prev # NoVersion
     /\ r.state = "active" /\ r.active = o.active /\ r.gen = o.prev /\ r.prev = NoVersion
     /\ r.pend = o.pend /\ r.nonce = o.nonce
  \/ /\ q.rpc = "restore" /\ o.active \in {q.from, q.to}
     /\ r.state = "active" /\ r.active = q.to /\ r.gen = q.gen /\ r.prev = NoVersion
     /\ r.pend = NoVersion /\ r.nonce = 0


-----------------------------------------------------------------------------
\* What is not on its way any more can do no harm.
LEMMA FewerCalls ==
  ASSUME NEW rank, NEW o, NEW L, NEW b, NEW d, NEW t, NEW a, NEW f,
         Held(rank, o, L, b, d, t, a, f), NEW M, M \subseteq L
  PROVE  Held(rank, o, M, b, d, t, a, f)
<1>1. Shapes(o, M, d, t, a, f) /\ RowInv(o) /\ FreshOnes(M, d, t, a, f)
  BY DEF Held, Shapes, FreshOnes
<1>2. NonceInv(M, d) /\ NewInv(M, d, a) /\ RetiredInv(o, M, d, a)
  BY DEF Held, NonceInv, NewInv, RetiredInv
<1>3. Ordered(rank, o, M, d, a, f) /\ Astray(rank, o, M, d) /\ RestoreInv(o, M, d)
  BY DEF Held, Ordered, Astray, AlienBegin, RestoreInv
<1>4. PlaceInv(d, t) /\ (~b => Sighted(o, M, d, t))
  BY DEF Held, Sighted
<1>5. QED
  BY <1>1, <1>2, <1>3, <1>4 DEF Held

-----------------------------------------------------------------------------
(* A call is given up *)

LEMMA GivenUpCalls ==
  ASSUME NEW rank \in Ranks, NEW o, NEW L, NEW b, NEW d, NEW t, NEW a, NEW f,
         Held(rank, o, L, b, d, t, a, f),
         NEW q \in Queries, NEW failed \in Pc, Asked(q, d, failed),
         NEW d2 \in DepType, Same(d2, d), d2.pc = failed
  PROVE  /\ Shapes(o, L \cup {q}, d2, t, a, f) /\ FreshOnes(L \cup {q}, d2, t, a, f)
         /\ NonceInv(L \cup {q}, d2) /\ NewInv(L \cup {q}, d2, a)
<1>1. Shapes(o, L \cup {q}, d2, t, a, f) /\ FreshOnes(L \cup {q}, d2, t, a, f)
  BY DEF Held, Shapes, FreshOnes, Asked, Same
<1>2. d.nonce \in Nat /\ d.nonce <= d.nonce
  BY DEF Held, Shapes, DepType
<1>3. NonceInv(L \cup {q}, d2)
  BY <1>2 DEF Held, NonceInv, Asked, Same, Unsaid
<1>4. d.pc \in ActivationPcs => d.from # d.to
  BY DEF Held, Shapes, Ordered, DepType, Ranks
<1>5. NewInv(L \cup {q}, d2, a)
  BY <1>4 DEF Held, NewInv, Asked, Same, ActivationPcs, ActPcs
<1>6. QED
  BY <1>1, <1>3, <1>5

LEMMA GivenUpRetired ==
  ASSUME NEW rank \in Ranks, NEW o, NEW L, NEW b, NEW d, NEW t, NEW a, NEW f,
         Held(rank, o, L, b, d, t, a, f),
         NEW q \in Queries, NEW failed \in Pc, Asked(q, d, failed),
         NEW d2 \in DepType, Same(d2, d), d2.pc = failed
  PROVE  RetiredInv(o, L \cup {q}, d2, a)
<1> SUFFICES ASSUME NEW r \in L \cup {q}, Dead(r, d2)
             PROVE  /\ o.active # r.from /\ a.cur # r.from /\ a.prev # r.from
                    /\ \A p \in L \cup {q} : ~LeadsTo(p, o, r.from)
                    /\ d2.pc \in ActPcs => d2.from # r.from
                    /\ d2.pc \in RollPcs \cup {"manifest"} => d2.from # r.from /\ d2.to # r.from
  BY DEF RetiredInv
<1>1. r \in L /\ Dead(r, d)
  BY DEF Dead, Asked, Same, ActPcs
<1>2. /\ o.active # r.from /\ a.cur # r.from /\ a.prev # r.from
      /\ \A p \in L : ~LeadsTo(p, o, r.from)
      /\ d.pc \in ActPcs => d.from # r.from /\ d.to # r.from
      /\ d.pc \in RollPcs => d.from # r.from /\ d.to # r.from
  BY <1>1 DEF Held, RetiredInv, Dead
<1>3. ~LeadsTo(q, o, r.from)
  BY <1>2 DEF LeadsTo, Asked, ActPcs, RollPcs
<1>4. /\ d2.pc \in ActPcs => d2.from # r.from
      /\ d2.pc \in RollPcs \cup {"manifest"} => d2.from # r.from /\ d2.to # r.from
  BY <1>2 DEF Asked, Same, ActPcs, RollPcs
<1>5. QED
  BY <1>2, <1>3, <1>4

LEMMA GivenUpOrder ==
  ASSUME NEW rank \in Ranks, NEW o, NEW L, NEW b, NEW d, NEW t, NEW a, NEW f,
         Held(rank, o, L, b, d, t, a, f),
         NEW q \in Queries, NEW failed \in Pc, Asked(q, d, failed),
         NEW d2 \in DepType, Same(d2, d), d2.pc = failed
  PROVE  Ordered(rank, o, L \cup {q}, d2, a, f) /\ Astray(rank, o, L \cup {q}, d2)
<1>1. Ordered(rank, o, L, d, a, f) /\ NonceInv(L, d)
  BY DEF Held
<1>2. /\ \A v \in Version \ f : rank[v] <= d2.nonce
      /\ a # NoManifest => rank[a.prev] < rank[a.cur]
      /\ d2.pc \in RollPcs => rank[d2.to] < rank[d2.from]
      /\ d2.pc \in ActivationPcs \cup {"manifest"} => rank[d2.from] < rank[d2.to]
  BY <1>1 DEF Ordered, Asked, Same, RollPcs, ActivationPcs, ActPcs
<1>3. ASSUME NEW p \in L \cup {q}, NEW r \in L \cup {q},
             p.rpc = "begin", r.rpc = "finish", p.nonce = r.nonce
      PROVE  r.as = "rolling_back" /\ rank[p.from] < rank[p.to]
  <2>1. CASE p \in L /\ r \in L
    BY <1>1, <1>3, <2>1 DEF Ordered
  <2>2. CASE p = q /\ r \in L
    BY <1>1, <1>3, <2>2 DEF NonceInv, Asked, Unsaid
  <2>3. CASE p \in L /\ r = q
    BY <1>1, <1>3, <2>3 DEF NonceInv, Asked, Unsaid, Ordered
  <2>4. QED
    BY <1>3, <2>1, <2>2, <2>3
<1>4. ASSUME d2.pc = "regained", NEW p \in L \cup {q}, p.rpc = "begin", p.nonce = d2.nonce
      PROVE  rank[p.from] < rank[p.to]
  BY <1>1, <1>4 DEF Ordered, NonceInv, Asked, Same, Unsaid, RollPcs
<1>5. Ordered(rank, o, L \cup {q}, d2, a, f)
  BY <1>2, <1>3, <1>4 DEF Ordered
<1>6. Astray(rank, o, L \cup {q}, d2)
  BY DEF Held, Astray, OwnBegin, AlienBegin, Asked, Same, ActPcs
<1>7. QED
  BY <1>5, <1>6

LEMMA GivenUpPlace ==
  ASSUME NEW rank \in Ranks, NEW o, NEW L, NEW b, NEW d, NEW t, NEW a, NEW f,
         Held(rank, o, L, b, d, t, a, f),
         NEW q \in Queries, NEW failed \in Pc, Asked(q, d, failed),
         NEW d2 \in DepType, Same(d2, d), d2.pc = failed
  PROVE  /\ RestoreInv(o, L \cup {q}, d2) /\ PlaceInv(d2, t)
         /\ ~b => Sighted(o, L \cup {q}, d2, t)
<1>1. RestoreInv(o, L \cup {q}, d2)
  BY DEF Held, RestoreInv, Asked, Same, ActPcs
<1>2. PlaceInv(d2, t)
  BY DEF Held, PlaceInv, Asked, Same, AtFrom
<1>3. ASSUME ~b PROVE Sighted(o, L \cup {q}, d2, t)
  <2>1. Sighted(o, L, d, t) /\ PlaceInv(d, t)
    BY <1>3 DEF Held
  <2>2. QED
    BY <2>1 DEF Sighted, PlaceInv, Asked, Same, ActPcs, AtFrom
<1>4. QED
  BY <1>1, <1>2, <1>3

LEMMA GivenUp ==
  ASSUME NEW rank \in Ranks, NEW o, NEW L, NEW b, NEW d, NEW t, NEW a, NEW f,
         Held(rank, o, L, b, d, t, a, f),
         NEW q \in Queries, NEW failed \in Pc, Asked(q, d, failed),
         NEW d2 \in DepType, Same(d2, d), d2.pc = failed
  PROVE  Held(rank, o, L \cup {q}, b, d2, t, a, f)
<1>1. RowInv(o)
  BY DEF Held
<1>2. QED
  BY <1>1, GivenUpCalls, GivenUpRetired, GivenUpOrder, GivenUpPlace DEF Held

-----------------------------------------------------------------------------
(* A call that was given up takes effect *)

LEMMA ArrivedRow ==
  ASSUME NEW rank \in Ranks, NEW o, NEW L, NEW b, NEW d, NEW t, NEW a, NEW f,
         Held(rank, o, L, b, d, t, a, f), NEW q \in L, NEW r \in OwnRow, Moves(o, q, r)
  PROVE  RowInv(r)
<1> USE RuntimeAssumption
<1>1. o \in OwnRow /\ q \in Queries /\ RowInv(o)
  BY DEF Held, Shapes
<1>2. CASE q.rpc \in {"prepare", "cancel", "abort"}
  BY <1>1, <1>2 DEF Moves, RowInv, OwnRow, Transition, State, Queries, Null
<1>3. CASE q.rpc \in {"begin", "finish"}
  BY <1>1, <1>3 DEF Moves, RowInv, OwnRow, Transition, State, Queries
<1>4. CASE q.rpc = "restore"
  <2>1. q.gen = q.to
    BY <1>1, <1>4 DEF Held, RestoreInv, Moves
  <2>2. QED
    BY <1>1, <1>4, <2>1 DEF Moves, RowInv, Transition
<1>5. QED
  BY <1>1, <1>2, <1>3, <1>4 DEF Queries

LEMMA ArrivedRetired ==
  ASSUME NEW rank \in Ranks, NEW o, NEW L, NEW b, NEW d, NEW t, NEW a, NEW f,
         Held(rank, o, L, b, d, t, a, f), NEW q \in L, NEW r \in OwnRow, Moves(o, q, r)
  PROVE  RetiredInv(r, L, d, a)
<1> SUFFICES ASSUME NEW s \in L, Dead(s, d)
             PROVE  r.active # s.from /\ \A p \in L : ~LeadsTo(p, r, s.from)
  BY DEF Held, RetiredInv
<1>1. o.active # s.from /\ \A p \in L : ~LeadsTo(p, o, s.from)
  BY DEF Held, RetiredInv
<1>2. q \in Queries /\ L \subseteq Queries
  BY DEF Held, Shapes
<1>3. CASE q.rpc \in {"prepare", "cancel", "abort"}
  BY <1>1, <1>2, <1>3 DEF Moves, LeadsTo, Transition
<1>4. CASE q.rpc \in {"finish", "restore"}
  BY <1>1, <1>2, <1>4 DEF Moves, LeadsTo, Transition
<1>5. CASE q.rpc = "begin"
  <2>1. \A p \in L : p.rpc = "finish" /\ p.nonce = q.nonce => p.as = "rolling_back"
    BY <1>5 DEF Held, Ordered
  <2>2. QED
    BY <1>1, <1>2, <1>5, <2>1 DEF Moves, LeadsTo
<1>6. QED
  BY <1>2, <1>3, <1>4, <1>5 DEF Queries

\* Where the row may be during an activation.
LEMMA DuringActivation ==
  ASSUME NEW rank \in Ranks, NEW o, NEW L, NEW b, NEW d, NEW t, NEW a, NEW f,
         Held(rank, o, L, b, d, t, a, f), d.pc \in ActPcs
  PROVE  /\ d.from \in Version /\ d.to \in Version /\ d.from # d.to
         /\ rank[d.from] \in Nat /\ rank[d.to] \in Nat /\ rank[d.from] < rank[d.to]
         /\ o \in OwnRow /\ o.active \in Version /\ rank[o.active] \in Nat
         /\ o.pend \in Version => rank[o.pend] \in Nat
         /\ L \subseteq Queries
         /\ \A q \in L : q.from \in Version /\ q.to \in Version
BY DEF Held, Shapes, Ordered, ActivationPcs, DepType, OwnRow, Ranks, Queries

LEMMA ArrivedFinish ==
  ASSUME NEW rank \in Ranks, NEW o, NEW L, NEW b, NEW d, NEW t, NEW a, NEW f,
         Held(rank, o, L, b, d, t, a, f), NEW q \in L, NEW r \in OwnRow, Moves(o, q, r),
         q.rpc = "finish", d.pc \in ActPcs
  PROVE  \/ r.active = d.to /\ r.prev = d.from
         \/ r.active \notin {d.from, d.to} /\ rank[d.from] < rank[r.active]
<1>1. /\ o.pend = q.to /\ o.nonce = q.nonce /\ o.state \in Transition
      /\ r.active = q.to /\ r.prev = o.prev
  BY DEF Moves
<1>2. OwnBegin(o, d) \/ AlienBegin(rank, o, L, d)
  BY <1>1 DEF Held, Astray
<1>3. CASE OwnBegin(o, d)
  BY <1>1, <1>3 DEF OwnBegin, Held, RowInv
<1>4. CASE AlienBegin(rank, o, L, d)
  <2>1. q.as = "rolling_back" /\ rank[o.active] < rank[o.pend] /\ o.active # d.to
    BY <1>1, <1>4 DEF AlienBegin
  <2>2. q.to # d.to
    BY <2>1 DEF Held, NewInv, ActivationPcs
  <2>3. o.active = d.from \/ rank[d.from] < rank[o.active]
    BY <2>1 DEF Held, Astray
  <2>4. rank[d.from] < rank[q.to]
    BY <2>1, <2>3, <1>1, DuringActivation
  <2>5. q.to # d.from
    BY <2>4, DuringActivation
  <2>6. QED
    BY <1>1, <2>2, <2>4, <2>5
<1>5. QED
  BY <1>2, <1>3, <1>4

LEMMA ArrivedRestore ==
  ASSUME NEW rank \in Ranks, NEW o, NEW L, NEW b, NEW d, NEW t, NEW a, NEW f,
         Held(rank, o, L, b, d, t, a, f), NEW q \in L, NEW r \in OwnRow, Moves(o, q, r),
         q.rpc = "restore", d.pc \in ActPcs
  PROVE  /\ r.prev = NoVersion /\ r.active # d.to
         /\ r.active = d.from \/ r.active = o.active
<1>1. q.to # d.to /\ (q.from = d.to => q.to = d.from)
  BY DEF Held, NewInv, ActivationPcs
<1>2. q.from # d.to => o.active # q.from
  BY DEF Held, RetiredInv, Dead
<1>3. QED
  BY <1>1, <1>2 DEF Moves

LEMMA ArrivedAstray ==
  ASSUME NEW rank \in Ranks, NEW o, NEW L, NEW b, NEW d, NEW t, NEW a, NEW f,
         Held(rank, o, L, b, d, t, a, f), NEW q \in L, NEW r \in OwnRow, Moves(o, q, r)
  PROVE  Astray(rank, r, L, d)
<1> SUFFICES ASSUME d.pc \in ActPcs
             PROVE  /\ r.active \notin {d.from, d.to} => rank[d.from] < rank[r.active]
                    /\ r.state \in Transition => OwnBegin(r, d) \/ AlienBegin(rank, r, L, d)
  BY DEF Astray
<1>1. q \in Queries /\ Astray(rank, o, L, d)
  BY DEF Held, Shapes
<1>2. CASE q.rpc \in {"prepare", "cancel", "abort"}
  BY <1>1, <1>2 DEF Moves, Astray, Transition
<1>3. CASE q.rpc = "finish"
  BY <1>3, ArrivedFinish DEF Moves, Transition
<1>4. CASE q.rpc = "restore"
  BY <1>1, <1>4, ArrivedRestore DEF Moves, Transition, Astray
<1>5. CASE q.rpc = "begin"
  <2>1. /\ r.active = o.active /\ r.active = q.from /\ r.pend = q.to /\ r.nonce = q.nonce
        /\ r.state = q.as
    BY <1>5 DEF Moves
  <2>2. q.from # d.to
    BY <1>5 DEF Held, NewInv, ActivationPcs
  <2>3. CASE q.nonce = d.nonce
    BY <1>5, <2>1, <2>3 DEF Held, NewInv, ActivationPcs, OwnBegin, Astray
  <2>4. CASE q.nonce # d.nonce
    <3>1. \A p \in L : p.rpc = "finish" /\ p.nonce = q.nonce =>
             p.as = "rolling_back" /\ rank[q.from] < rank[q.to]
      BY <1>5 DEF Held, Ordered
    <3>2. QED
      BY <1>1, <2>1, <2>2, <2>4, <3>1 DEF AlienBegin, Astray
  <2>5. QED
    BY <2>3, <2>4
<1>6. QED
  BY <1>1, <1>2, <1>3, <1>4, <1>5 DEF Queries

LEMMA ArrivedRestoring ==
  ASSUME NEW rank \in Ranks, NEW o, NEW L, NEW b, NEW d, NEW t, NEW a, NEW f,
         Held(rank, o, L, b, d, t, a, f), NEW q \in L, NEW r \in OwnRow, Moves(o, q, r)
  PROVE  RestoreInv(r, L, d)
<1>0. q \in Queries /\ RowInv(o) /\ RestoreInv(o, L, d) /\ Astray(rank, o, L, d)
  BY DEF Held, Shapes
<1>1. ASSUME d.pc \in ActPcs
      PROVE  /\ r.active = d.from => r.prev \in {NoVersion, d.from}
             /\ r.active = d.to => r.prev = d.from
             /\ r.active \in {d.from, d.to} => o.active \in {d.from, d.to}
  <2>1. d.from # d.to
    BY <1>1, DuringActivation
  <2>2. CASE q.rpc = "prepare"
    <3>1. q.from # d.to
      BY <1>1, <2>2 DEF Held, NewInv, ActivationPcs
    <3>2. QED
      BY <1>0, <2>2, <3>1 DEF Moves, RowInv
  <2>3. CASE q.rpc \in {"begin", "abort"}
    BY <1>0, <1>1, <2>3 DEF Moves, RestoreInv
  <2>4. CASE q.rpc = "cancel"
    BY <1>0, <1>1, <2>1, <2>4 DEF Moves, RestoreInv, RowInv
  <2>5. CASE q.rpc = "finish"
    <3>1. r.active \in {d.from, d.to} => r.active = d.to /\ r.prev = d.from
      BY <1>1, <2>5, ArrivedFinish
    <3>2. r.active = d.to => o.active \in {d.from, d.to}
      <4>1. o.pend = q.to /\ o.nonce = q.nonce /\ o.state \in Transition /\ r.active = q.to
        BY <2>5 DEF Moves
      <4>2. CASE OwnBegin(o, d)
        BY <4>2 DEF OwnBegin
      <4>3. CASE AlienBegin(rank, o, L, d)
        BY <1>1, <2>5, <4>1, <4>3 DEF AlienBegin, Held, NewInv, ActivationPcs
      <4>4. QED
        BY <1>0, <1>1, <4>1, <4>2, <4>3 DEF Astray
    <3>3. QED
      BY <2>1, <3>1, <3>2
  <2>6. CASE q.rpc = "restore"
    <3>1. r.prev = NoVersion /\ r.active # d.to
      BY <1>1, <2>6, ArrivedRestore
    <3>2. r.active = d.from => o.active \in {d.from, d.to}
      <4>1. q.to # d.to /\ (q.from = d.to => q.to = d.from)
        BY <1>1, <2>6 DEF Held, NewInv, ActivationPcs
      <4>2. q.from # d.to => o.active # q.from
        BY <2>6 DEF Held, RetiredInv, Dead
      <4>3. QED
        BY <2>6, <4>1, <4>2 DEF Moves
    <3>3. QED
      BY <3>1, <3>2
  <2>7. QED
    BY <1>0, <2>2, <2>3, <2>4, <2>5, <2>6 DEF Queries
<1>2. d.pc = "restore" /\ r.active \in {d.from, d.to} => d.gen = d.from
  BY <1>0, <1>1 DEF RestoreInv, ActPcs
<1>3. ASSUME NEW s \in L, s.rpc = "restore"
      PROVE  \/ s.gen = s.to
             \/ /\ d.pc \in ActPcs /\ d.to = s.from /\ d.from = s.to
                /\ r.active \notin {s.from, s.to}
  BY <1>0, <1>1, <1>3 DEF RestoreInv
<1>4. QED
  BY <1>1, <1>2, <1>3 DEF RestoreInv

\* A call that tells nobody and moves the row leaves the traffic admitted.
LEMMA ArrivedSighted ==
  ASSUME NEW rank \in Ranks, NEW o, NEW L, NEW b, NEW d, NEW t, NEW a, NEW f,
         Held(rank, o, L, b, d, t, a, f), NEW q \in L, NEW r \in OwnRow, Moves(o, q, r),
         ~b, ~Tells(q)
  PROVE  Sighted(r, L, d, t)
<1>0. q \in Queries /\ RowInv(o) /\ Sighted(o, L, d, t) /\ NonceInv(L, d) /\ t \in Version
      /\ NoVersion \notin Version
  BY RuntimeAssumption DEF Held, Shapes
<1>1. CASE q.rpc \in {"prepare", "cancel"}
  BY <1>0, <1>1 DEF Moves, Sighted, RowInv, Transition
<1>2. CASE q.rpc = "begin"
  <2>1. o.state \notin Transition /\ o.pend = NoVersion /\ d.to # NoVersion
    BY <1>0, <1>2 DEF Moves, RowInv, Transition, Held, Shapes, DepType
  <2>2. t = o.active /\ d.pc \notin {"deploy", "route"}
    BY <1>0, <2>1 DEF Sighted
  <2>3. QED
    BY <1>0, <1>2, <2>2 DEF Moves, Sighted
<1>3. CASE q.rpc = "abort"
  BY <1>0, <1>3 DEF Moves, Sighted, NonceInv, Transition
<1>4. QED
  BY <1>0, <1>1, <1>2, <1>3 DEF Queries, Tells

LEMMA Arrived ==
  ASSUME NEW rank \in Ranks, NEW o, NEW L, NEW b, NEW d, NEW t, NEW a, NEW f,
         Held(rank, o, L, b, d, t, a, f), NEW q \in L, NEW r \in OwnRow, Moves(o, q, r),
         NEW c, ~c => ~b /\ ~Tells(q)
  PROVE  Held(rank, r, L, c, d, t, a, f)
<1>1. Shapes(r, L, d, t, a, f) /\ FreshOnes(L, d, t, a, f) /\ NonceInv(L, d) /\ NewInv(L, d, a)
  BY DEF Held, Shapes
<1>2. Ordered(rank, r, L, d, a, f) /\ PlaceInv(d, t)
  BY DEF Held, Ordered
<1>3. ~c => Sighted(r, L, d, t)
  BY ArrivedSighted
<1>4. QED
  BY <1>1, <1>2, <1>3, ArrivedRow, ArrivedRetired, ArrivedAstray, ArrivedRestoring DEF Held

-----------------------------------------------------------------------------
(* A call is answered *)

LEMMA AnsweredCalls ==
  ASSUME NEW rank \in Ranks, NEW o, NEW L, NEW b, NEW d, NEW t, NEW a, NEW f,
         Held(rank, o, L, b, d, t, a, f),
         NEW q \in Queries, NEW ok, Answered(q, d, ok),
         NEW r \in OwnRow, Moves(o, q, r),
         NEW d2 \in DepType, Same(d2, d), d2.pc = ok
  PROVE  /\ Shapes(r, L, d2, t, a, f) /\ RowInv(r) /\ FreshOnes(L, d2, t, a, f)
         /\ NonceInv(L, d2) /\ NewInv(L, d2, a)
<1>1. Shapes(r, L, d2, t, a, f) /\ FreshOnes(L, d2, t, a, f)
  BY DEF Held, Shapes, FreshOnes, Same
<1>2. NonceInv(L, d2)
  BY DEF Held, NonceInv, Answered, Same, Unsaid
<1>3. NewInv(L, d2, a)
  BY DEF Held, NewInv, Answered, Same, ActivationPcs, ActPcs
<1>4. RowInv(r)
  <2>1. RowInv(o) /\ o \in OwnRow /\ q.to \in Version /\ NoVersion \notin Version
    BY RuntimeAssumption DEF Held, Shapes, Queries
  <2>2. CASE q.rpc = "prepare"
    BY <2>1, <2>2 DEF Moves, RowInv, Transition
  <2>3. CASE q.rpc = "begin"
    BY <2>1, <2>3 DEF Moves, RowInv, Transition, Answered
  <2>4. CASE q.rpc = "finish"
    BY <2>1, <2>4 DEF Moves, RowInv, Transition
  <2>5. QED
    BY <2>2, <2>3, <2>4 DEF Answered
<1>5. QED
  BY <1>1, <1>2, <1>3, <1>4

LEMMA AnsweredRetired ==
  ASSUME NEW rank \in Ranks, NEW o, NEW L, NEW b, NEW d, NEW t, NEW a, NEW f,
         Held(rank, o, L, b, d, t, a, f),
         NEW q \in Queries, NEW ok, Answered(q, d, ok),
         NEW r \in OwnRow, Moves(o, q, r),
         NEW d2 \in DepType, Same(d2, d), d2.pc = ok
  PROVE  RetiredInv(r, L, d2, a)
<1> SUFFICES ASSUME NEW s \in L, Dead(s, d2)
             PROVE  /\ r.active # s.from /\ a.cur # s.from /\ a.prev # s.from
                    /\ \A p \in L : ~LeadsTo(p, r, s.from)
                    /\ d2.pc \in ActPcs => d2.from # s.from
                    /\ d2.pc \in RollPcs \cup {"manifest"} => d2.from # s.from /\ d2.to # s.from
  BY DEF RetiredInv
<1>1. s.rpc = "restore"
  BY DEF Dead
<1>2. d.pc \in {"prepare", "begin", "finish"} => s.from # d.to
  BY <1>1 DEF Held, NewInv, ActivationPcs, ActPcs
<1>3. Dead(s, d)
  BY <1>1, <1>2 DEF Dead, Answered, Same, ActPcs
<1>4. /\ o.active # s.from /\ a.cur # s.from /\ a.prev # s.from
      /\ \A p \in L : ~LeadsTo(p, o, s.from)
      /\ d.pc \in ActPcs => d.from # s.from
      /\ d.pc \in RollPcs => d.from # s.from /\ d.to # s.from
  BY <1>3 DEF Held, RetiredInv
<1>5. r.active # s.from
  BY <1>2, <1>4 DEF Moves, Answered, RollPcs
<1>6. ASSUME NEW p \in L PROVE ~LeadsTo(p, r, s.from)
  <2>1. CASE q.rpc \in {"prepare", "finish"}
    BY <1>4, <2>1 DEF Moves, LeadsTo, Transition
  <2>2. CASE q.rpc = "begin"
    <3>1. p.nonce = d.nonce => p.rpc # "finish"
      BY <2>2 DEF Held, NonceInv, Answered, Unsaid
    <3>2. QED
      BY <1>4, <2>2, <3>1 DEF Moves, LeadsTo, Answered
  <2>3. QED
    BY <2>1, <2>2 DEF Answered
<1>7. /\ d2.pc \in ActPcs => d2.from # s.from
      /\ d2.pc \in RollPcs \cup {"manifest"} => d2.from # s.from /\ d2.to # s.from
  <2>1. CASE d.pc = "prepare"
    BY <1>4, <2>1 DEF Answered, Same, Moves, RollPcs
  <2>2. CASE d.pc \in {"begin", "finish"}
    BY <1>2, <1>4, <2>2 DEF Answered, Same, ActPcs, RollPcs
  <2>3. CASE d.pc \in {"back", "rolled"}
    BY <1>4, <2>3 DEF Answered, Same, ActPcs, RollPcs
  <2>4. QED
    BY <2>1, <2>2, <2>3 DEF Answered
<1>8. QED
  BY <1>4, <1>5, <1>6, <1>7

LEMMA AnsweredOrder ==
  ASSUME NEW rank \in Ranks, NEW o, NEW L, NEW b, NEW d, NEW t, NEW a, NEW f,
         Held(rank, o, L, b, d, t, a, f),
         NEW q \in Queries, NEW ok, Answered(q, d, ok),
         NEW r \in OwnRow, Moves(o, q, r),
         NEW d2 \in DepType, Same(d2, d), d2.pc = ok
  PROVE  Ordered(rank, r, L, d2, a, f) /\ Astray(rank, r, L, d2) /\ RestoreInv(r, L, d2)
<1>1. Ordered(rank, r, L, d2, a, f)
  BY DEF Held, Ordered, Answered, Same, RollPcs, ActivationPcs, ActPcs
<1>2. Astray(rank, r, L, d2)
  BY DEF Astray, OwnBegin, Answered, Same, Moves, ActPcs, Transition
<1>3. RestoreInv(r, L, d2)
  <2>1. RowInv(o) /\ RestoreInv(o, L, d)
    BY DEF Held
  <2>2. d2.pc \in ActPcs => r.active = d.from /\ r.prev = d.from /\ d.from # d.to
    <3>1. d2.pc \in ActPcs => d.pc \in {"prepare", "begin"} /\ d.from # d.to
      BY DEF Answered, ActPcs, Held, Shapes, Ordered, ActivationPcs, DepType, Ranks
    <3>2. d.pc \in {"prepare", "begin"} => r.active = d.from /\ r.prev = d.from
      BY <2>1 DEF Answered, Moves, RowInv
    <3>3. QED
      BY <3>1, <3>2
  <2>3. ASSUME NEW s \in L, s.rpc = "restore" PROVE s.gen = s.to
    <3>1. d.pc \in {"begin", "finish"} => s.from # d.to
      BY <2>3 DEF Held, NewInv, ActivationPcs, ActPcs
    <3>2. QED
      BY <2>1, <2>3, <3>1 DEF RestoreInv, Answered, ActPcs
  <2>4. QED
    BY <2>2, <2>3 DEF RestoreInv, Answered, Same
<1>4. QED
  BY <1>1, <1>2, <1>3

LEMMA AnsweredPlace ==
  ASSUME NEW rank \in Ranks, NEW o, NEW L, NEW b, NEW d, NEW t, NEW a, NEW f,
         Held(rank, o, L, b, d, t, a, f),
         NEW q \in Queries, NEW ok, Answered(q, d, ok),
         NEW r \in OwnRow, Moves(o, q, r),
         NEW d2 \in DepType, Same(d2, d), d2.pc = ok,
         NEW c, ~c => ~b \/ Tells(q)
  PROVE  PlaceInv(d2, t) /\ (~c => Sighted(r, L, d2, t))
<1>1. PlaceInv(d2, t)
  BY DEF Held, PlaceInv, Answered, Same, AtFrom
<1>2. ASSUME ~c PROVE Sighted(r, L, d2, t)
  <2>1. PlaceInv(d, t) /\ NonceInv(L, d)
    BY DEF Held
  <2>2. CASE q.rpc = "finish"
    BY <2>1, <2>2 DEF Moves, Answered, Sighted, PlaceInv, Same, ActPcs, Transition
  <2>3. CASE q.rpc = "prepare"
    BY <2>1, <2>3 DEF Moves, Answered, Sighted, PlaceInv, Same, ActPcs, AtFrom, Transition
  <2>4. CASE q.rpc = "begin"
    BY <2>1, <2>4 DEF Moves, Answered, Sighted, PlaceInv, NonceInv, Same, ActPcs, AtFrom
  <2>5. QED
    BY <2>2, <2>3, <2>4 DEF Answered
<1>3. QED
  BY <1>1, <1>2

LEMMA IsAnswered ==
  ASSUME NEW rank \in Ranks, NEW o, NEW L, NEW b, NEW d, NEW t, NEW a, NEW f,
         Held(rank, o, L, b, d, t, a, f),
         NEW q \in Queries, NEW ok, Answered(q, d, ok),
         NEW r \in OwnRow, Moves(o, q, r),
         NEW d2 \in DepType, Same(d2, d), d2.pc = ok,
         NEW c, ~c => ~b \/ Tells(q)
  PROVE  Held(rank, r, L, c, d2, t, a, f)
BY AnsweredCalls, AnsweredRetired, AnsweredOrder, AnsweredPlace DEF Held

\* A restore or the recovery's finish, answered: the row is where the traffic is.
LEMMA AnsweredLast ==
  ASSUME NEW rank \in Ranks, NEW o, NEW L, NEW b, NEW d, NEW t, NEW a, NEW f,
         Held(rank, o, L, b, d, t, a, f),
         NEW q \in Queries, NEW failed \in Pc, Asked(q, d, failed), Tells(q),
         d.pc \in {"restore", "regained"},
         NEW r \in OwnRow, Moves(o, q, r),
         NEW d2 \in DepType, Same(d2, d), d2.pc = failed
  PROVE  Held(rank, r, L, FALSE, d2, t, a, f)
<1>1. Held(rank, o, L \cup {q}, b, d2, t, a, f)
  BY GivenUp
<1>2. Held(rank, r, L \cup {q}, TRUE, d2, t, a, f)
  BY <1>1, Arrived
<1>3. Held(rank, r, L, TRUE, d2, t, a, f)
  BY <1>2, FewerCalls
<1>4. r.active = d.from /\ r.state = "active" /\ t = d.from
  BY DEF Asked, Moves, Held, PlaceInv, AtFrom
<1>5. Sighted(r, L, d2, t)
  BY <1>4 DEF Sighted, Asked, Same, Transition
<1>6. QED
  BY <1>3, <1>5 DEF Held

-----------------------------------------------------------------------------
(* The steps *)

LEMMA EffectMoves ==
  ASSUME Typed, NEW q \in Queries, NEW r \in Effect(q)
  PROVE  r \in OwnRow /\ Moves(own, q, r)
<1>0. own \in OwnRow /\ r \in OwnRow
  BY EffectAgrees DEF Typed
<1>1. CASE q.rpc = "prepare"
  BY <1>0, <1>1 DEF Effect, Prepared, If, Moves, OwnRow
<1>2. CASE q.rpc = "begin"
  BY <1>0, <1>2 DEF Effect, Begun, If, Moves, OwnRow
<1>3. CASE q.rpc = "finish"
  BY <1>0, <1>3 DEF Effect, Finished, If, Settled, Moves, OwnRow
<1>4. CASE q.rpc = "abort"
  BY <1>0, <1>4 DEF Effect, Aborted, If, Moves, OwnRow
<1>5. CASE q.rpc = "cancel"
  BY <1>0, <1>5 DEF Effect, Cancelled, If, Moves, OwnRow
<1>6. CASE q.rpc = "restore"
  BY <1>0, <1>6 DEF Effect, Restored, If, Settled, Moves, OwnRow
<1>7. QED
  BY <1>1, <1>2, <1>3, <1>4, <1>5, <1>6, <1>0 DEF Queries

\* One curl of a script, in its four outcomes.
LEMMA CallTrans ==
  ASSUME LeaseInv, TransInv, UNCHANGED <<traffic, accepted, fresh>>,
         NEW q \in Queries, NEW ok \in Pc, NEW failed \in Pc, Call(q, ok, failed),
         Asked(q, dep, failed),
         \/ ok = failed /\ dep.pc \notin {"finish", "rolled"}
         \/ Answered(q, dep, ok)
  PROVE  TransInv'
<1>1. PICK rank \in Ranks : Held(rank, own, late, blind, dep, traffic, accepted, fresh)
  BY DEF TransInv
<1>2. dep \in DepType /\ Typed
  BY DEF LeaseInv, Typed, DepType
<1>3. dep' \in DepType /\ Same(dep', dep) /\ dep'.pc \in {ok, failed}
  <2>1. dep' = [dep EXCEPT !.pc = ok] \/ dep' = [dep EXCEPT !.pc = failed]
    BY DEF Call
  <2>2. QED
    BY <2>1, <1>2 DEF DepType, Same
<1>4. Tells(q) /\ ~Answered(q, dep, ok) => dep.pc \in {"restore", "regained"}
  BY DEF Asked, Tells
<1>5. CASE Effect(q) = {} /\ dep' = [dep EXCEPT !.pc = failed] /\ UNCHANGED <<own, late, lost, blind>>
  <2>1. dep'.pc = failed
    BY <1>5, <1>2 DEF DepType
  <2>2. Held(rank, own, late \cup {q}, blind, dep', traffic, accepted, fresh)
    BY <1>1, <1>3, <2>1, GivenUp
  <2>3. Held(rank, own, late, blind, dep', traffic, accepted, fresh)
    BY <2>2, FewerCalls
  <2>4. QED
    BY <2>3, <1>5 DEF TransInv
<1>6. CASE /\ own' \in Effect(q) /\ dep' = [dep EXCEPT !.pc = ok]
           /\ blind' = (blind /\ ~Tells(q)) /\ UNCHANGED <<late, lost>>
  <2>1. own' \in OwnRow /\ Moves(own, q, own') /\ dep'.pc = ok
    BY <1>2, <1>6, EffectMoves DEF DepType
  <2>2. CASE Answered(q, dep, ok)
    <3>1. ~blind' => ~blind \/ Tells(q)
      BY <1>6
    <3>2. Held(rank, own', late, blind', dep', traffic, accepted, fresh)
      BY <1>1, <1>3, <2>1, <2>2, <3>1, IsAnswered
    <3>3. QED
      BY <3>2, <1>6 DEF TransInv
  <2>3. CASE ok = failed /\ ~Answered(q, dep, ok) /\ Tells(q)
    <3>1. Held(rank, own', late, FALSE, dep', traffic, accepted, fresh)
      BY <1>1, <1>3, <1>4, <2>1, <2>3, AnsweredLast
    <3>2. blind' = FALSE
      BY <1>6, <2>3
    <3>3. QED
      BY <3>1, <3>2, <1>6 DEF TransInv
  <2>4. CASE ok = failed /\ ~Tells(q)
    <3>1. Held(rank, own, late \cup {q}, blind, dep', traffic, accepted, fresh)
      BY <1>1, <1>3, <2>1, <2>4, GivenUp
    <3>2. ~blind' => ~blind /\ ~Tells(q)
      BY <1>6, <2>4
    <3>3. Held(rank, own', late \cup {q}, blind', dep', traffic, accepted, fresh)
      BY <3>1, <3>2, <2>1, Arrived
    <3>4. Held(rank, own', late, blind', dep', traffic, accepted, fresh)
      BY <3>3, FewerCalls
    <3>5. QED
      BY <3>4, <1>6 DEF TransInv
  <2>5. QED
    BY <2>2, <2>3, <2>4
<1>7. CASE /\ dep' = [dep EXCEPT !.pc = failed]
           /\ own' \in Effect(q) /\ blind' = (blind \/ Tells(q)) /\ UNCHANGED late
  <2>1. own' \in OwnRow /\ Moves(own, q, own') /\ dep'.pc = failed
    BY <1>2, <1>7, EffectMoves DEF DepType
  <2>2. Held(rank, own, late \cup {q}, blind, dep', traffic, accepted, fresh)
    BY <1>1, <1>3, <2>1, GivenUp
  <2>3. ~blind' => ~blind /\ ~Tells(q)
    BY <1>7
  <2>4. Held(rank, own', late \cup {q}, blind', dep', traffic, accepted, fresh)
    BY <2>1, <2>2, <2>3, Arrived
  <2>5. Held(rank, own', late, blind', dep', traffic, accepted, fresh)
    BY <2>4, FewerCalls
  <2>6. QED
    BY <2>5, <1>7 DEF TransInv
<1>8. CASE /\ dep' = [dep EXCEPT !.pc = failed]
           /\ late' = late \cup {q} /\ UNCHANGED <<own, blind>>
  <2>1. dep'.pc = failed
    BY <1>8, <1>2 DEF DepType
  <2>2. Held(rank, own, late \cup {q}, blind, dep', traffic, accepted, fresh)
    BY <1>1, <1>3, <2>1, GivenUp
  <2>3. QED
    BY <2>2, <1>8 DEF TransInv
<1>9. QED
  BY <1>5, <1>6, <1>7, <1>8 DEF Call

LEMMA LandTrans ==
  ASSUME LeaseInv, TransInv, NEW q \in late, Land(q)
  PROVE  TransInv'
<1>1. PICK rank \in Ranks : Held(rank, own, late, blind, dep, traffic, accepted, fresh)
  BY DEF TransInv
<1>2. Typed /\ q \in Queries
  BY DEF LeaseInv, Typed
<1>3. late' \subseteq late /\ UNCHANGED <<traffic, fresh, accepted, dep>>
  BY DEF Land
<1>4. Held(rank, own', late, blind', dep, traffic, accepted, fresh)
  <2>1. CASE UNCHANGED <<own, blind>>
    BY <1>1, <2>1
  <2>2. CASE own' \in Effect(q) /\ blind' = (blind \/ Tells(q))
    <3>1. own' \in OwnRow /\ Moves(own, q, own')
      BY <1>2, <2>2, EffectMoves
    <3>2. ~blind' => ~blind /\ ~Tells(q)
      BY <2>2
    <3>3. QED
      BY <1>1, <3>1, <3>2, Arrived
  <2>3. QED
    BY <2>1, <2>2 DEF Land
<1>5. Held(rank, own', late', blind', dep, traffic, accepted, fresh)
  BY <1>3, <1>4, FewerCalls
<1>6. QED
  BY <1>3, <1>5 DEF TransInv

\* The leases change no field of the row but the count.
LEMMA LeasesTrans ==
  ASSUME LeaseInv, TransInv, NEW i \in Invocation, OnLease(i), own' \in OwnRow
  PROVE  TransInv'
<1>1. PICK rank \in Ranks : Held(rank, own, late, blind, dep, traffic, accepted, fresh)
  BY DEF TransInv
<1>2. UNCHANGED <<traffic, fresh, accepted, dep, late, lost, blind>>
  BY DEF OnLease, Acquire, Release, Abandon, ReapReads, ReapWrites, quietly
<1>3. own' = own \/ \E n : own' = [own EXCEPT !.count = n]
  BY DEF OnLease, Acquire, Release, Abandon, ReapReads, ReapWrites
<1>4. /\ own'.state = own.state /\ own'.active = own.active /\ own'.gen = own.gen
      /\ own'.prev = own.prev /\ own'.pend = own.pend /\ own'.nonce = own.nonce
  BY <1>3 DEF LeaseInv, Typed, OwnRow
<1>5. Held(rank, own', late, blind, dep, traffic, accepted, fresh)
  <2>1. Shapes(own', late, dep, traffic, accepted, fresh) /\ RowInv(own')
    BY <1>1, <1>4 DEF Held, Shapes, RowInv
  <2>2. RetiredInv(own', late, dep, accepted) /\ RestoreInv(own', late, dep)
    BY <1>1, <1>4 DEF Held, RetiredInv, LeadsTo, RestoreInv
  <2>3. Ordered(rank, own', late, dep, accepted, fresh) /\ Astray(rank, own', late, dep)
    BY <1>1, <1>4 DEF Held, Ordered, Astray, OwnBegin, AlienBegin
  <2>4. ~blind => Sighted(own', late, dep, traffic)
    BY <1>1, <1>4 DEF Held, Sighted
  <2>5. QED
    BY <1>1, <2>1, <2>2, <2>3, <2>4 DEF Held
<1>6. QED
  BY <1>2, <1>5 DEF TransInv

-----------------------------------------------------------------------------
LEMMA UploadTrans ==
  ASSUME LeaseInv, TransInv, NEW v \in Version, Upload(v)
  PROVE  TransInv'
<1>1. PICK rank \in Ranks : Held(rank, own, late, blind, dep, traffic, accepted, fresh)
  BY DEF TransInv
<1> DEFINE newer == [rank EXCEPT ![v] = dep.nonce + 1]
<1>2. /\ dep.pc = "idle" /\ v \in fresh /\ fresh' = fresh \ {v}
      /\ dep' = [pc |-> "prepare", from |-> traffic, to |-> v, gen |-> dep.gen,
                 nonce |-> dep.nonce + 1]
      /\ UNCHANGED <<own, late, blind, traffic, accepted>>
  BY DEF Upload, settled
<1>3. /\ dep'.pc = "prepare" /\ dep'.from = traffic /\ dep'.to = v /\ dep'.nonce = dep.nonce + 1
      /\ dep' \in DepType /\ dep.nonce \in Nat /\ traffic \in Version
  BY <1>2, DepKnows DEF DepType, Pc
<1>4. /\ newer \in Ranks /\ newer[v] = dep.nonce + 1 /\ \A u \in Version \ {v} : newer[u] = rank[u]
      /\ \A u \in Version : rank[u] \in Nat
  BY <1>3 DEF Ranks
<1> HIDE DEF newer
<1>5. /\ Shapes(own, late, dep, traffic, accepted, fresh) /\ FreshOnes(late, dep, traffic, accepted, fresh)
      /\ NonceInv(late, dep) /\ RetiredInv(own, late, dep, accepted)
      /\ Ordered(rank, own, late, dep, accepted, fresh) /\ RestoreInv(own, late, dep)
      /\ (~blind => Sighted(own, late, dep, traffic))
  BY <1>1 DEF Held
<1>6. \A q \in late : q.from \in Version /\ q.to \in Version /\ q.from # v /\ q.to # v /\ q.nonce \in Nat
  BY <1>2, <1>5 DEF Shapes, FreshOnes, Queries
<1>7. Shapes(own, late, dep', traffic, accepted, fresh')
  BY <1>2, <1>3, <1>5 DEF Shapes
<1>8. FreshOnes(late, dep', traffic, accepted, fresh')
  BY <1>2, <1>3, <1>5 DEF FreshOnes
<1>9. \A q \in late : q.nonce <= dep'.nonce /\ q.nonce # dep'.nonce
  BY <1>3, <1>5, <1>6 DEF NonceInv
<1>10. NonceInv(late, dep')
  BY <1>9 DEF NonceInv
<1>11. NewInv(late, dep', accepted)
  BY <1>2, <1>3, <1>5, <1>6, <1>9 DEF NewInv, FreshOnes
<1>12. RetiredInv(own, late, dep', accepted)
  BY <1>2, <1>3, <1>5 DEF RetiredInv, Dead, ActPcs, RollPcs
<1>13. Ordered(newer, own, late, dep', accepted, fresh')
  <2>1. \A u \in Version \ fresh' : newer[u] <= dep'.nonce
    <3>1. \A u \in Version \ fresh : rank[u] <= dep.nonce /\ u # v
      BY <1>2, <1>5 DEF Ordered
    <3>2. QED
      BY <1>2, <1>3, <1>4, <3>1
  <2>2. accepted # NoManifest => newer[accepted.prev] < newer[accepted.cur]
    BY <1>2, <1>4, <1>5 DEF Ordered, Shapes, FreshOnes
  <2>3. newer[dep'.from] < newer[dep'.to]
    <3>1. rank[traffic] <= dep.nonce /\ traffic # v
      BY <1>2, <1>3, <1>5 DEF Ordered, FreshOnes
    <3>2. QED
      BY <1>3, <1>4, <3>1
  <2>4. \A p, q \in late : p.rpc = "begin" /\ q.rpc = "finish" /\ p.nonce = q.nonce =>
          q.as = "rolling_back" /\ newer[p.from] < newer[p.to]
    BY <1>4, <1>5, <1>6 DEF Ordered
  <2>5. QED
    BY <1>3, <2>1, <2>2, <2>3, <2>4 DEF Ordered, RollPcs
<1>14. Astray(newer, own, late, dep')
  BY <1>3 DEF Astray, ActPcs
<1>15. RestoreInv(own, late, dep')
  BY <1>2, <1>3, <1>5 DEF RestoreInv, ActPcs
<1>16. PlaceInv(dep', traffic) /\ (~blind => Sighted(own, late, dep', traffic))
  BY <1>2, <1>3, <1>5 DEF PlaceInv, Sighted, ActPcs
<1>17. Held(newer, own, late, blind, dep', traffic, accepted, fresh')
  BY <1>1, <1>7, <1>8, <1>10, <1>11, <1>12, <1>13, <1>14, <1>15, <1>16 DEF Held
<1>18. QED
  BY <1>2, <1>4, <1>17 DEF TransInv

\* A script that only goes on: from d to e, with traffic u and manifest z.
GoesOn(o, d, e, t, u, a, z) ==
  /\ e.from = d.from /\ e.to = d.to
  /\ \/ /\ d.pc = "manifest" /\ e.pc = "idle" /\ e.nonce = d.nonce /\ u = t
        /\ z = [cur |-> d.to, prev |-> d.from]
     \/ /\ d.pc = "done" /\ e.pc = "idle" /\ e.nonce = d.nonce /\ u = t /\ z = NoManifest
     \/ /\ z = a /\ e.nonce = d.nonce
        /\ \/ d.pc = "deploy" /\ e.pc = "finish" /\ u = d.to
           \/ d.pc = "deploy" /\ e.pc = "redeploy" /\ u \in {t, d.to}
           \/ d.pc = "redeploy" /\ e.pc = "read" /\ u = d.from
           \/ d.pc = "redeploy" /\ e.pc = "redeploy" /\ u \in {t, d.from}
           \/ d.pc = "route" /\ e.pc = "rolled" /\ u = d.to
           \/ d.pc = "route" /\ e.pc = "cleanup" /\ u \in {t, d.to}
           \/ d.pc = "cleanup" /\ e.pc = "inspect" /\ u = d.from
           \/ d.pc = "cleanup" /\ e.pc = "idle" /\ u \in {t, d.from}
     \/ /\ z = a /\ u = t /\ e.nonce = d.nonce
        /\ \/ /\ d.pc = "read" /\ e.pc = "restore"
              /\ e.gen = (IF o.prev # NoVersion THEN o.prev ELSE o.gen)
           \/ /\ d.pc = "verify" /\ e.pc = "idle"
              /\ o.state = "active" /\ o.active = d.from
           \/ d.pc = "verify" /\ e.pc = "redeploy"
           \/ d.pc = "inspect" /\ e.pc \in {"abort", "idle"}
           \/ d.pc \in RollPcs /\ e.pc = "idle"
     \/ z = a /\ u = t /\ d.pc = "inspect" /\ e.pc = "again" /\ e.nonce = d.nonce + 1

LEMMA GoesOnCalls ==
  ASSUME NEW rank \in Ranks, NEW o, NEW L, NEW b, NEW d, NEW t, NEW a, NEW f,
         Held(rank, o, L, b, d, t, a, f),
         NEW e \in DepType, NEW u, NEW z, GoesOn(o, d, e, t, u, a, z)
  PROVE  /\ Shapes(o, L, e, u, z, f) /\ FreshOnes(L, e, u, z, f)
         /\ NonceInv(L, e) /\ NewInv(L, e, z)
<1>1. Shapes(o, L, d, t, a, f)
  BY DEF Held
<1>2. d.from \in Version /\ d.to \in Version /\ d.nonce \in Nat
      /\ \A q \in L : q.nonce \in Nat
  BY <1>1 DEF Shapes, DepType, Queries
<1>3. /\ u \in {t, d.from, d.to}
      /\ \/ z = a \/ z = [cur |-> d.to, prev |-> d.from]
         \/ z = [cur |-> NoVersion, prev |-> NoVersion]
  BY DEF GoesOn, NoManifest
<1>4. Shapes(o, L, e, u, z, f)
  BY <1>1, <1>2, <1>3 DEF Shapes, NoManifest
<1>5. FreshOnes(L, e, u, z, f)
  <2>1. NoVersion \notin f
    BY <1>1, RuntimeAssumption DEF Shapes
  <2>2. QED
    BY <1>3, <2>1 DEF Held, FreshOnes, GoesOn
<1>6. NonceInv(L, e)
  <2>1. CASE e.nonce = d.nonce
    BY <1>2, <2>1 DEF Held, NonceInv, GoesOn, Unsaid, RollPcs
  <2>2. CASE e.nonce = d.nonce + 1
    <3>1. \A q \in L : q.nonce <= e.nonce /\ q.nonce # e.nonce
      BY <1>2, <2>2 DEF Held, NonceInv
    <3>2. QED
      BY <3>1 DEF NonceInv
  <2>3. QED
    BY <2>1, <2>2 DEF GoesOn
<1>7. NewInv(L, e, z)
  BY DEF Held, NewInv, GoesOn, ActivationPcs, ActPcs, RollPcs
<1>8. QED
  BY <1>4, <1>5, <1>6, <1>7

LEMMA GoesOnRetired ==
  ASSUME NEW rank \in Ranks, NEW o, NEW L, NEW b, NEW d, NEW t, NEW a, NEW f,
         Held(rank, o, L, b, d, t, a, f),
         NEW e \in DepType, NEW u, NEW z, GoesOn(o, d, e, t, u, a, z)
  PROVE  RetiredInv(o, L, e, z)
<1> SUFFICES ASSUME NEW s \in L, Dead(s, e)
             PROVE  /\ o.active # s.from /\ z.cur # s.from /\ z.prev # s.from
                    /\ \A p \in L : ~LeadsTo(p, o, s.from)
                    /\ e.pc \in ActPcs => e.from # s.from
                    /\ e.pc \in RollPcs \cup {"manifest"} => e.from # s.from /\ e.to # s.from
  BY DEF RetiredInv
<1>1. s.rpc = "restore" /\ s.from # NoVersion
  BY RuntimeAssumption DEF Dead, Held, Shapes, Queries
<1>2. CASE Dead(s, d)
  <2>1. /\ o.active # s.from /\ a.cur # s.from /\ a.prev # s.from
        /\ \A p \in L : ~LeadsTo(p, o, s.from)
        /\ d.pc \in ActPcs => d.from # s.from
        /\ d.pc \in RollPcs \cup {"manifest"} => d.from # s.from /\ d.to # s.from
    BY <1>2 DEF Held, RetiredInv
  <2>2. z.cur # s.from /\ z.prev # s.from
    BY <1>1, <2>1 DEF GoesOn, NoManifest
  <2>3. /\ e.pc \in ActPcs => e.from # s.from
        /\ e.pc \in RollPcs \cup {"manifest"} => e.from # s.from /\ e.to # s.from
    BY <2>1 DEF GoesOn, ActPcs, RollPcs
  <2>4. QED
    BY <2>1, <2>2, <2>3
<1>3. CASE ~Dead(s, d)
  <2>1. d.pc \in ActPcs /\ d.to = s.from
    BY <1>1, <1>3 DEF Dead
  <2>2. d.pc = "verify" /\ e.pc = "idle" /\ o.state = "active" /\ o.active = d.from /\ z = a
    BY <1>1, <2>1 DEF GoesOn, Dead, ActPcs, RollPcs
  <2>3. d.from # d.to
    BY <2>1, DuringActivation
  <2>4. \A p \in L : ~LeadsTo(p, o, s.from)
    BY <2>1, <2>2 DEF LeadsTo, Held, NewInv, ActivationPcs, Transition
  <2>5. a.cur # s.from /\ a.prev # s.from
    BY <2>1 DEF Held, NewInv, ActivationPcs
  <2>6. QED
    BY <2>1, <2>2, <2>3, <2>4, <2>5 DEF ActPcs, RollPcs
<1>4. QED
  BY <1>2, <1>3

LEMMA GoesOnOrder ==
  ASSUME NEW rank \in Ranks, NEW o, NEW L, NEW b, NEW d, NEW t, NEW a, NEW f,
         Held(rank, o, L, b, d, t, a, f),
         NEW e \in DepType, NEW u, NEW z, GoesOn(o, d, e, t, u, a, z)
  PROVE  Ordered(rank, o, L, e, z, f) /\ Astray(rank, o, L, e)
<1>1. /\ d.nonce \in Nat /\ d.nonce <= e.nonce /\ e.nonce \in Nat
      /\ \A v \in Version : rank[v] \in Nat
  BY DEF Held, Shapes, DepType, GoesOn, Ranks
<1>2. \A v \in Version \ f : rank[v] <= e.nonce
  <2>1. \A v \in Version \ f : rank[v] <= d.nonce
    BY DEF Held, Ordered
  <2>2. QED
    BY <1>1, <2>1
<1>3. z # NoManifest => rank[z.prev] < rank[z.cur]
  <2>1. z = a \/ z = NoManifest \/ (d.pc = "manifest" /\ z.cur = d.to /\ z.prev = d.from)
    BY DEF GoesOn
  <2>2. QED
    BY <2>1 DEF Held, Ordered
<1>4. /\ e.pc \in RollPcs => rank[e.to] < rank[e.from]
      /\ e.pc \in ActivationPcs \cup {"manifest"} => rank[e.from] < rank[e.to]
  BY DEF Held, Ordered, GoesOn, RollPcs, ActivationPcs, ActPcs
<1>5. Ordered(rank, o, L, e, z, f)
  BY <1>2, <1>3, <1>4 DEF Held, Ordered, GoesOn, RollPcs
<1>6. Astray(rank, o, L, e)
  BY DEF Held, Astray, OwnBegin, AlienBegin, GoesOn, ActPcs, RollPcs
<1>7. QED
  BY <1>5, <1>6

LEMMA GoesOnPlace ==
  ASSUME NEW rank \in Ranks, NEW o, NEW L, NEW b, NEW d, NEW t, NEW a, NEW f,
         Held(rank, o, L, b, d, t, a, f),
         NEW e \in DepType, NEW u, NEW z, GoesOn(o, d, e, t, u, a, z)
  PROVE  /\ RestoreInv(o, L, e) /\ PlaceInv(e, u)
         /\ ~b => Sighted(o, L, e, u)
<1>1. PlaceInv(e, u)
  BY DEF Held, PlaceInv, GoesOn, AtFrom, RollPcs
<1>2. RestoreInv(o, L, e)
  <2>1. RestoreInv(o, L, d) /\ RowInv(o) /\ o \in OwnRow /\ NoVersion \notin Version
    BY RuntimeAssumption DEF Held, Shapes
  <2>2. e.pc \in ActPcs => d.pc \in ActPcs
    BY DEF GoesOn, ActPcs, RollPcs
  <2>3. e.pc = "restore" /\ o.active \in {e.from, e.to} => e.gen = e.from
    <3>1. SUFFICES ASSUME e.pc = "restore", o.active \in {d.from, d.to}
                   PROVE  e.gen = d.from
      BY DEF GoesOn
    <3>2. d.pc = "read" /\ e.gen = (IF o.prev # NoVersion THEN o.prev ELSE o.gen)
      BY <3>1 DEF GoesOn
    <3>3. o.prev \in {NoVersion, d.from} /\ (o.active = d.to => o.prev = d.from)
          /\ d.from # NoVersion
      BY <2>1, <3>1, <3>2 DEF RestoreInv, ActPcs, Held, Shapes, DepType
    <3>4. o.prev = NoVersion => o.gen = o.active /\ o.active = d.from
      BY <2>1, <3>1, <3>3 DEF RowInv, OwnRow, State
    <3>5. QED
      BY <3>2, <3>3, <3>4
  <2>4. ASSUME NEW s \in L, s.rpc = "restore"
        PROVE  \/ s.gen = s.to
               \/ /\ e.pc \in ActPcs /\ e.to = s.from /\ e.from = s.to
                  /\ o.active \notin {s.from, s.to}
    <3>1. CASE s.gen = s.to
      BY <3>1
    <3>2. CASE /\ d.pc \in ActPcs /\ d.to = s.from /\ d.from = s.to
               /\ o.active \notin {s.from, s.to}
      BY <3>2 DEF GoesOn, ActPcs, RollPcs
    <3>3. QED
      BY <2>1, <2>4, <3>1, <3>2 DEF RestoreInv
  <2>5. QED
    BY <2>1, <2>2, <2>3, <2>4 DEF RestoreInv, GoesOn
<1>3. ASSUME ~b PROVE Sighted(o, L, e, u)
  <2>1. Sighted(o, L, d, t) /\ NonceInv(L, d) /\ PlaceInv(d, t)
    BY <1>3 DEF Held
  <2>2. CASE d.pc = "deploy"
    BY <2>1, <2>2 DEF Sighted, NonceInv, GoesOn, ActPcs, RollPcs
  <2>3. CASE d.pc = "redeploy"
    BY <2>1, <2>3 DEF Sighted, GoesOn, ActPcs, RollPcs
  <2>4. CASE d.pc = "route"
    BY <2>1, <2>4 DEF Sighted, NonceInv, GoesOn, ActPcs, RollPcs
  <2>5. CASE d.pc = "cleanup"
    BY <2>1, <2>5 DEF Sighted, GoesOn, ActPcs, RollPcs
  <2>6. CASE d.pc \notin {"deploy", "redeploy", "route", "cleanup"}
    BY <2>1, <2>6 DEF Sighted, GoesOn, ActPcs, RollPcs
  <2>7. QED
    BY <2>2, <2>3, <2>4, <2>5, <2>6
<1>4. QED
  BY <1>1, <1>2, <1>3

LEMMA GoesOnTrans ==
  ASSUME LeaseInv, TransInv, UNCHANGED <<own, late, blind, fresh>>, dep' \in DepType,
         GoesOn(own, dep, dep', traffic, traffic', accepted, accepted')
  PROVE  TransInv'
<1>1. PICK rank \in Ranks : Held(rank, own, late, blind, dep, traffic, accepted, fresh)
  BY DEF TransInv
<1>2. RowInv(own)
  BY <1>1 DEF Held
<1>3. Held(rank, own, late, blind, dep', traffic', accepted', fresh)
  BY <1>1, <1>2, GoesOnCalls, GoesOnRetired, GoesOnOrder, GoesOnPlace DEF Held
<1>4. QED
  BY <1>3 DEF TransInv

\* What is left of a script besides its calls, its beginnings and its death.
LEMMA ScriptTrans ==
  ASSUME LeaseInv, TransInv,
         \/ Switch("deploy", dep.to, "finish", "redeploy") \/ Redeploy
         \/ Switch("route", dep.to, "rolled", "cleanup") \/ Cleanup
         \/ Manifest \/ RolledBack \/ ReadRestored \/ VerifyRestored \/ Inspect \/ Killed
  PROVE  TransInv'
<1>0. dep \in DepType /\ dep.nonce \in Nat /\ own.gen \in Null /\ own.prev \in Null
  BY DepKnows DEF LeaseInv, Typed, DepType
<1>1. UNCHANGED <<own, late, blind, fresh>>
  BY DEF Switch, Redeploy, Cleanup, Manifest, RolledBack, ReadRestored, VerifyRestored,
         Inspect, Killed, settled, workers
<1>2. CASE \E x \in Pc : dep' = [dep EXCEPT !.pc = x]
  <2>1. PICK x \in Pc : dep' = [dep EXCEPT !.pc = x]
    BY <1>2
  <2>2. dep' \in DepType /\ Same(dep', dep) /\ dep'.pc = x
    BY <1>0, <2>1 DEF DepType, Same
  <2>3. CASE Switch("deploy", dep.to, "finish", "redeploy") \/ Redeploy
             \/ Switch("route", dep.to, "rolled", "cleanup") \/ Cleanup
    <3>1. /\ accepted' = accepted
          /\ \/ dep.pc = "deploy" /\ traffic' = dep.to /\ dep' = [dep EXCEPT !.pc = "finish"]
             \/ dep.pc = "deploy" /\ traffic' \in {traffic, dep.to} /\ dep' = [dep EXCEPT !.pc = "redeploy"]
             \/ dep.pc = "redeploy" /\ traffic' = dep.from /\ dep' = [dep EXCEPT !.pc = "read"]
             \/ dep.pc = "redeploy" /\ traffic' \in {traffic, dep.from} /\ dep' = [dep EXCEPT !.pc = "redeploy"]
             \/ dep.pc = "route" /\ traffic' = dep.to /\ dep' = [dep EXCEPT !.pc = "rolled"]
             \/ dep.pc = "route" /\ traffic' \in {traffic, dep.to} /\ dep' = [dep EXCEPT !.pc = "cleanup"]
             \/ dep.pc = "cleanup" /\ traffic' = dep.from /\ dep' = [dep EXCEPT !.pc = "inspect"]
             \/ dep.pc = "cleanup" /\ traffic' \in {traffic, dep.from} /\ dep' = [dep EXCEPT !.pc = "idle"]
      BY <2>3 DEF Switch, Redeploy, Cleanup, Goto
    <3>2. GoesOn(own, dep, dep', traffic, traffic', accepted, accepted')
      BY <1>0, <2>2, <3>1 DEF GoesOn, Same, DepType
    <3>3. QED
      BY <1>1, <2>2, <3>2, GoesOnTrans
  <2>4. CASE Manifest \/ RolledBack
    BY <1>0, <1>1, <2>2, <2>4, GoesOnTrans DEF Manifest, RolledBack, Goto, GoesOn, Same, DepType
  <2>5. CASE VerifyRestored
    <3>1. /\ dep.pc = "verify" /\ UNCHANGED <<traffic, accepted>>
          /\ \/ dep' = [dep EXCEPT !.pc = "idle"] /\ own.state = "active" /\ own.active = dep.from
             \/ dep' = [dep EXCEPT !.pc = "redeploy"]
      BY <2>5 DEF VerifyRestored, Goto
    <3>2. GoesOn(own, dep, dep', traffic, traffic', accepted, accepted')
      BY <1>0, <2>2, <3>1 DEF GoesOn, Same, DepType
    <3>3. QED
      BY <1>1, <2>2, <3>2, GoesOnTrans
  <2>6. CASE Inspect \/ Killed
    <3>1. /\ dep.pc \in RollPcs /\ UNCHANGED <<traffic, accepted>>
          /\ \/ dep.pc = "inspect" /\ dep' = [dep EXCEPT !.pc = "abort"]
             \/ dep.pc = "inspect" /\ dep' = [dep EXCEPT !.pc = "again", !.nonce = @ + 1]
             \/ dep' = [dep EXCEPT !.pc = "idle"]
      BY <2>6 DEF Inspect, Killed, Goto, RollPcs
    <3>2. dep' # [dep EXCEPT !.pc = "again", !.nonce = @ + 1]
      <4> SUFFICES ASSUME dep' = [dep EXCEPT !.pc = "again", !.nonce = dep.nonce + 1]
                   PROVE  FALSE
        OBVIOUS
      <4>1. dep' = [pc |-> "again", from |-> dep.from, to |-> dep.to, gen |-> dep.gen,
                    nonce |-> dep.nonce + 1]
        BY DepKnows, Zenon
      <4>2. dep.nonce # dep.nonce + 1
        BY <1>0
      <4>3. QED
        BY <2>2, <4>1, <4>2 DEF Same
    <3>3. GoesOn(own, dep, dep', traffic, traffic', accepted, accepted')
      BY <1>0, <2>2, <3>1, <3>2 DEF GoesOn, Same, DepType
    <3>4. QED
      BY <1>1, <2>2, <3>3, GoesOnTrans
  <2>7. CASE ReadRestored
    <3>1. /\ dep.pc = "read" /\ UNCHANGED <<traffic, accepted>>
          /\ dep' = [dep EXCEPT !.pc = "restore",
                       !.gen = IF own.prev # NoVersion THEN own.prev ELSE own.gen]
      BY <2>7 DEF ReadRestored
    <3>2. /\ dep'.pc = "restore"
          /\ dep'.gen = (IF own.prev # NoVersion THEN own.prev ELSE own.gen)
      BY <1>0, <3>1 DEF DepType
    <3>3. GoesOn(own, dep, dep', traffic, traffic', accepted, accepted')
      BY <2>2, <3>1, <3>2 DEF GoesOn, Same
    <3>4. QED
      BY <1>1, <2>2, <3>3, GoesOnTrans
  <2>8. QED
    BY <2>3, <2>4, <2>5, <2>6, <2>7
<1>3. CASE ReadRestored
  <2>1. /\ dep.pc = "read" /\ UNCHANGED <<traffic, accepted>>
        /\ dep' = [dep EXCEPT !.pc = "restore",
                     !.gen = IF own.prev # NoVersion THEN own.prev ELSE own.gen]
    BY <1>3 DEF ReadRestored
  <2>2. /\ dep'.pc = "restore" /\ dep'.from = dep.from /\ dep'.to = dep.to
        /\ dep'.nonce = dep.nonce /\ dep' \in DepType
        /\ dep'.gen = (IF own.prev # NoVersion THEN own.prev ELSE own.gen)
    BY <1>0, <2>1 DEF DepType, Pc
  <2>3. GoesOn(own, dep, dep', traffic, traffic', accepted, accepted')
    BY <2>1, <2>2 DEF GoesOn
  <2>4. QED
    BY <1>1, <2>2, <2>3, GoesOnTrans
<1>4. CASE /\ Inspect
           /\ dep' = [dep EXCEPT !.pc = "again", !.nonce = @ + 1]
  <2>1. /\ dep.pc = "inspect" /\ UNCHANGED <<traffic, accepted>>
        /\ dep' = [dep EXCEPT !.pc = "again", !.nonce = dep.nonce + 1]
    BY <1>4 DEF Inspect, settled
  <2>2. dep' = [pc |-> "again", from |-> dep.from, to |-> dep.to, gen |-> dep.gen,
                nonce |-> dep.nonce + 1]
    BY <2>1, DepKnows, Zenon
  <2>3. dep' \in DepType
    BY <1>0, <2>2 DEF DepType, Pc
  <2>4. GoesOn(own, dep, dep', traffic, traffic', accepted, accepted')
    BY <2>1, <2>2 DEF GoesOn
  <2>5. QED
    BY <1>1, <2>3, <2>4, GoesOnTrans
<1>5. QED
  <2>1. CASE Inspect
    BY <2>1, <1>2, <1>4 DEF Inspect, Pc
  <2>2. CASE Switch("deploy", dep.to, "finish", "redeploy") \/ Redeploy
             \/ Switch("route", dep.to, "rolled", "cleanup") \/ Cleanup
    BY <2>2, <1>2 DEF Switch, Redeploy, Cleanup, Goto, Pc
  <2>3. CASE Manifest \/ RolledBack \/ VerifyRestored \/ Killed
    BY <2>3, <1>2 DEF Manifest, RolledBack, VerifyRestored, Killed, Goto, Pc
  <2>4. QED
    BY <1>3, <2>1, <2>2, <2>3

LEMMA StartRollbackTrans ==
  ASSUME LeaseInv, TransInv, StartRollback
  PROVE  TransInv'
<1>1. PICK rank \in Ranks : Held(rank, own, late, blind, dep, traffic, accepted, fresh)
  BY DEF TransInv
<1>2. /\ dep.pc = "idle" /\ accepted # NoManifest /\ traffic = accepted.cur
      /\ accepted \in [cur : Version, prev : Version]
      /\ dep' = [pc |-> "back", from |-> accepted.cur, to |-> accepted.prev,
                 gen |-> dep.gen, nonce |-> dep.nonce + 1]
      /\ UNCHANGED <<own, late, blind, traffic, accepted, fresh>>
  BY DEF StartRollback, settled, LeaseInv, Typed
<1>3. /\ dep'.pc = "back" /\ dep'.from = accepted.cur /\ dep'.to = accepted.prev
      /\ dep'.nonce = dep.nonce + 1 /\ dep' \in DepType /\ dep.nonce \in Nat
  BY <1>2, DepKnows DEF DepType, Pc
<1>4. /\ Shapes(own, late, dep, traffic, accepted, fresh) /\ FreshOnes(late, dep, traffic, accepted, fresh)
      /\ NonceInv(late, dep) /\ RetiredInv(own, late, dep, accepted)
      /\ Ordered(rank, own, late, dep, accepted, fresh) /\ RestoreInv(own, late, dep)
      /\ (~blind => Sighted(own, late, dep, traffic))
  BY <1>1 DEF Held
<1>5. \A q \in late : q.nonce <= dep'.nonce /\ q.nonce # dep'.nonce
  BY <1>3, <1>4 DEF NonceInv, Shapes, Queries
<1>6. Shapes(own, late, dep', traffic, accepted, fresh) /\ FreshOnes(late, dep', traffic, accepted, fresh)
  BY <1>3, <1>4 DEF Shapes, FreshOnes
<1>7. NonceInv(late, dep') /\ NewInv(late, dep', accepted)
  BY <1>3, <1>5 DEF NonceInv, NewInv, ActivationPcs, ActPcs
<1>8. RetiredInv(own, late, dep', accepted)
  BY <1>2, <1>3, <1>4 DEF RetiredInv, Dead, ActPcs
<1>9. Ordered(rank, own, late, dep', accepted, fresh) /\ Astray(rank, own, late, dep')
  <2>1. \A v \in Version \ fresh : rank[v] <= dep'.nonce
    BY <1>3, <1>4 DEF Ordered, Ranks
  <2>2. QED
    BY <1>2, <1>3, <1>4, <2>1 DEF Ordered, Astray, ActPcs, ActivationPcs
<1>10. RestoreInv(own, late, dep') /\ PlaceInv(dep', traffic)
       /\ (~blind => Sighted(own, late, dep', traffic))
  BY <1>2, <1>3, <1>4 DEF RestoreInv, PlaceInv, Sighted, ActPcs
<1>11. Held(rank, own, late, blind, dep', traffic, accepted, fresh)
  BY <1>1, <1>6, <1>7, <1>8, <1>9, <1>10 DEF Held
<1>12. QED
  BY <1>2, <1>11 DEF TransInv

LEMMA CurlTrans ==
  ASSUME LeaseInv, TransInv, Curl
  PROVE  TransInv'
BY CallTrans DEF Curl

-----------------------------------------------------------------------------
LEMMA InitTrans == RInit => TransInv
<1> SUFFICES ASSUME RInit PROVE TransInv
  OBVIOUS
<1> USE RuntimeAssumption DEF RInit
<1> DEFINE rank == [v \in Version |-> 0]
<1>1. rank \in Ranks /\ \A v \in Version : rank[v] = 0
  BY DEF Ranks
<1> HIDE DEF rank
<1>2. Typed
  BY InitHolds DEF LeaseInv
<1>3. /\ Shapes(own, late, dep, traffic, accepted, fresh) /\ RowInv(own)
      /\ FreshOnes(late, dep, traffic, accepted, fresh)
  BY <1>2 DEF Typed, Shapes, RowInv, FreshOnes, Transition, NoManifest, DepType
<1>4. NonceInv(late, dep) /\ NewInv(late, dep, accepted) /\ RetiredInv(own, late, dep, accepted)
  BY DEF NonceInv, NewInv, RetiredInv, Unsaid, ActivationPcs, ActPcs
<1>5. /\ Ordered(rank, own, late, dep, accepted, fresh) /\ Astray(rank, own, late, dep)
      /\ RestoreInv(own, late, dep)
  BY <1>1 DEF Ordered, Astray, RestoreInv, ActPcs, RollPcs, ActivationPcs
<1>6. PlaceInv(dep, traffic) /\ Sighted(own, late, dep, traffic)
  BY DEF PlaceInv, Sighted, AtFrom, ActPcs
<1>7. Held(rank, own, late, blind, dep, traffic, accepted, fresh)
  BY <1>3, <1>4, <1>5, <1>6 DEF Held
<1>8. QED
  BY <1>1, <1>7 DEF TransInv

LEMMA StepTrans == LeaseInv /\ TransInv /\ [RNext]_rvars => TransInv'
<1> SUFFICES ASSUME LeaseInv, TransInv, [RNext]_rvars PROVE TransInv'
  OBVIOUS
<1>1. CASE \E i \in Invocation : OnLease(i)
  <2>1. PICK i \in Invocation : OnLease(i)
    BY <1>1
  <2>2. own' \in OwnRow
    BY <2>1, AcquireKeeps, ReleaseKeeps, AbandonKeeps, ReapReadsKeeps, ReapWritesKeeps
       DEF OnLease, LeaseInv, Typed
  <2>3. QED
    BY <2>1, <2>2, LeasesTrans
<1>2. CASE \E v \in Version : Upload(v)
  BY <1>2, UploadTrans
<1>3. CASE Activate \/ Restore
  BY <1>3, ActivateCurls, CurlTrans, ScriptTrans
<1>4. CASE Redeploy \/ Cleanup \/ Manifest \/ RolledBack \/ ReadRestored \/ VerifyRestored
           \/ Inspect \/ Killed
  BY <1>4, ScriptTrans
<1>5. CASE StartRollback
  BY <1>5, StartRollbackTrans
<1>6. CASE Rollback \/ Recover
  BY <1>6, RollbackCurls, CurlTrans, ScriptTrans
<1>7. CASE \E q \in late : Land(q)
  BY <1>7, LandTrans
<1>8. CASE UNCHANGED rvars
  BY <1>8 DEF rvars, TransInv
<1>9. QED
  BY <1>1, <1>2, <1>3, <1>4, <1>5, <1>6, <1>7, <1>8 DEF RNext

\* The version that gets the webhooks may take them in, or the row was moved by
\* a call nobody knows to have taken effect: for any number of versions,
\* transitions, lost and late calls.
THEOREM TrafficAdmitted == RSpec => []IntakeGapNeedsBlindness
<1>1. TransInv => IntakeGapNeedsBlindness
  <2> SUFFICES ASSUME TransInv, ~blind PROVE MayIntake(traffic)
    BY DEF IntakeGapNeedsBlindness
  <2>1. RowInv(own) /\ own \in OwnRow /\ traffic \in {own.active, own.pend} /\ traffic \in Version
    BY DEF TransInv, Held, Sighted, Shapes
  <2>2. own.active \in {own.gen, own.prev}
    BY <2>1 DEF RowInv, OwnRow, State
  <2>3. QED
    BY <2>1, <2>2 DEF MayIntake
<1>2. QED
  BY <1>1, InitHolds, StepKeeps, InitTrans, StepTrans, PTL DEF RSpec

-----------------------------------------------------------------------------
(* What the row, the calls and the counter range over *)

\* Every generation named is an uploaded version's.
GenInv ==
  /\ own.gen \in Version /\ dep.gen \in Version
  /\ \A q \in late : q.gen \in Version

NonceBound ==
  /\ own.nonce <= MaxNonce + 1 /\ dep.nonce <= MaxNonce + 1
  /\ \A q \in late : q.nonce <= MaxNonce + 1
  /\ dep.pc \notin {"idle", "again", "regained"} => dep.nonce <= MaxNonce

LossInv == lost \in 0..MaxLost /\ IsFiniteSet(late) /\ Cardinality(late) <= lost

\* After a reaping that raced the count may exceed the leases, by as many as
\* there were invocations.
CountInv ==
  /\ own.count <= Cardinality(Invocation) + Cardinality(Leased)
  /\ reap # NoReap => ~raced /\ reap.count <= Cardinality(Invocation)

RangeInv == GenInv /\ NonceBound /\ LossInv /\ CountInv

LEMMA Bounds ==
  /\ Cardinality(Invocation) \in Nat /\ Cardinality(Leased) <= Cardinality(Invocation)
  /\ MaxNonce \in Nat /\ MaxLost \in Nat
<1>1. Leased \subseteq Invocation
  BY DEF Leased
<1>2. QED
  BY <1>1, RuntimeAssumption, FS_Subset, FS_CardinalityType

LEMMA EffectRange ==
  ASSUME Typed, own.gen \in Version, own.nonce <= MaxNonce + 1,
         NEW q \in Queries, q.gen \in Version, q.nonce <= MaxNonce + 1, NEW r \in Effect(q)
  PROVE  r.gen \in Version /\ r.nonce <= MaxNonce + 1 /\ r.count \in {own.count, 0}
<1>1. own \in OwnRow /\ r \in OwnRow /\ Moves(own, q, r)
  BY EffectMoves DEF Typed
<1>2. r.gen \in Version
  BY <1>1 DEF Moves, OwnRow, Null, Queries
<1>3. r.nonce <= MaxNonce + 1
  BY <1>1, Bounds DEF Moves, OwnRow
<1>4. r.count \in {own.count, 0}
  <2>1. CASE q.rpc \in {"prepare", "begin", "abort", "cancel"}
    BY <1>1, <2>1 DEF Effect, Prepared, Begun, Aborted, Cancelled, If, OwnRow
  <2>2. CASE q.rpc \in {"finish", "restore"}
    BY <1>1, <2>2 DEF Effect, Finished, Restored, Settled, If, OwnRow
  <2>3. QED
    BY <2>1, <2>2 DEF Queries
<1>5. QED
  BY <1>2, <1>3, <1>4

\* A step that leaves the leases and the reaping, and lowers the count if anything.
LEMMA CountRests ==
  ASSUME LeaseInv, RangeInv, UNCHANGED <<lease, reap, raced>>, own'.count \in {own.count, 0}
  PROVE  CountInv'
<1>1. Leased' = Leased
  BY DEF Leased
<1>2. CountInv /\ Cardinality(Leased) \in Nat /\ own.count \in Nat
  BY LeasesFinite DEF RangeInv, LeaseInv, Typed, OwnRow
<1>3. QED
  BY <1>1, <1>2, Bounds DEF CountInv

LEMMA CurlRange ==
  ASSUME LeaseInv, RangeInv, Curl
  PROVE  RangeInv'
<1>1. PICK q \in Queries, ok \in Pc, failed \in Pc :
        /\ Call(q, ok, failed) /\ Asked(q, dep, failed)
        /\ ok = failed \/ Answered(q, dep, ok)
        /\ UNCHANGED <<workers, traffic, fresh, accepted>>
  BY DEF Curl
<1>2. Typed /\ dep \in DepType
  BY DEF LeaseInv, Typed, DepType
<1>3. GenInv /\ NonceBound /\ LossInv
  BY DEF RangeInv
<1>4. /\ dep' \in DepType /\ Same(dep', dep) /\ dep'.pc \in {ok, failed}
  <2>1. dep' = [dep EXCEPT !.pc = ok] \/ dep' = [dep EXCEPT !.pc = failed]
    BY <1>1 DEF Call
  <2>2. QED
    BY <2>1, <1>2 DEF DepType, Same
<1>5. q.gen \in Version /\ q.nonce = dep.nonce
  BY <1>1, <1>2, <1>3 DEF Asked, GenInv, DepType
<1>6. own' = own \/ own' \in Effect(q)
  BY <1>1 DEF Call
<1>7. own'.gen \in Version /\ own'.nonce <= MaxNonce + 1 /\ own'.count \in {own.count, 0}
  <2>1. own.gen \in Version /\ own.nonce <= MaxNonce + 1 /\ q.nonce <= MaxNonce + 1
    BY <1>3, <1>5 DEF GenInv, NonceBound
  <2>2. QED
    BY <1>2, <1>5, <1>6, <2>1, EffectRange
<1>8. \A p \in late' : p \in late \/ p = q
  BY <1>1 DEF Call
<1>9. GenInv'
  BY <1>3, <1>4, <1>5, <1>7, <1>8 DEF GenInv, Same
<1>10. NonceBound'
  <2>1. dep.pc \in {"again", "regained"} => dep'.pc \in {"idle", "regained"}
    BY <1>1, <1>4 DEF Asked, Answered
  <2>2. dep.pc # "idle"
    BY <1>1 DEF Asked
  <2>3. QED
    BY <1>3, <1>4, <1>5, <1>7, <1>8, <2>1, <2>2 DEF NonceBound, Same
<1>11. LossInv'
  <2>1. CASE UNCHANGED <<late, lost>>
    BY <1>3, <2>1 DEF LossInv
  <2>2. CASE lost < MaxLost /\ lost' = lost + 1 /\ late' \in {late, late \cup {q}}
    <3>1. IsFiniteSet(late') /\ Cardinality(late') \in Nat /\ Cardinality(late') <= Cardinality(late) + 1
      BY <1>3, <2>2, FS_AddElement, FS_CardinalityType DEF LossInv
    <3>2. Cardinality(late) \in Nat
      BY <1>3, FS_CardinalityType DEF LossInv
    <3>3. QED
      BY <1>3, <2>2, <3>1, <3>2, Bounds DEF LossInv
  <2>3. QED
    BY <1>1, <2>1, <2>2 DEF Call
<1>12. CountInv'
  BY <1>1, <1>7, CountRests DEF workers
<1>13. QED
  BY <1>9, <1>10, <1>11, <1>12 DEF RangeInv

LEMMA LandRange ==
  ASSUME LeaseInv, RangeInv, NEW q \in late, Land(q)
  PROVE  RangeInv'
<1>1. Typed /\ q \in Queries /\ GenInv /\ NonceBound /\ LossInv
  BY DEF LeaseInv, Typed, RangeInv
<1>2. /\ late' = late \ {q} /\ UNCHANGED <<workers, dep, lost>>
      /\ own' = own \/ own' \in Effect(q)
  BY DEF Land
<1>3. own'.gen \in Version /\ own'.nonce <= MaxNonce + 1 /\ own'.count \in {own.count, 0}
  <2>1. /\ own.gen \in Version /\ own.nonce <= MaxNonce + 1
        /\ q.gen \in Version /\ q.nonce <= MaxNonce + 1
    BY <1>1 DEF GenInv, NonceBound
  <2>2. QED
    BY <1>1, <1>2, <2>1, EffectRange
<1>4. GenInv' /\ NonceBound'
  BY <1>1, <1>2, <1>3 DEF GenInv, NonceBound
<1>5. LossInv'
  <2>1. IsFiniteSet(late') /\ Cardinality(late') <= Cardinality(late)
        /\ Cardinality(late) \in Nat /\ Cardinality(late') \in Nat
    <3>1. late' \subseteq late /\ IsFiniteSet(late)
      BY <1>1, <1>2 DEF LossInv
    <3>2. QED
      BY <3>1, FS_Subset, FS_CardinalityType
  <2>2. QED
    BY <1>1, <1>2, <2>1, Bounds DEF LossInv
<1>6. CountInv'
  BY <1>2, <1>3, CountRests DEF workers
<1>7. QED
  BY <1>4, <1>5, <1>6 DEF RangeInv

LEMMA LeasesRange ==
  ASSUME LeaseInv, RangeInv, NEW i \in Invocation, OnLease(i)
  PROVE  RangeInv'
<1>0. /\ own \in OwnRow /\ lease \in [Invocation -> Null] /\ reap.count \in Nat
      /\ own.count \in Nat /\ Cardinality(Leased) \in Nat /\ IsFiniteSet(Leased)
      /\ (~raced => own.count = Cardinality(Leased))
      /\ own.active # NoVersion
  BY LeasesFinite, RuntimeAssumption DEF LeaseInv, Typed, HoldsLease, Agrees, OwnRow
<1>1. UNCHANGED <<dep, late, lost>>
  BY DEF OnLease, Acquire, Release, Abandon, ReapReads, ReapWrites, quietly
<1>2. own' = own \/ \E n : own' = [own EXCEPT !.count = n]
  BY DEF OnLease, Acquire, Release, Abandon, ReapReads, ReapWrites
<1>3. own'.gen = own.gen /\ own'.nonce = own.nonce
  BY <1>0, <1>2 DEF OwnRow
<1>4. GenInv' /\ NonceBound' /\ LossInv'
  BY <1>1, <1>3 DEF RangeInv, GenInv, NonceBound, LossInv
<1>5. CountInv
  BY DEF RangeInv
<1>6. CASE Acquire(i)
  <2>1. /\ own'.count = own.count + 1 /\ UNCHANGED <<reap, raced>>
        /\ lease' = [lease EXCEPT ![i] = own.active] /\ lease[i] = NoVersion
    BY <1>0, <1>6 DEF Acquire, OwnRow
  <2>2. Leased' = Leased \cup {i} /\ i \notin Leased
    BY <1>0, <2>1 DEF Leased
  <2>3. Cardinality(Leased') = Cardinality(Leased) + 1
    BY <1>0, <2>2, FS_AddElement
  <2>4. QED
    BY <1>0, <1>4, <1>5, <2>1, <2>3, Bounds DEF RangeInv, CountInv
<1>7. CASE Release(i)
  <2>1. /\ own'.count = (IF own.count > 0 THEN own.count - 1 ELSE 0) /\ UNCHANGED <<reap, raced>>
        /\ lease' = [lease EXCEPT ![i] = NoVersion] /\ lease[i] # NoVersion
    BY <1>0, <1>7 DEF Release, OwnRow
  <2>2. Leased' = Leased \ {i} /\ i \in Leased
    BY <1>0, <2>1 DEF Leased
  <2>3. Cardinality(Leased') = Cardinality(Leased) - 1 /\ Cardinality(Leased') \in Nat
    BY <1>0, <2>2, FS_RemoveElement, FS_CardinalityType
  <2>4. own'.count <= Cardinality(Invocation) + Cardinality(Leased')
    BY <1>0, <1>5, <2>1, <2>3, Bounds DEF CountInv
  <2>5. QED
    BY <1>4, <1>5, <2>1, <2>4 DEF RangeInv, CountInv
<1>8. CASE Abandon(i)
  BY <1>4, <1>5, <1>8 DEF Abandon, RangeInv, CountInv, Leased
<1>9. CASE ReapReads(i)
  <2>1. /\ ~raced /\ reap'.count = Cardinality(Leased \ {i}) /\ UNCHANGED <<own, lease, raced>>
    BY <1>9 DEF ReapReads
  <2>2. Cardinality(Leased \ {i}) <= Cardinality(Leased) /\ Cardinality(Leased \ {i}) \in Nat
    BY <1>0, FS_Subset, FS_CardinalityType
  <2>3. reap'.count <= Cardinality(Invocation)
    BY <1>0, <2>1, <2>2, Bounds
  <2>4. QED
    BY <1>4, <1>5, <2>1, <2>3 DEF RangeInv, CountInv, Leased
<1>10. CASE ReapWrites(i)
  <2>1. /\ reap # NoReap /\ reap' = NoReap
        /\ own' = own \/ own' = [own EXCEPT !.count = reap.count]
        /\ lease' = [lease EXCEPT ![i] = NoVersion]
    BY <1>10 DEF ReapWrites, NoReap
  <2>2. ~raced /\ reap.count <= Cardinality(Invocation)
    BY <1>5, <2>1 DEF CountInv
  <2>3. own'.count \in Nat /\ own'.count <= Cardinality(Invocation)
    <3>1. own'.count \in {own.count, reap.count}
      BY <1>0, <2>1 DEF OwnRow
    <3>2. QED
      BY <1>0, <2>2, <3>1, Bounds
  <2>4. Leased' \subseteq Leased
    BY <1>0, <2>1 DEF Leased
  <2>5. Cardinality(Leased') \in Nat
    BY <1>0, <2>4, FS_Subset, FS_CardinalityType
  <2>6. own'.count <= Cardinality(Invocation) + Cardinality(Leased')
    BY <2>3, <2>5, Bounds
  <2>7. QED
    BY <1>4, <2>1, <2>6 DEF RangeInv, CountInv
<1>11. QED
  BY <1>6, <1>7, <1>8, <1>9, <1>10 DEF OnLease

\* The scripts between their calls.
LEMMA ScriptRange ==
  ASSUME LeaseInv, RangeInv,
         \/ Switch("deploy", dep.to, "finish", "redeploy") \/ Redeploy
         \/ Switch("route", dep.to, "rolled", "cleanup") \/ Cleanup
         \/ Manifest \/ RolledBack \/ ReadRestored \/ VerifyRestored \/ Inspect
         \/ StartRollback \/ Killed \/ \E v \in Version : Upload(v)
  PROVE  RangeInv'
<1>0. /\ dep.pc \in Pc /\ dep.nonce \in Nat /\ dep \in DepType
      /\ own.gen \in Version /\ dep.gen \in Version /\ own.prev \in Null
  BY DepKnows DEF LeaseInv, Typed, DepType, RangeInv, GenInv
<1>1. UNCHANGED <<own, late, lease, reap, raced>>
  BY DEF Switch, Redeploy, Cleanup, Manifest, RolledBack, ReadRestored, VerifyRestored,
         Inspect, StartRollback, Killed, Upload, settled, workers
<1>2. LossInv'
  <2>1. lost' = lost \/ (lost < MaxLost /\ lost' = lost + 1)
    BY DEF Switch, Redeploy, Cleanup, Manifest, RolledBack, ReadRestored, VerifyRestored,
           Inspect, StartRollback, Killed, Upload, settled
  <2>2. LossInv /\ Cardinality(late) \in Nat
    BY FS_CardinalityType DEF RangeInv, LossInv
  <2>3. lost' \in 0..MaxLost /\ Cardinality(late) <= lost'
    BY <2>1, <2>2, Bounds DEF LossInv
  <2>4. QED
    BY <1>1, <2>2, <2>3 DEF LossInv
<1>3. CountInv'
  BY <1>1, CountRests
<1>4. /\ dep'.gen \in Version
      /\ \/ dep'.nonce = dep.nonce /\ dep.pc \notin {"idle", "again", "regained"}
         \/ dep'.nonce = dep.nonce /\ dep'.pc = "idle"
         \/ dep'.nonce = dep.nonce + 1 /\ dep.nonce < MaxNonce
         \/ dep'.nonce = dep.nonce + 1 /\ dep'.pc = "again" /\ dep.pc = "inspect"
  <2>1. CASE \E x \in Pc : /\ dep' = [dep EXCEPT !.pc = x]
                           /\ x = "idle" \/ dep.pc \notin {"idle", "again", "regained"}
    BY <1>0, <2>1 DEF DepType
  <2>2. CASE ReadRestored
    <3>1. /\ dep.pc = "read"
          /\ dep' = [dep EXCEPT !.pc = "restore",
                       !.gen = IF own.prev # NoVersion THEN own.prev ELSE own.gen]
      BY <2>2 DEF ReadRestored
    <3>2. (IF own.prev # NoVersion THEN own.prev ELSE own.gen) \in Version
      BY <1>0 DEF Null
    <3>3. QED
      BY <1>0, <3>1, <3>2 DEF DepType
  <2>3. CASE Inspect /\ dep' = [dep EXCEPT !.pc = "again", !.nonce = dep.nonce + 1]
    <3>1. dep' = [pc |-> "again", from |-> dep.from, to |-> dep.to, gen |-> dep.gen,
                  nonce |-> dep.nonce + 1]
      BY <2>3, DepKnows, Zenon
    <3>2. QED
      BY <1>0, <2>3, <3>1 DEF Inspect
  <2>4. CASE StartRollback \/ \E v \in Version : Upload(v)
    BY <1>0, <2>4 DEF StartRollback, Upload
  <2>5. QED
    <3>1. CASE Inspect
      BY <3>1, <2>1, <2>3 DEF Inspect, Pc
    <3>2. CASE Switch("deploy", dep.to, "finish", "redeploy") \/ Redeploy
               \/ Switch("route", dep.to, "rolled", "cleanup") \/ Cleanup
      BY <3>2, <2>1 DEF Switch, Redeploy, Cleanup, Goto, Pc
    <3>3. CASE Manifest \/ RolledBack \/ VerifyRestored \/ Killed
      BY <3>3, <2>1 DEF Manifest, RolledBack, VerifyRestored, Killed, Goto, Pc
    <3>4. QED
      BY <2>2, <2>4, <3>1, <3>2, <3>3
<1>5. GenInv'
  BY <1>1, <1>4 DEF RangeInv, GenInv
<1>6. NonceBound'
  BY <1>0, <1>1, <1>4, Bounds DEF RangeInv, NonceBound
<1>7. QED
  BY <1>2, <1>3, <1>5, <1>6 DEF RangeInv

LEMMA InitRange == RInit => RangeInv
<1> SUFFICES ASSUME RInit PROVE RangeInv
  OBVIOUS
<1>1. Leased = {} /\ First \in Version
  BY RuntimeAssumption DEF RInit, Leased
<1>2. GenInv /\ NonceBound
  BY <1>1, Bounds DEF RInit, GenInv, NonceBound
<1>3. LossInv /\ CountInv
  BY <1>1, Bounds, FS_EmptySet DEF RInit, LossInv, CountInv
<1>4. QED
  BY <1>2, <1>3 DEF RangeInv

LEMMA StepRange == LeaseInv /\ RangeInv /\ [RNext]_rvars => RangeInv'
<1> SUFFICES ASSUME LeaseInv, RangeInv, [RNext]_rvars PROVE RangeInv'
  OBVIOUS
<1>1. CASE \E i \in Invocation : OnLease(i)
  BY <1>1, LeasesRange
<1>2. CASE Activate \/ Restore
  BY <1>2, ActivateCurls, CurlRange, ScriptRange
<1>3. CASE Rollback \/ Recover
  BY <1>3, RollbackCurls, CurlRange, ScriptRange
<1>4. CASE \/ Redeploy \/ Cleanup \/ Manifest \/ RolledBack \/ ReadRestored \/ VerifyRestored
           \/ Inspect \/ StartRollback \/ Killed \/ \E v \in Version : Upload(v)
  BY <1>4, ScriptRange
<1>5. CASE \E q \in late : Land(q)
  BY <1>5, LandRange
<1>6. CASE UNCHANGED rvars
  BY <1>6 DEF rvars, RangeInv, GenInv, NonceBound, LossInv, CountInv, Leased
<1>7. QED
  BY <1>1, <1>2, <1>3, <1>4, <1>5, <1>6 DEF RNext

\* The row, the leases, the scripts and the calls that may still arrive keep
\* their ranges; a version is pending exactly during a transition.
THEOREM RTypeCorrect == RSpec => []RTypeOK
<1>1. LeaseInv /\ TransInv /\ RangeInv => RTypeOK
  <2> SUFFICES ASSUME LeaseInv, TransInv, RangeInv PROVE RTypeOK
    OBVIOUS
  <2>1. Typed /\ GenInv /\ NonceBound /\ LossInv /\ CountInv
    BY DEF LeaseInv, RangeInv
  <2>2. RowInv(own) /\ fresh \subseteq Version
    BY DEF TransInv, Held, Shapes
  <2>3. own.nonce \in 0..(MaxNonce + 1) /\ dep.nonce \in 0..(MaxNonce + 1)
    BY <2>1, Bounds DEF Typed, OwnRow, NonceBound
  <2>4. own.count \in 0..(2 * Cardinality(Invocation))
    <3>1. own.count \in Nat /\ Cardinality(Leased) \in Nat
      BY <2>1, LeasesFinite DEF Typed, OwnRow
    <3>2. QED
      BY <2>1, <3>1, Bounds DEF CountInv
  <2>5. own \in [state : State, active : Version, gen : Version, prev : Null, pend : Null,
                 nonce : 0..(MaxNonce + 1), count : 0..(2 * Cardinality(Invocation))]
    BY <2>1, <2>3, <2>4 DEF Typed, OwnRow, GenInv
  <2>6. QED
    BY <2>1, <2>2, <2>3, <2>5 DEF RTypeOK, Typed, RowInv, LossInv
<1>2. QED
  BY <1>1, InitHolds, StepKeeps, InitTrans, StepTrans, InitRange, StepRange, PTL DEF RSpec

-----------------------------------------------------------------------------
(* The two registries together *)

\* A behaviour of both is a behaviour of each, so what is proved of either
\* registry alone holds of the system that has both.
THEOREM HandoversSplit == HSpec => Spec /\ RSpec
<1>1. HInit => Init /\ RInit
  BY DEF HInit
<1>2. [HNext]_hvars => [Next]_vars /\ [RNext]_rvars
  BY DEF HNext, InScheduler, InRuntime, hvars
<1>3. QED
  BY <1>1, <1>2, PTL DEF HSpec, Spec, RSpec

\* Every table, script and clock of both registries keeps its range.
THEOREM HandoversTypeCorrect == HSpec => []HTypeOK
<1>1. HTypeOK <=> TypeOK /\ RTypeOK
  BY DEF HTypeOK
<1>2. QED
  BY <1>1, HandoversSplit, TypeCorrect, RTypeCorrect, PTL
=============================================================================
