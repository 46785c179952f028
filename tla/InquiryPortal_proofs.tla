------------------------ MODULE InquiryPortal_proofs ------------------------
(***************************************************************************)
(* Proofs about the inquiry application: its classification job, for any   *)
(* set of invocations, any number of rows, any page size and any positions *)
(* stored for the rows, and the thread of an inquiry, for any set of       *)
(* invocations, any length of the thread and of the inbox and any first    *)
(* situation; both for any number of faults and operator requests.         *)
(***************************************************************************)
EXTENDS InquiryPortal, FiniteSetTheorems, SequenceTheorems, WellFoundedInduction, TLAPS

(* Least and greatest elements *)

\* Sets of predecessors that strictly shrink come down to an empty one.
LEMMA Extreme ==
  ASSUME NEW S, IsFiniteSet(S), S # {}, NEW B \in [S -> SUBSET S],
         \A i \in S : \A j \in B[i] : B[j] \subseteq B[i] /\ B[j] # B[i]
  PROVE  \E m \in S : B[m] = {}
<1> DEFINE R == StrictSubsetOrdering(S)
           T == {B[i] : i \in S}
           F == FiniteSubsetsOf(S)
<1>1. IsWellFoundedOn(R, F)
  BY FS_StrictSubsetOrderingWellFounded
<1>2. T \subseteq F /\ T # {}
  <2>1. \A i \in S : B[i] \in F
    BY FS_Subset DEF FiniteSubsetsOf
  <2> QED BY <2>1
<1>3. \E x \in T : \A y \in T : ~(<<y, x>> \in R)
  <2> HIDE DEF R, T, F
  <2> QED BY <1>1, <1>2, WFMin
<1>4. PICK m \in S : \A y \in S : ~(<<B[y], B[m]>> \in R)
  BY <1>3
<1>5. ASSUME NEW y \in B[m] PROVE FALSE
  <2>1. y \in S /\ B[y] \in SUBSET S /\ B[m] \in SUBSET S
    BY <1>5
  <2>2. B[y] \subseteq B[m] /\ B[y] # B[m]
    BY <1>5
  <2> QED BY <1>4, <2>1, <2>2 DEF StrictSubsetOrdering
<1> QED BY <1>5

LEMMA RowFacts ==
  /\ Rows \in Nat /\ Limit \in Nat \ {0}
  /\ \A i \in Row : i \in Nat /\ i \in 0..Rows
  /\ IsFiniteSet(Row)
BY RowsAssumption, FS_Interval DEF Row

\* A page, and what is left of it, has a first and a last row.
LEMMA MinRow ==
  ASSUME NEW S \in SUBSET Row, S # {}
  PROVE  Min(S) \in S /\ \A j \in S : Min(S) <= j
<1> DEFINE B == [i \in S |-> {j \in S : j < i}]
<1>1. IsFiniteSet(S) /\ \A i \in S : i \in Nat
  BY RowFacts, FS_Subset
<1>2. ASSUME NEW i \in S, NEW j \in B[i] PROVE B[j] \subseteq B[i] /\ B[j] # B[i]
  <2>1. j \in S /\ j < i
    OBVIOUS
  <2>2. \A k \in S : k < j => k < i
    BY <1>1, <2>1
  <2>3. j \in B[i] /\ j \notin B[j]
    BY <1>1, <2>1
  <2> QED BY <2>1, <2>2, <2>3
<1>3. B \in [S -> SUBSET S]
  OBVIOUS
<1>4. PICK m \in S : B[m] = {}
  <2> HIDE DEF B
  <2> QED BY <1>1, <1>2, <1>3, Extreme
<1>5. \A j \in S : m <= j
  BY <1>1, <1>4
<1> QED BY <1>5 DEF Min

\* So has any set of numbers between bounds.
LEMMA Greatest ==
  ASSUME NEW n \in Nat, NEW S \in SUBSET (1..n), S # {}
  PROVE  Max(S) \in S /\ \A j \in S : j <= Max(S)
<1> DEFINE B == [i \in S |-> {j \in S : j > i}]
<1>1. IsFiniteSet(S) /\ \A i \in S : i \in Nat
  <2>1. IsFiniteSet(1..n) /\ \A i \in 1..n : i \in Nat
    BY FS_Interval
  <2> QED BY <2>1, FS_Subset
<1>2. ASSUME NEW i \in S, NEW j \in B[i] PROVE B[j] \subseteq B[i] /\ B[j] # B[i]
  <2>1. j \in S /\ j > i
    OBVIOUS
  <2>2. \A k \in S : k > j => k > i
    BY <1>1, <2>1
  <2>3. j \in B[i] /\ j \notin B[j]
    BY <1>1, <2>1
  <2> QED BY <2>1, <2>2, <2>3
<1>3. B \in [S -> SUBSET S]
  OBVIOUS
<1>4. PICK m \in S : B[m] = {}
  <2> HIDE DEF B
  <2> QED BY <1>1, <1>2, <1>3, Extreme
<1>5. \A j \in S : m >= j
  BY <1>1, <1>4
<1>6. Max(S) \in S /\ \A j \in S : Max(S) >= j
  BY <1>5 DEF Max
<1> QED BY <1>1, <1>6

LEMMA MaxRow ==
  ASSUME NEW S \in SUBSET Row, S # {}
  PROVE  Max(S) \in S /\ \A j \in S : j <= Max(S)
BY RowFacts, Greatest DEF Row

\* A page holds at most Limit rows after the position, and every received row
\* between the position and its last row.
LEMMA PageRows ==
  ASSUME NEW after \in 0..Rows
  PROVE  /\ Page(after) \in SUBSET Row
         /\ Cardinality(Page(after)) <= Limit
         /\ Page(after) # {} => /\ Max(Page(after)) \in 0..Rows
                                /\ \A i \in Page(after) : i <= Max(Page(after))
                                /\ \A i \in Row : /\ i > after /\ Received(i)
                                                  /\ i <= Max(Page(after))
                                                  => i \in Page(after)
<1> DEFINE found == {i \in Row : i > after /\ Received(i)}
           before(i) == {j \in found : j < i}
           page == {i \in found : Cardinality(before(i)) < Limit}
<1>1. Page(after) = page
  BY DEF Page
<1>2. IsFiniteSet(found) /\ found \in SUBSET Row
  BY RowFacts, FS_Subset
<1>3. page \in SUBSET Row /\ page \subseteq found
  BY <1>2
<1>4. CASE page = {}
  <2> HIDE DEF page
  <2>1. Cardinality(page) = 0
    BY <1>4, FS_EmptySet
  <2> QED BY <1>1, <1>3, <1>4, <2>1, RowFacts
<1>5. CASE page # {}
  <2> DEFINE m == Max(page)
  <2>1. m \in page /\ \A j \in page : j <= m
    <3> HIDE DEF page
    <3> QED BY <1>3, <1>5, MaxRow
  <2>2. m \in Row /\ m \in 0..Rows /\ Cardinality(before(m)) < Limit
    BY <2>1, <1>3, RowFacts
  <2> HIDE DEF m
  <2>3. IsFiniteSet(page) /\ \A i \in Row : IsFiniteSet(before(i))
    BY <1>2, FS_Subset
  <2>4. Cardinality(page) <= Limit
    <3>1. page \ {m} \subseteq before(m)
      <4>1. ASSUME NEW j \in page \ {m} PROVE j \in found /\ j < m
        <5>1. j \in page /\ j # m
          OBVIOUS
        <5> HIDE DEF page, found
        <5> QED BY <5>1, <2>1, <2>2, <1>2, <1>3, RowFacts
      <4> HIDE DEF page, found
      <4> QED BY <4>1
    <3>2. Cardinality(page \ {m}) <= Cardinality(before(m))
      BY <3>1, <2>2, <2>3, FS_Subset
    <3>3. Cardinality(page \ {m}) = Cardinality(page) - 1
      <4> HIDE DEF page
      <4> QED BY <2>1, <2>3, FS_RemoveElement
    <3>4. Cardinality(page) \in Nat /\ Cardinality(before(m)) \in Nat
      <4> HIDE DEF page, before
      <4> QED BY <2>2, <2>3, FS_CardinalityType
    <3> HIDE DEF page, before
    <3> QED BY <2>2, <3>2, <3>3, <3>4, RowFacts
  <2>5. ASSUME NEW i \in found, i <= m PROVE i \in page
    <3>1. before(i) \subseteq before(m)
      <4>1. \A j \in Row : j < i => j < m
        BY <2>2, <2>5, <1>2, RowFacts
      <4> HIDE DEF found
      <4> QED BY <4>1, <1>2
    <3>2. i \in Row
      BY <1>2
    <3>3. Cardinality(before(i)) <= Cardinality(before(m))
      <4> HIDE DEF before
      <4> QED BY <3>1, <2>2, <2>3, FS_Subset
    <3>4. Cardinality(before(i)) \in Nat /\ Cardinality(before(m)) \in Nat
      <4> HIDE DEF before
      <4> QED BY <3>2, <2>2, <2>3, FS_CardinalityType
    <3>5. Cardinality(before(i)) < Limit
      <4> HIDE DEF before
      <4> QED BY <2>2, <3>3, <3>4, RowFacts
    <3> QED BY <3>5
  <2> HIDE DEF page
  <2> QED BY <1>1, <1>3, <2>1, <2>2, <2>4, <2>5 DEF m
<1> QED BY <1>4, <1>5

-----------------------------------------------------------------------------
(* The job: types *)

LEMMA IdleType ==
  /\ Idle \in [pc : JobPC, kind : {"cron", "replay"}, batch : SUBSET Row,
               upto : 0..Rows, paused : BOOLEAN]
  /\ Idle.batch = {} /\ Cardinality({}) <= Limit
BY RowFacts, FS_EmptySet DEF Idle, JobPC

LEMMA UpsetType == upsets \in 0..MaxUpsets /\ Upset => upsets' \in 0..MaxUpsets
BY JobBoundsAssumption DEF Upset

LEMMA InitType == JInit => JTypeOK
<1> SUFFICES ASSUME JInit PROVE JTypeOK
  OBVIOUS
<1>2. 0 \in 0..Rows /\ 0 \in 0..MaxUpsets
  BY RowFacts, JobBoundsAssumption
<1> QED BY IdleType, <1>2 DEF JInit, JTypeOK

\* The invocation record of one slot changes to a well-typed one.
JobOK(rec) ==
  /\ rec \in [pc : JobPC, kind : {"cron", "replay"}, batch : SUBSET Row,
              upto : 0..Rows, paused : BOOLEAN]
  /\ Cardinality(rec.batch) <= Limit

LEMMA JobsType == JTypeOK => \A r \in JobRun : JobOK(job[r])
BY DEF JTypeOK, JobOK

LEMMA JobSet ==
  ASSUME JTypeOK, NEW r \in JobRun, NEW rec, JobOK(rec), job' = [job EXCEPT ![r] = rec]
  PROVE  /\ job' \in [JobRun -> [pc : JobPC, kind : {"cron", "replay"}, batch : SUBSET Row,
                                 upto : 0..Rows, paused : BOOLEAN]]
         /\ \A s \in JobRun : Cardinality(job'[s].batch) <= Limit
         /\ job'[r] = rec /\ \A s \in JobRun : s # r => job'[s] = job[s]
BY JobsType DEF JTypeOK, JobOK

LEMMA LessBatch ==
  ASSUME NEW rec, JobOK(rec), NEW i
  PROVE  JobOK([rec EXCEPT !.batch = @ \ {i}])
<1>1. IsFiniteSet(rec.batch) /\ rec.batch \ {i} \in SUBSET rec.batch
  BY RowFacts, FS_Subset DEF JobOK
<1>2. Cardinality(rec.batch \ {i}) <= Cardinality(rec.batch)
  BY <1>1, FS_Subset
<1>3. Cardinality(rec.batch \ {i}) \in Nat /\ Cardinality(rec.batch) \in Nat
  BY <1>1, FS_Subset, FS_CardinalityType
<1>4. Cardinality(rec.batch \ {i}) <= Limit
  BY <1>2, <1>3, RowFacts DEF JobOK
<1> QED BY <1>4 DEF JobOK

\* A step that changes one invocation.
LEMMA RunStepType ==
  ASSUME JTypeOK, NEW r \in JobRun, NEW rec, JobOK(rec), job' = [job EXCEPT ![r] = rec],
         table' \in [Row -> {"absent", "received", "answered"}], typed' \subseteq Row,
         cursor' \in 0..Rows, locked' \in BOOLEAN, skipped' \subseteq Row,
         freed' \in BOOLEAN, upsets' \in 0..MaxUpsets
  PROVE  JTypeOK'
BY JobSet DEF JTypeOK

LEMMA ClassifyType ==
  ASSUME JTypeOK, NEW i \in Row, Classify(i)
  PROVE  typed' \subseteq Row
BY DEF JTypeOK, Classify

\* An invocation about to advance the cursor has a row at hand.
AtRow == \A r \in JobRun : JobAt(r, "advance") => job[r].batch # {}

LEMMA StepType == JTypeOK /\ AtRow /\ [JNext]_jvars => JTypeOK'
<1> SUFFICES ASSUME JTypeOK, AtRow, [JNext]_jvars PROVE JTypeOK'
  OBVIOUS
<1>0. /\ upsets \in 0..MaxUpsets /\ cursor \in 0..Rows /\ locked \in BOOLEAN
      /\ freed \in BOOLEAN /\ skipped \subseteq Row /\ typed \subseteq Row
      /\ table \in [Row -> {"absent", "received", "answered"}]
      /\ \A r \in JobRun : JobOK(job[r])
  BY JobsType DEF JTypeOK
<1>a. ASSUME NEW r \in JobRun, NEW pc \in JobPC, NEW rec, JobOK(rec)
      PROVE  JobOK([rec EXCEPT !.pc = pc]) /\ JobOK([Idle EXCEPT !.pc = pc]) /\ JobOK(Idle)
  <2>1. JobOK([rec EXCEPT !.pc = pc])
    BY <1>a DEF JobOK
  <2>2. JobOK([Idle EXCEPT !.pc = pc]) /\ JobOK(Idle)
    BY IdleType DEF JobOK
  <2> QED BY <2>1, <2>2
<1>1. ASSUME NEW i \in Row, Appears(i) \/ Answered(i) \/ Reopened(i) \/ OperatorTypes(i)
      PROVE  JTypeOK'
  <2>1. CASE Appears(i) \/ Answered(i) \/ Reopened(i)
    BY <1>0, <2>1, UpsetType DEF Appears, Answered, Reopened, BecomesReceived, JTypeOK
  <2>2. CASE OperatorTypes(i)
    BY <1>0, <2>2, UpsetType, ClassifyType DEF OperatorTypes, JTypeOK
  <2> QED BY <1>1, <2>1, <2>2
<1>2. CASE LockExpires \/ AdminReleasesLock
  BY <1>0, <1>2, UpsetType DEF LockExpires, AdminReleasesLock, Unlock, JTypeOK
<1>3. ASSUME NEW c \in 0..Rows, AdminResetsCursor(c) PROVE JTypeOK'
  BY <1>0, <1>3, UpsetType DEF AdminResetsCursor, JTypeOK
<1>4. ASSUME NEW r \in JobRun, StartCron(r) PROVE JTypeOK'
  <2>1. JobOK([job[r] EXCEPT !.pc = "cursor"])
    BY <1>0, <1>a DEF JobPC
  <2>2. job' = [job EXCEPT ![r] = [job[r] EXCEPT !.pc = "cursor"]]
    BY <1>4 DEF StartCron
  <2> QED BY <1>0, <1>4, <2>1, <2>2, RunStepType DEF StartCron, AcquireLock
<1>5. ASSUME NEW r \in JobRun, StartReplay(r) PROVE JTypeOK'
  <2>1. PICK since \in 0..Rows :
          job' = [job EXCEPT ![r] = [Idle EXCEPT !.pc = "fetch", !.kind = "replay",
                                                 !.upto = since]]
    BY <1>5 DEF StartReplay
  <2>2. JobOK([Idle EXCEPT !.pc = "fetch", !.kind = "replay", !.upto = since])
    BY IdleType DEF JobOK, JobPC
  <2> QED BY <1>0, <1>5, <2>1, <2>2, RunStepType, UpsetType DEF StartReplay, AcquireLock
<1>6. ASSUME NEW r \in JobRun, ReadCursor(r) PROVE JTypeOK'
  <2>1. JobOK([job[r] EXCEPT !.pc = "fetch", !.upto = cursor])
    BY <1>0 DEF JobOK, JobPC
  <2>2. job' = [job EXCEPT ![r] = [job[r] EXCEPT !.pc = "fetch", !.upto = cursor]]
    BY <1>6 DEF ReadCursor
  <2> QED BY <1>0, <1>6, <2>1, <2>2, RunStepType DEF ReadCursor
<1>7. ASSUME NEW r \in JobRun, Fetch(r) PROVE JTypeOK'
  <2> DEFINE page == Page(job[r].upto)
             rec == [job[r] EXCEPT !.pc = "rows", !.batch = page,
                                   !.upto = IF page = {} THEN @ ELSE Max(page)]
  <2>1. job[r].upto \in 0..Rows
    BY <1>0 DEF JobOK
  <2>2. /\ page \in SUBSET Row /\ Cardinality(page) <= Limit
        /\ page # {} => Max(page) \in 0..Rows
    BY <2>1, PageRows
  <2>3. JobOK(rec)
    <3> HIDE DEF page
    <3> QED BY <1>0, <2>2 DEF JobOK, JobPC
  <2>4. job' = [job EXCEPT ![r] = rec]
    BY <1>7 DEF Fetch
  <2> QED BY <1>0, <1>7, <2>3, <2>4, RunStepType DEF Fetch
<1>8. ASSUME NEW r \in JobRun, JobAt(r, "rows"), job[r].batch # {} PROVE This(r) \in Row
  BY <1>0, <1>8, MinRow DEF This, JobOK
<1>9. ASSUME NEW r \in JobRun, WriteRow(r) PROVE JTypeOK'
  <2>1. typed' \subseteq Row
    BY <1>0, <1>8, <1>9, ClassifyType DEF WriteRow
  <2>2. PICK rec : JobOK(rec) /\ job' = [job EXCEPT ![r] = rec]
    <3>1. JobOK([job[r] EXCEPT !.pc = "advance"])
      BY <1>0, <1>a DEF JobPC
    <3>2. JobOK([job[r] EXCEPT !.batch = @ \ {This(r)}])
      BY <1>0, LessBatch
    <3> QED BY <1>9, <3>1, <3>2 DEF WriteRow, AfterRow
  <2> QED BY <1>0, <1>9, <2>1, <2>2, RunStepType DEF WriteRow
<1>10. ASSUME NEW r \in JobRun, WriteFails(r) PROVE JTypeOK'
  <2>1. typed' \subseteq Row
    BY <1>0, <1>8, <1>10, ClassifyType DEF WriteFails
  <2> DEFINE rec == [job[r] EXCEPT !.paused = TRUE, !.batch = @ \ {This(r)}]
  <2>2. JobOK(rec)
    <3>1. JobOK([job[r] EXCEPT !.batch = @ \ {This(r)}])
      BY <1>0, LessBatch
    <3> QED BY <1>0, <3>1 DEF JobOK
  <2>3. job' = [job EXCEPT ![r] = rec]
    BY <1>10 DEF WriteFails, RowFailed
  <2> QED BY <1>0, <1>10, <2>1, <2>2, <2>3, RunStepType, UpsetType DEF WriteFails
<1>11. ASSUME NEW r \in JobRun, Advance(r) PROVE JTypeOK'
  <2> DEFINE rec == [job[r] EXCEPT !.pc = "rows", !.batch = @ \ {This(r)}]
  <2>1. JobOK(rec)
    <3>1. JobOK([job[r] EXCEPT !.batch = @ \ {This(r)}])
      BY <1>0, LessBatch
    <3> QED BY <1>0, <3>1 DEF JobOK, JobPC
  <2>2. job' = [job EXCEPT ![r] = rec]
    BY <1>11 DEF Advance
  <2>3. cursor' \in 0..Rows
    <3>1. job[r].batch # {}
      BY <1>11 DEF Advance, AtRow
    <3>2. This(r) \in Row
      BY <1>0, <3>1, MinRow DEF This, JobOK
    <3> QED BY <1>11, <3>2, CursorOfAssumption DEF Advance
  <2> QED BY <1>0, <1>11, <2>1, <2>2, <2>3, RunStepType DEF Advance
<1>12. ASSUME NEW r \in JobRun, Renew(r) PROVE JTypeOK'
  <2>1. PICK rec : JobOK(rec) /\ job' = [job EXCEPT ![r] = rec]
    <3>1. JobOK([job[r] EXCEPT !.pc = "fetch"]) /\ JobOK([Idle EXCEPT !.pc = "release"])
      BY <1>0, <1>a DEF JobPC
    <3> QED BY <1>12, <3>1 DEF Renew
  <2> QED BY <1>0, <1>12, <2>1, RunStepType DEF Renew
<1>13. ASSUME NEW r \in JobRun, JobFails(r) PROVE JTypeOK'
  <2>1. JobOK([Idle EXCEPT !.pc = "release"])
    BY <1>0, <1>a DEF JobPC
  <2>2. job' = [job EXCEPT ![r] = [Idle EXCEPT !.pc = "release"]]
    BY <1>13 DEF JobFails
  <2> QED BY <1>0, <1>13, <2>1, <2>2, RunStepType, UpsetType DEF JobFails
<1>14. ASSUME NEW r \in JobRun, Release(r) PROVE JTypeOK'
  <2>1. JobOK(Idle)
    BY <1>0, <1>a DEF JobPC
  <2> QED BY <1>0, <1>14, <2>1, RunStepType DEF Release, ReleaseLock, Unlock
<1>15. ASSUME NEW r \in JobRun, JobCrashes(r) PROVE JTypeOK'
  <2>1. JobOK(Idle)
    BY <1>0, <1>a DEF JobPC
  <2> QED BY <1>0, <1>15, <2>1, RunStepType, UpsetType DEF JobCrashes
<1>16. CASE UNCHANGED jvars
  BY <1>16 DEF jvars, JTypeOK
<1> QED BY <1>1, <1>2, <1>3, <1>4, <1>5, <1>6, <1>7, <1>9, <1>10, <1>11, <1>12, <1>13,
           <1>14, <1>15, <1>16 DEF JNext, JobProcess

-----------------------------------------------------------------------------
(* The job: overlap *)

\* As long as no running invocation has lost the lock, at most one runs and
\* the lock is held.
LockInv ==
  \/ freed
  \/ /\ \A r, s \in Active : r = s
     /\ Active # {} => locked

LEMMA LockExcludes == JTypeOK /\ LockInv => OverlapNeedsLostLock
<1> SUFFICES ASSUME JTypeOK, LockInv, ~freed PROVE ~(Cardinality(Active) > 1)
  BY DEF OverlapNeedsLostLock
<1>1. CASE Active = {}
  BY <1>1, FS_EmptySet
<1>2. CASE Active # {}
  <2>1. PICK r : Active = {r}
    BY <1>2 DEF LockInv
  <2>2. Cardinality(Active) = 1
    BY <2>1, FS_Singleton
  <2> QED BY <2>2
<1> QED BY <1>1, <1>2

LEMMA LockStep == JTypeOK /\ LockInv /\ [JNext]_jvars => LockInv'
<1> SUFFICES ASSUME JTypeOK, LockInv, [JNext]_jvars PROVE LockInv'
  OBVIOUS
<1>0. /\ \A r \in JobRun : job[r] \in [pc : JobPC, kind : {"cron", "replay"},
                                    batch : SUBSET Row, upto : 0..Rows, paused : BOOLEAN]
      /\ job \in [JobRun -> [pc : JobPC, kind : {"cron", "replay"}, batch : SUBSET Row,
                             upto : 0..Rows, paused : BOOLEAN]]
  BY DEF JTypeOK
<1>1. ASSUME UNCHANGED <<job, locked, freed>> PROVE LockInv'
  BY <1>1 DEF LockInv, Active
<1>2. ASSUME Unlock(Active), UNCHANGED job PROVE LockInv'
  <2>1. Active' = Active
    BY <1>2 DEF Active
  <2> QED BY <1>2, <2>1 DEF LockInv, Unlock
<1>3. ASSUME NEW r \in JobRun, JobAt(r, "idle"), AcquireLock, UNCHANGED freed,
             \A s \in JobRun \ {r} : job'[s] = job[s]
      PROVE  LockInv'
  <2>1. Active' \subseteq Active \cup {r}
    BY <1>3 DEF Active
  <2>2. CASE freed
    BY <1>3, <2>2 DEF LockInv
  <2>3. CASE ~freed
    <3>1. Active = {} /\ locked'
      BY <1>3, <2>3 DEF LockInv, AcquireLock
    <3> QED BY <2>1, <3>1 DEF LockInv
  <2> QED BY <2>2, <2>3
<1>4. ASSUME NEW r \in JobRun, r \in Active, locked => locked', UNCHANGED freed,
             \A s \in JobRun \ {r} : job'[s] = job[s]
      PROVE  LockInv'
  <2>1. Active' \subseteq Active
    BY <1>4 DEF Active
  <2> QED BY <1>4, <2>1 DEF LockInv
<1>5. ASSUME NEW r \in JobRun, StartCron(r) \/ StartReplay(r) PROVE LockInv'
  <2>1. \A s \in JobRun \ {r} : job'[s] = job[s]
    BY <1>0, <1>5 DEF StartCron, StartReplay
  <2> QED BY <1>3, <1>5, <2>1 DEF StartCron, StartReplay
<1>6. ASSUME NEW r \in JobRun, \/ ReadCursor(r) \/ Fetch(r) \/ WriteRow(r) \/ WriteFails(r)
                                \/ Advance(r) \/ Renew(r) \/ JobFails(r)
      PROVE  LockInv'
  <2>1. \A s \in JobRun \ {r} : job'[s] = job[s]
    BY <1>0, <1>6 DEF ReadCursor, Fetch, WriteRow, AfterRow, WriteFails, RowFailed, Advance,
                      Renew, JobFails
  <2>2. r \in Active
    BY <1>6 DEF Active, JobAt, ReadCursor, Fetch, WriteRow, WriteFails, Advance, Renew, JobFails
  <2>3. (locked => locked') /\ UNCHANGED freed
    BY <1>6 DEF JTypeOK, ReadCursor, Fetch, WriteRow, WriteFails, Advance, Renew, JobFails
  <2> QED BY <1>4, <2>1, <2>2, <2>3
<1>7. ASSUME NEW r \in JobRun, Release(r) PROVE LockInv'
  <2>1. Active' = Active \ {r}
    BY <1>0, <1>7 DEF Release, Active, Idle
  <2> QED BY <1>7, <2>1 DEF LockInv, Release, ReleaseLock, Unlock
<1>8. ASSUME NEW r \in JobRun, JobCrashes(r) PROVE LockInv'
  <2>1. Active' = Active \ {r} /\ r \in Active
    BY <1>0, <1>8 DEF JobCrashes, Active, Idle
  <2>2. freed' = (freed /\ Active # {r}) /\ locked' = locked
    BY <1>8 DEF JobCrashes
  <2> QED BY <2>1, <2>2 DEF LockInv
<1>9. CASE LockExpires \/ AdminReleasesLock
  BY <1>2, <1>9 DEF LockExpires, AdminReleasesLock
<1>10. CASE \/ \E i \in Row : Appears(i) \/ Answered(i) \/ Reopened(i) \/ OperatorTypes(i)
            \/ \E c \in 0..Rows : AdminResetsCursor(c)
            \/ UNCHANGED jvars
  BY <1>1, <1>10 DEF Appears, Answered, Reopened, OperatorTypes, AdminResetsCursor, jvars
<1> QED BY <1>5, <1>6, <1>7, <1>8, <1>9, <1>10 DEF JNext, JobProcess

-----------------------------------------------------------------------------
(* The job: the cursor *)

\* What an invocation holds, as far as the cursor depends on it: between runs
\* it holds nothing; its page ends at upto; and as long as no row has failed,
\* every row up to there is still in the page, or settled, or counted as
\* skipped.  At "advance" the row at hand has its type.
Settled(i) == Waiting(i) => i \in skipped
Ahead(r) == IF JobAt(r, "advance") THEN job[r].batch \ {This(r)} ELSE job[r].batch

RunInv(r) ==
  /\ job[r].pc \in {"idle", "cursor", "release"} => job[r] = [Idle EXCEPT !.pc = job[r].pc]
  /\ JobAt(r, "fetch") => job[r].batch = {}
  /\ \A i \in job[r].batch : i <= job[r].upto
  /\ JobAt(r, "advance") => /\ job[r].kind = "cron" /\ ~job[r].paused
                            /\ job[r].batch # {} /\ This(r) \in typed
  /\ job[r].kind = "cron" /\ ~job[r].paused =>
       \A i \in Row : i <= job[r].upto /\ i \notin Ahead(r) => Settled(i)

CursorInv == (\A r \in JobRun : RunInv(r)) /\ CursorLosesNothing

LEMMA CursorInit == JInit => CursorInv
<1> SUFFICES ASSUME JInit PROVE CursorInv
  OBVIOUS
<1>1. \A i \in Row : ~(i <= 0)
  BY RowFacts DEF Row
<1>2. \A r \in JobRun : RunInv(r)
  BY <1>1 DEF JInit, RunInv, JobAt, Idle
<1> QED BY <1>1, <1>2 DEF CursorInv, CursorLosesNothing, JInit

\* Steps that do not touch an invocation keep what it holds, when rows that
\* come to wait are skipped, or lie ahead of every position read, or are in a
\* page: the row at hand has its type by then, and a type is never taken away.
Reached(r, i) ==
  job[r].kind = "cron" /\ ~job[r].paused /\ i <= job[r].upto /\ i \notin job[r].batch

LEMMA RunKept ==
  ASSUME NEW r \in JobRun, RunInv(r), job'[r] = job[r], skipped \subseteq skipped',
         typed \subseteq typed',
         \A i \in Row : Waiting(i)' => Waiting(i) \/ i \in skipped' \/ ~Reached(r, i)
  PROVE  RunInv(r)'
<1>1. ASSUME job[r].kind = "cron", ~job[r].paused, NEW i \in Row, i <= job[r].upto,
             i \notin Ahead(r), Waiting(i)'
      PROVE  i \in skipped'
  <2>1. CASE i \in job[r].batch
    <3>1. JobAt(r, "advance") /\ i = This(r)
      BY <1>1, <2>1 DEF Ahead
    <3>2. i \in typed'
      BY <3>1 DEF RunInv
    <3> QED BY <1>1, <3>2 DEF Waiting
  <2>2. CASE i \notin job[r].batch
    <3>1. Waiting(i) \/ i \in skipped'
      BY <1>1, <2>2 DEF Reached
    <3>2. Waiting(i) => i \in skipped
      BY <1>1 DEF RunInv, Settled
    <3> QED BY <3>1, <3>2
  <2> QED BY <2>1, <2>2
<1>2. Ahead(r)' = Ahead(r) /\ This(r)' = This(r)
  BY DEF Ahead, This, JobAt
<1> QED BY <1>1, <1>2 DEF RunInv, JobAt, Settled

\* A step that lets no row wait anew, and changes one invocation at most.
LEMMA StepKept ==
  ASSUME CursorInv, JTypeOK, NEW r \in JobRun, skipped \subseteq skipped', typed \subseteq typed',
         \A i \in Row : Waiting(i)' => Waiting(i),
         \A s \in JobRun \ {r} : job'[s] = job[s],
         RunInv(r)', cursor' = cursor
  PROVE  CursorInv'
<1>1. \A s \in JobRun : RunInv(s)'
  <2>1. ASSUME NEW s \in JobRun \ {r} PROVE RunInv(s)'
    BY <2>1, RunKept DEF CursorInv
  <2> QED BY <2>1
<1>2. CursorLosesNothing'
  BY DEF CursorInv, CursorLosesNothing
<1> QED BY <1>1, <1>2 DEF CursorInv

\* An invocation that is back to nothing, or about to release, holds nothing.
LEMMA HoldsNothing ==
  ASSUME NEW r \in JobRun, NEW pc \in {"idle", "cursor", "release"},
         job'[r] = [Idle EXCEPT !.pc = pc]
  PROVE  RunInv(r)'
<1>1. \A i \in Row : ~(i <= 0)
  BY RowFacts DEF Row
<1>2. /\ job'[r].pc = pc /\ job'[r].kind = "cron" /\ job'[r].batch = {}
      /\ job'[r].upto = 0 /\ job'[r].paused = FALSE
  BY DEF Idle
<1> QED BY <1>1, <1>2 DEF RunInv, JobAt, Ahead

\* The row at hand is the first of those ahead, so what lies before it is
\* settled.
LEMMA BeforeThis ==
  ASSUME JTypeOK, NEW r \in JobRun, RunInv(r), job[r].batch # {}
  PROVE  /\ This(r) \in job[r].batch /\ This(r) \in Row /\ This(r) <= job[r].upto
         /\ \A j \in job[r].batch : This(r) <= j
<1>1. job[r].batch \in SUBSET Row
  BY DEF JTypeOK
<1> QED BY <1>1, MinRow DEF This, RunInv

LEMMA CursorStep == JTypeOK /\ CursorInv /\ [JNext]_jvars => CursorInv'
<1> SUFFICES ASSUME JTypeOK, CursorInv, [JNext]_jvars PROVE CursorInv'
  OBVIOUS
<1>0. /\ job \in [JobRun -> [pc : JobPC, kind : {"cron", "replay"}, batch : SUBSET Row,
                             upto : 0..Rows, paused : BOOLEAN]]
      /\ table \in [Row -> {"absent", "received", "answered"}]
      /\ cursor \in 0..Rows /\ \A r \in JobRun : RunInv(r)
      /\ \A i \in Row : i <= cursor => Settled(i)
  BY DEF JTypeOK, CursorInv, CursorLosesNothing, Settled
<1>a. ASSUME NEW i \in Row, Classify(i), UNCHANGED table
      PROVE  typed \subseteq typed' /\ i \in typed' /\ \A j \in Row : Waiting(j)' => Waiting(j)
  BY <1>a DEF Classify, Waiting, Received
<1>b. ASSUME UNCHANGED <<table, typed>> PROVE \A j \in Row : Waiting(j)' <=> Waiting(j)
  BY <1>b DEF Waiting, Received
<1>1. ASSUME NEW i \in Row, BecomesReceived(i), UNCHANGED <<typed, job, cursor>>
      PROVE  CursorInv'
  <2>1. \A j \in Row : Waiting(j)' => Waiting(j) \/ j = i
    BY <1>0, <1>1 DEF BecomesReceived, Waiting, Received
  <2>2. skipped \subseteq skipped' /\ (Past(i) /\ i \notin typed => i \in skipped')
    BY <1>1 DEF BecomesReceived
  <2>3. ~(i \in typed /\ Waiting(i)')
    BY <1>1 DEF Waiting
  <2>4. ASSUME NEW r \in JobRun PROVE RunInv(r)'
    <3>1. Reached(r, i) => Past(i)
      BY DEF Past, Reached
    <3> QED BY <1>0, <1>1, <2>1, <2>2, <2>3, <3>1, RunKept
  <2>5. CursorLosesNothing'
    BY <1>0, <1>1, <2>1, <2>2, <2>3 DEF CursorLosesNothing, Settled, Past
  <2> QED BY <2>4, <2>5 DEF CursorInv
<1>2. ASSUME \A j \in Row : Waiting(j)' => Waiting(j), typed \subseteq typed',
             UNCHANGED <<job, cursor, skipped>>
      PROVE  CursorInv'
  <2>1. \A r \in JobRun : RunInv(r)'
    BY <1>0, <1>2, RunKept
  <2>2. CursorLosesNothing'
    BY <1>0, <1>2 DEF CursorLosesNothing, Settled
  <2> QED BY <2>1, <2>2 DEF CursorInv
<1>3. ASSUME NEW i \in Row, Appears(i) \/ Answered(i) \/ Reopened(i) \/ OperatorTypes(i)
      PROVE  CursorInv'
  <2>1. CASE Appears(i) \/ Reopened(i)
    BY <1>1, <2>1 DEF Appears, Reopened
  <2>2. CASE Answered(i)
    <3>1. \A j \in Row : Waiting(j)' => Waiting(j)
      BY <1>0, <2>2 DEF Answered, Waiting, Received
    <3> QED BY <1>2, <2>2, <3>1 DEF Answered
  <2>3. CASE OperatorTypes(i)
    BY <1>2, <1>a, <2>3 DEF OperatorTypes
  <2> QED BY <1>3, <2>1, <2>2, <2>3
<1>4. CASE LockExpires \/ AdminReleasesLock \/ UNCHANGED jvars
  BY <1>2, <1>4, <1>b DEF LockExpires, AdminReleasesLock, jvars
<1>5. ASSUME NEW c \in 0..Rows, AdminResetsCursor(c) PROVE CursorInv'
  <2>1. UNCHANGED <<table, typed, job>> /\ cursor' = c
        /\ skipped' = skipped \cup {i \in Row : i <= c /\ Waiting(i)}
    BY <1>5 DEF AdminResetsCursor
  <2>2. \A r \in JobRun : RunInv(r)'
    BY <1>0, <1>b, <2>1, RunKept
  <2>3. CursorLosesNothing'
    BY <1>b, <2>1 DEF CursorLosesNothing
  <2> QED BY <2>2, <2>3 DEF CursorInv
<1>6. ASSUME NEW r \in JobRun, StartCron(r) PROVE CursorInv'
  <2>1. job'[r] = [Idle EXCEPT !.pc = "cursor"]
    BY <1>0, <1>6 DEF StartCron, JobAt, RunInv
  <2>2. RunInv(r)'
    BY <2>1, HoldsNothing
  <2> QED BY <1>0, <1>6, <1>b, <2>2, StepKept DEF StartCron
<1>7. ASSUME NEW r \in JobRun, StartReplay(r) PROVE CursorInv'
  <2>1. PICK since \in 0..Rows :
          job' = [job EXCEPT ![r] = [Idle EXCEPT !.pc = "fetch", !.kind = "replay",
                                                 !.upto = since]]
    BY <1>7 DEF StartReplay
  <2>2. job'[r].pc = "fetch" /\ job'[r].kind = "replay" /\ job'[r].batch = {}
    BY <1>0, <2>1 DEF Idle
  <2>3. RunInv(r)'
    BY <2>2 DEF RunInv, JobAt
  <2> QED BY <1>0, <1>7, <1>b, <2>1, <2>3, StepKept DEF StartReplay
<1>8. ASSUME NEW r \in JobRun, ReadCursor(r) PROVE CursorInv'
  <2>1. job[r].batch = {}
    BY <1>0, <1>8 DEF ReadCursor, JobAt, RunInv, Idle
  <2>2. job'[r].pc = "fetch" /\ job'[r].upto = cursor /\ job'[r].batch = {}
    BY <1>0, <1>8, <2>1 DEF ReadCursor
  <2>3. \A i \in Row : i <= cursor => Settled(i)'
    BY <1>0, <1>8, <1>b DEF ReadCursor, Settled
  <2>4. RunInv(r)'
    BY <2>2, <2>3 DEF RunInv, JobAt, Settled
  <2> QED BY <1>0, <1>8, <1>b, <2>4, StepKept DEF ReadCursor
<1>9. ASSUME NEW r \in JobRun, Fetch(r) PROVE CursorInv'
  <2> DEFINE page == Page(job[r].upto)
             last == IF page = {} THEN job[r].upto ELSE Max(page)
  <2>1. /\ job'[r].pc = "rows" /\ job'[r].batch = page /\ job'[r].upto = last
        /\ job'[r].kind = job[r].kind /\ job'[r].paused = job[r].paused
    BY <1>0, <1>9 DEF Fetch
  <2>2. job[r].upto \in 0..Rows /\ job[r].batch = {} /\ Ahead(r) = {}
    BY <1>0, <1>9 DEF Fetch, JobAt, RunInv, Ahead
  <2>3. /\ \A i \in page : i <= last
        /\ \A i \in Row : i > job[r].upto /\ Received(i) /\ i <= last => i \in page
    BY <2>2, PageRows, RowFacts
  <2>4. ASSUME job[r].kind = "cron", ~job[r].paused, NEW i \in Row, i <= last, i \notin page
        PROVE  Settled(i)
    <3>1. CASE i <= job[r].upto
      BY <1>0, <2>2, <2>4, <3>1 DEF RunInv
    <3>2. CASE i > job[r].upto
      <4>1. ~Received(i)
        BY <2>3, <2>4, <3>2
      <4> QED BY <4>1 DEF Settled, Waiting, Received
    <3> QED BY <2>2, <3>1, <3>2, RowFacts
  <2>5. \A i \in Row : Settled(i)' <=> Settled(i)
    BY <1>9 DEF Fetch, Settled, Waiting, Received
  <2>6. RunInv(r)'
    <3> HIDE DEF page, last
    <3> QED BY <2>1, <2>3, <2>4, <2>5 DEF RunInv, JobAt, Ahead
  <2> QED BY <1>0, <1>9, <1>b, <2>6, StepKept DEF Fetch
<1>10. ASSUME NEW r \in JobRun, WriteRow(r) PROVE CursorInv'
  <2>1. JobAt(r, "rows") /\ job[r].batch # {} /\ Ahead(r) = job[r].batch
    BY <1>10 DEF WriteRow, Ahead, JobAt
  <2>2. This(r) \in Row /\ This(r) \in job[r].batch
    BY <1>0, <2>1, BeforeThis
  <2>3. /\ typed \subseteq typed' /\ \A j \in Row : Waiting(j)' => Waiting(j)
        /\ job[r].kind = "cron" => This(r) \in typed'
    <3>1. CASE Classify(This(r))
      BY <1>10, <1>a, <2>2, <3>1 DEF WriteRow
    <3>2. CASE job[r].kind = "replay" /\ UNCHANGED typed
      BY <1>10, <1>b, <3>2 DEF WriteRow
    <3> QED BY <1>10, <3>1, <3>2 DEF WriteRow
  <2>4. \A j \in Row : Settled(j) => Settled(j)'
    BY <1>10, <2>3 DEF WriteRow, Settled
  <2>5. job[r].kind = "cron" => \A i \in Row : i = This(r) => Settled(i)'
    BY <2>3 DEF Settled, Waiting
  <2>6. /\ job'[r].kind = job[r].kind /\ job'[r].paused = job[r].paused
        /\ job'[r].upto = job[r].upto
        /\ job'[r].batch = job[r].batch \/ job'[r].batch = job[r].batch \ {This(r)}
    BY <1>0, <1>10 DEF WriteRow, AfterRow
  <2>7. RunInv(r)'
    <3>1. CASE job[r].kind = "cron" /\ ~job[r].paused
      <4>1. job'[r].pc = "advance" /\ job'[r].batch = job[r].batch
        BY <1>0, <1>10, <3>1 DEF WriteRow, AfterRow
      <4>2. Ahead(r)' = job[r].batch \ {This(r)}
        BY <4>1 DEF Ahead, JobAt, This
      <4>3. \A i \in Row : i <= job[r].upto /\ i \notin job[r].batch \ {This(r)} => Settled(i)'
        BY <1>0, <2>1, <2>4, <2>5, <3>1 DEF RunInv
      <4>4. This(r)' = This(r)
        BY <4>1 DEF This
      <4> QED BY <1>0, <2>1, <2>3, <2>6, <3>1, <4>1, <4>2, <4>3, <4>4 DEF RunInv, JobAt
    <3>2. CASE ~(job[r].kind = "cron" /\ ~job[r].paused)
      <4>1. job'[r].pc = "rows"
        BY <1>0, <1>10, <3>2 DEF WriteRow, AfterRow, JobAt
      <4> QED BY <1>0, <2>6, <3>2, <4>1 DEF RunInv, JobAt
    <3> QED BY <3>1, <3>2
  <2> QED BY <1>0, <1>10, <2>3, <2>7, StepKept DEF WriteRow, AfterRow
<1>11. ASSUME NEW r \in JobRun, WriteFails(r) PROVE CursorInv'
  <2>1. JobAt(r, "rows") /\ job[r].batch # {} /\ This(r) \in Row
    BY <1>0, <1>11, BeforeThis DEF WriteFails
  <2>2. typed \subseteq typed' /\ \A j \in Row : Waiting(j)' => Waiting(j)
    BY <1>11, <2>1, <1>a, <1>b DEF WriteFails
  <2>3. /\ job'[r].pc = "rows" /\ job'[r].paused = TRUE /\ job'[r].upto = job[r].upto
        /\ job'[r].batch \subseteq job[r].batch
    BY <1>0, <1>11, <2>1 DEF WriteFails, RowFailed, JobAt
  <2>4. RunInv(r)'
    BY <1>0, <2>3 DEF RunInv, JobAt
  <2> QED BY <1>0, <1>11, <2>2, <2>4, StepKept DEF WriteFails, RowFailed
<1>12. ASSUME NEW r \in JobRun, Advance(r) PROVE CursorInv'
  <2>1. JobAt(r, "advance") /\ Ahead(r) = job[r].batch \ {This(r)} /\ job[r].batch # {}
        /\ job[r].kind = "cron" /\ ~job[r].paused
    BY <1>0, <1>12 DEF Advance, Ahead, RunInv
  <2>2. /\ This(r) \in Row /\ This(r) <= job[r].upto
        /\ \A j \in job[r].batch : This(r) <= j
    BY <1>0, <2>1, BeforeThis
  <2>3. /\ job'[r].pc = "rows" /\ job'[r].upto = job[r].upto
        /\ job'[r].batch = job[r].batch \ {This(r)} /\ UNCHANGED <<table, typed, skipped>>
    BY <1>0, <1>12 DEF Advance
  <2>4. \A i \in Row : Settled(i)' <=> Settled(i)
    BY <1>b, <2>3 DEF Settled
  <2>5. Ahead(r)' = Ahead(r)
    BY <2>1, <2>3 DEF Ahead, JobAt
  <2>6. RunInv(r)'
    BY <1>0, <2>1, <2>3, <2>4, <2>5 DEF RunInv, JobAt
  <2>7. \A s \in JobRun : RunInv(s)'
    <3>1. ASSUME NEW s \in JobRun \ {r} PROVE RunInv(s)'
      <4>1. job'[s] = job[s] /\ \A i \in Row : Waiting(i)' => Waiting(i)
        BY <1>0, <1>12, <2>3, <1>b DEF Advance
      <4> QED BY <1>0, <2>3, <4>1, RunKept
    <3> QED BY <2>6, <3>1
  <2>8. CursorLosesNothing'
    <3>1. cursor' \in 0..Rows /\ cursor' <= This(r)
      BY <1>12, <2>2, CursorOfAssumption DEF Advance
    <3>2. ASSUME NEW i \in Row, i <= cursor' PROVE Settled(i)
      <4>1. i <= This(r)
        BY <2>2, <3>1, <3>2, RowFacts
      <4>2. i <= job[r].upto
        BY <1>0, <2>2, <4>1, RowFacts
      <4>3. i \notin Ahead(r)
        BY <2>1, <2>2, <4>1, RowFacts
      <4> QED BY <1>0, <2>1, <4>2, <4>3 DEF RunInv
    <3> QED BY <2>4, <3>2 DEF CursorLosesNothing, Settled
  <2> QED BY <2>7, <2>8 DEF CursorInv
<1>13. ASSUME NEW r \in JobRun, Renew(r) PROVE CursorInv'
  <2>1. RunInv(r)'
    <3>1. CASE job'[r] = [Idle EXCEPT !.pc = "release"]
      BY <3>1, HoldsNothing
    <3>2. CASE job'[r] = [job[r] EXCEPT !.pc = "fetch"]
      <4>1. job'[r].pc = "fetch" /\ job'[r].kind = "replay" /\ job'[r].batch = {}
        BY <1>0, <1>13, <3>2 DEF Renew
      <4> QED BY <4>1 DEF RunInv, JobAt
    <3> QED BY <1>0, <1>13, <3>1, <3>2 DEF Renew
  <2> QED BY <1>0, <1>13, <1>b, <2>1, StepKept DEF Renew
<1>14. ASSUME NEW r \in JobRun, JobFails(r) PROVE CursorInv'
  <2>1. RunInv(r)'
    BY <1>0, <1>14, HoldsNothing DEF JobFails
  <2> QED BY <1>0, <1>14, <1>b, <2>1, StepKept DEF JobFails
<1>15. ASSUME NEW r \in JobRun, Release(r) \/ JobCrashes(r) PROVE CursorInv'
  <2>1. job'[r] = [Idle EXCEPT !.pc = "idle"]
    <3>1. job'[r] = Idle
      BY <1>0, <1>15 DEF Release, JobCrashes
    <3>2. Idle = [Idle EXCEPT !.pc = Idle.pc]
      BY IdleType
    <3>3. Idle.pc = "idle"
      BY DEF Idle
    <3> QED BY <3>1, <3>2, <3>3
  <2>2. RunInv(r)'
    BY <2>1, HoldsNothing
  <2> QED BY <1>0, <1>15, <1>b, <2>2, StepKept DEF Release, JobCrashes
<1> QED BY <1>3, <1>4, <1>5, <1>6, <1>7, <1>9, <1>10, <1>11, <1>12, <1>13,
           <1>14, <1>15, <1>8 DEF JNext, JobProcess

-----------------------------------------------------------------------------
(* The thread: types *)

EventType == [topic : Topic, msg : 0..MaxMessages, held : BOOLEAN,
              status : {"pending", "processing", "completed", "failed"}]
SlotType == [pc : ThreadPC, key : Key \cup {NoKey, <<"reply", 0>>},
             seen : 0..MaxMessages, snap : SUBSET Message, event : 0..MaxEvents]
FollowType == [state : {"none", "scheduled", "superseded", "followed_up", "cleared"},
               cycle : Cycle]

\* The states of a send in which its idempotency key is known.
Sending == {"claim", "fresh", "stale", "mark", "remark", "mutate", "sent",
            "readback", "finalize", "unsure"}

\* An invocation's record, with what its key is while it sends.
Fits(rec) ==
  /\ rec \in SlotType
  /\ rec.key = <<"reply", 0>> => rec.pc = "messages"
  /\ rec.pc = "messages" => rec.key \in {<<"reply", 0>>} \cup ({"cycle"} \X Cycle)
  /\ rec.pc \in Sending => rec.key \in Key

PlatformTyped ==
  /\ start \in Starts
  /\ thread \in Seq(Key \cup {NoKey}) /\ Len(thread) <= MaxMessages
  /\ gone \subseteq Message
RowTyped ==
  /\ stored \in [Message -> {"none", "active", "deleted"}]
  /\ follow \in FollowType
  /\ lastSent \in 0..MaxMessages
LedgerTyped == ops \in [Key -> OpStatus] /\ remarks \in [Key -> Nat]
InboxTyped == inbox \in Seq(EventType) /\ Len(inbox) <= MaxEvents
ActTyped == act \in [Slot -> SlotType] /\ \A r \in Slot : Fits(act[r])
BreaksTyped == breaks \in 0..MaxBreaks

ThreadTyped == /\ PlatformTyped /\ RowTyped /\ LedgerTyped /\ InboxTyped
               /\ ActTyped /\ BreaksTyped

LEMMA ThreadTypes == ThreadTyped => TTypeOK
BY DEF ThreadTyped, PlatformTyped, RowTyped, LedgerTyped, InboxTyped, ActTyped, BreaksTyped,
       TTypeOK, Fits, SlotType, EventType, FollowType

LEMMA Bounds ==
  /\ MaxMessages \in Nat /\ MaxEvents \in Nat /\ MaxBreaks \in Nat
  /\ Message = 1..MaxMessages /\ Cycle = 0..MaxMessages
  /\ 1 \in Message /\ 1 \in Cycle /\ 0 \in Cycle
  /\ \A s \in Starts : /\ s.buyer \in Message /\ s.messages \in Message
                       /\ s.events \in 0..MaxEvents /\ s.cycle \in Cycle
BY ThreadBoundsAssumption DEF Message, Cycle

LEMMA KeyFacts ==
  /\ NoKey \notin Key /\ <<"reply", 0>> \notin Key /\ NoKey # <<"reply", 0>>
  /\ \A m \in Message : <<"reply", m>> \in Key
  /\ \A k \in {"cycle"} \X Cycle : k \in Key /\ k[1] # "reply"
<1>1. \A m \in Message : m # 0
  BY Bounds
<1> QED BY <1>1 DEF Key, NoKey

LEMMA FreeFits == Fits(FreeSlot) /\ FreeSlot.event = 0 /\ FreeSlot.pc = "free"
BY Bounds, KeyFacts DEF Fits, FreeSlot, SlotType, ThreadPC, Sending

LEMMA Kept ==
  /\ PlatformTyped /\ UNCHANGED platform => PlatformTyped'
  /\ RowTyped /\ UNCHANGED <<stored, follow, lastSent>> => RowTyped'
  /\ LedgerTyped /\ UNCHANGED ledgerVars => LedgerTyped'
  /\ InboxTyped /\ UNCHANGED inbox => InboxTyped'
  /\ ActTyped /\ UNCHANGED act => ActTyped'
  /\ BreaksTyped /\ (UNCHANGED breaks \/ Break) => BreaksTyped'
<1>1. PlatformTyped /\ UNCHANGED platform => PlatformTyped'
  BY DEF PlatformTyped, platform
<1>2. RowTyped /\ UNCHANGED <<stored, follow, lastSent>> => RowTyped'
  BY DEF RowTyped
<1>3. LedgerTyped /\ UNCHANGED ledgerVars => LedgerTyped'
  BY DEF LedgerTyped, ledgerVars
<1>4. InboxTyped /\ UNCHANGED inbox => InboxTyped'
  BY DEF InboxTyped
<1>5. ActTyped /\ UNCHANGED act => ActTyped'
  BY DEF ActTyped
<1>6. BreaksTyped /\ (UNCHANGED breaks \/ Break) => BreaksTyped'
  BY Bounds DEF BreaksTyped, Break
<1> QED BY <1>1, <1>2, <1>3, <1>4, <1>5, <1>6

\* The record of one invocation changes.
LEMMA Turned ==
  ASSUME ActTyped, NEW r \in Slot, NEW rec, act' = [act EXCEPT ![r] = rec]
  PROVE  /\ Fits(rec) => ActTyped'
         /\ act'[r] = rec /\ \A s \in Slot : s # r => act'[s] = act[s]
BY DEF ActTyped, Fits

LEMMA ToTurns ==
  ASSUME ActTyped, NEW r \in Slot, NEW l, To(r, l)
  PROVE  act' = [act EXCEPT ![r] = [act[r] EXCEPT !.pc = l]]
BY DEF To, ActTyped, SlotType

LEMMA MovesOn ==
  ASSUME NEW rec, Fits(rec), NEW l \in ThreadPC, l # "messages",
         l \in Sending => rec.pc \in Sending, rec.key # <<"reply", 0>>
  PROVE  Fits([rec EXCEPT !.pc = l])
BY DEF Fits, SlotType

\* One event of the inbox changes.
LEMMA EventSet ==
  ASSUME InboxTyped, NEW e \in DOMAIN inbox, NEW ev \in EventType,
         inbox' = [inbox EXCEPT ![e] = ev]
  PROVE  /\ InboxTyped' /\ Len(inbox') = Len(inbox) /\ DOMAIN inbox' = DOMAIN inbox
         /\ inbox'[e] = ev /\ \A d \in DOMAIN inbox : d # e => inbox'[d] = inbox[d]
<1>1. e \in 1..Len(inbox) /\ DOMAIN inbox = 1..Len(inbox)
  BY DEF InboxTyped
<1>2. inbox' \in Seq(EventType) /\ Len(inbox') = Len(inbox)
  BY <1>1, ExceptSeq DEF InboxTyped
<1>3. inbox'[e] = ev /\ \A d \in DOMAIN inbox : d # e => inbox'[d] = inbox[d]
  OBVIOUS
<1> QED BY <1>1, <1>2, <1>3 DEF InboxTyped

LEMMA EventTyped == InboxTyped => \A e \in DOMAIN inbox : inbox[e] \in EventType
BY DEF InboxTyped

LEMMA StatusSet ==
  ASSUME InboxTyped, NEW e \in DOMAIN inbox,
         NEW s \in {"pending", "processing", "completed", "failed"},
         inbox' = [inbox EXCEPT ![e].status = s]
  PROVE  /\ InboxTyped' /\ DOMAIN inbox' = DOMAIN inbox
         /\ inbox'[e] = [inbox[e] EXCEPT !.status = s]
         /\ \A d \in DOMAIN inbox : d # e => inbox'[d] = inbox[d]
<1>1. inbox' = [inbox EXCEPT ![e] = [inbox[e] EXCEPT !.status = s]]
  OBVIOUS
<1>2. [inbox[e] EXCEPT !.status = s] \in EventType
  BY EventTyped DEF EventType
<1> QED BY <1>1, <1>2, EventSet

LEMMA HeldSet ==
  ASSUME InboxTyped, NEW e \in DOMAIN inbox, inbox' = [inbox EXCEPT ![e].held = TRUE]
  PROVE  /\ InboxTyped' /\ DOMAIN inbox' = DOMAIN inbox
         /\ inbox'[e] = [inbox[e] EXCEPT !.held = TRUE]
         /\ \A d \in DOMAIN inbox : d # e => inbox'[d] = inbox[d]
<1>1. inbox' = [inbox EXCEPT ![e] = [inbox[e] EXCEPT !.held = TRUE]]
  OBVIOUS
<1>2. [inbox[e] EXCEPT !.held = TRUE] \in EventType
  BY EventTyped DEF EventType
<1> QED BY <1>1, <1>2, EventSet

\* The platform takes one more message.
LEMMA OneMore ==
  ASSUME PlatformTyped, Room, NEW k \in Key \cup {NoKey}, thread' = Append(thread, k),
         UNCHANGED <<start, gone>>
  PROVE  /\ PlatformTyped'
         /\ Len(thread) + 1 \in Message /\ Len(thread) + 1 \notin DOMAIN thread
         /\ DOMAIN thread' = DOMAIN thread \cup {Len(thread) + 1}
         /\ thread'[Len(thread) + 1] = k
         /\ \A m \in DOMAIN thread : thread'[m] = thread[m]
<1>1. /\ thread \in Seq(Key \cup {NoKey}) /\ Len(thread) \in Nat
      /\ DOMAIN thread = 1..Len(thread) /\ Len(thread) < MaxMessages
  BY Bounds DEF PlatformTyped, Room
<1>2. /\ thread' \in Seq(Key \cup {NoKey}) /\ Len(thread') = Len(thread) + 1
      /\ DOMAIN thread' = 1..Len(thread')
      /\ thread'[Len(thread) + 1] = k /\ \A m \in 1..Len(thread) : thread'[m] = thread[m]
  BY <1>1, AppendProperties
<1>3. DOMAIN thread' = DOMAIN thread \cup {Len(thread) + 1}
  BY <1>1, <1>2
<1>4. Len(thread) + 1 \in Message /\ Len(thread) + 1 \notin DOMAIN thread
  BY <1>1, Bounds
<1>5. PlatformTyped'
  BY <1>1, <1>2, Bounds DEF PlatformTyped
<1> QED BY <1>1, <1>2, <1>3, <1>4, <1>5

LEMMA LatestType ==
  ASSUME NEW S \in SUBSET Message
  PROVE  /\ Latest(S) \in 0..MaxMessages
         /\ S # {} => Latest(S) \in S /\ \A m \in S : m <= Latest(S)
<1>1. CASE S = {}
  BY <1>1, Bounds DEF Latest
<1>2. CASE S # {}
  <2>1. S \in SUBSET (1..MaxMessages) /\ MaxMessages \in Nat
    BY Bounds
  <2>2. Max(S) \in S /\ \A m \in S : m <= Max(S)
    BY <1>2, <2>1, Greatest
  <2>3. Max(S) \in 0..MaxMessages
    <3>1. \A m \in 1..MaxMessages : m \in 0..MaxMessages
      BY <2>1
    <3>2. Max(S) \in 1..MaxMessages
      BY <2>1, <2>2, Zenon
    <3> QED BY <3>1, <3>2, Zenon
  <2> QED BY <1>2, <2>2, <2>3 DEF Latest
<1> QED BY <1>1, <1>2

-----------------------------------------------------------------------------
(* The thread: what an invocation knows of its event *)

Created(e) == inbox[e].topic = "CREATED"
Accounted(e) ==
  \/ stored[inbox[e].msg] # "none"
  \/ inbox[e].held
  \/ inbox[e].msg \in gone

\* The event an invocation handles is in the inbox, and between the readback
\* and the completion its message is in the snapshot, stored or deleted.
Handles(rec) ==
  /\ rec.event # 0 => rec.event \in DOMAIN inbox
  /\ rec.pc \in {"read", "transition", "tombstone", "complete", "fail"} => rec.event # 0
  /\ rec.pc = "tombstone" => inbox[rec.event].topic = "ADMIN_DELETED"
  /\ rec.pc = "reconcile" /\ rec.event # 0 /\ Created(rec.event)
     => inbox[rec.event].msg \in rec.snap \cup gone
  /\ rec.pc \in {"transition", "complete"} /\ Created(rec.event) => Accounted(rec.event)

HandlerInv == \A r \in Slot : Handles(act[r])

-----------------------------------------------------------------------------
(* The thread: every step keeps the types *)

LEMMA SlotStep ==
  ASSUME ThreadTyped, NEW r \in Slot, NEW rec, Fits(rec), act' = [act EXCEPT ![r] = rec],
         PlatformTyped', RowTyped', LedgerTyped', InboxTyped', BreaksTyped'
  PROVE  ThreadTyped'
BY Turned DEF ThreadTyped

LEMMA ThreadInitTyped == TInit => ThreadTyped
<1> SUFFICES ASSUME TInit PROVE ThreadTyped
  OBVIOUS
<1>1. PlatformTyped
  <2>1. start \in Starts /\ start.buyer \in 1..MaxMessages /\ start.buyer \in Nat
    BY Bounds DEF TInit
  <2>2. thread = [i \in 1..start.buyer |-> NoKey]
    BY DEF TInit
  <2>3. thread \in Seq(Key \cup {NoKey}) /\ Len(thread) = start.buyer
    BY <2>1, <2>2
  <2> QED BY <2>1, <2>3, Bounds DEF PlatformTyped, TInit
<1>2. RowTyped
  BY Bounds DEF RowTyped, FollowType, TInit
<1>3. LedgerTyped
  BY DEF LedgerTyped, OpStatus, TInit
<1>4. InboxTyped
  BY Bounds DEF InboxTyped, TInit
<1>5. ActTyped
  BY FreeFits DEF ActTyped, Fits, TInit
<1>6. BreaksTyped
  BY Bounds DEF BreaksTyped, TInit
<1> QED BY <1>1, <1>2, <1>3, <1>4, <1>5, <1>6 DEF ThreadTyped

LEMMA PlatformSteps ==
  ASSUME ThreadTyped
  PROVE  /\ BuyerWrites => ThreadTyped'
         /\ \A m \in Message : AdminDeletes(m) => ThreadTyped'
         /\ \A topic \in Topic, m \in 0..MaxMessages : Notify(topic, m) => ThreadTyped'
         /\ \A state \in {"scheduled", "cleared"} : Schedule(state) => ThreadTyped'
<1>1. ASSUME BuyerWrites PROVE ThreadTyped'
  <2>1. PlatformTyped'
    BY <1>1, OneMore DEF BuyerWrites, ThreadTyped
  <2> QED BY <1>1, <2>1, Kept DEF BuyerWrites, ThreadTyped
<1>2. ASSUME NEW m \in Message, AdminDeletes(m) PROVE ThreadTyped'
  <2>1. PlatformTyped'
    BY <1>2 DEF AdminDeletes, ThreadTyped, PlatformTyped
  <2> QED BY <1>2, <2>1, Kept DEF AdminDeletes, ThreadTyped
<1>3. ASSUME NEW topic \in Topic, NEW m \in 0..MaxMessages, Notify(topic, m)
      PROVE  ThreadTyped'
  <2> DEFINE ev == [topic |-> topic, msg |-> m, held |-> FALSE, status |-> "pending"]
  <2>1. ev \in EventType
    BY DEF EventType
  <2>2. inbox \in Seq(EventType) /\ Len(inbox) < MaxEvents /\ inbox' = Append(inbox, ev)
    BY <1>3, Bounds DEF Notify, ThreadTyped, InboxTyped, PlatformTyped
  <2>3. InboxTyped'
    <3> HIDE DEF ev
    <3>1. inbox' \in Seq(EventType) /\ Len(inbox') = Len(inbox) + 1 /\ Len(inbox) \in Nat
      BY <2>1, <2>2, AppendProperties
    <3> QED BY <2>2, <3>1, Bounds DEF InboxTyped
  <2> QED BY <1>3, <2>3, Kept DEF Notify, ThreadTyped
<1>4. ASSUME NEW state \in {"scheduled", "cleared"}, Schedule(state) PROVE ThreadTyped'
  <2>1. follow.cycle \in Cycle
    BY DEF ThreadTyped, RowTyped, FollowType
  <2>2. follow' = [state |-> state, cycle |-> Max({follow.cycle, 1})]
    BY <1>4 DEF Schedule
  <2>3. Max({follow.cycle, 1}) \in Cycle
    <3>1. CASE follow.cycle = 0
      <4>1. \A x \in {0, 1} : (\A y \in {0, 1} : x >= y) => x = 1
        OBVIOUS
      <4>2. 1 \in {0, 1} /\ \A y \in {0, 1} : 1 >= y
        OBVIOUS
      <4>3. Max({0, 1}) = 1
        BY <4>1, <4>2 DEF Max
      <4> QED BY <3>1, <4>3, Bounds
    <3>2. CASE follow.cycle # 0
      <4>1. {follow.cycle, 1} \in SUBSET (1..MaxMessages)
        BY <2>1, <3>2, Bounds
      <4>2. Max({follow.cycle, 1}) \in {follow.cycle, 1}
        BY <4>1, Bounds, Greatest
      <4> QED BY <2>1, <4>2, Bounds
    <3> QED BY <3>1, <3>2
  <2>4. RowTyped'
    <3> HIDE DEF Max
    <3> QED BY <1>4, <2>2, <2>3 DEF Schedule, ThreadTyped, RowTyped, FollowType
  <2> QED BY <1>4, <2>4, Kept DEF Schedule, ThreadTyped
<1> QED BY <1>1, <1>2, <1>3, <1>4

LEMMA IngestSteps ==
  ASSUME ThreadTyped, HandlerInv, NEW r \in Slot
  PROVE  /\ ClaimEvent(r) => ThreadTyped'
         /\ ReadThread(r) => ThreadTyped'
         /\ Quarantine(r) => ThreadTyped'
         /\ Reconcile(r) => ThreadTyped'
         /\ Transition(r) => ThreadTyped'
         /\ Tombstone(r) => ThreadTyped'
         /\ Complete(r) => ThreadTyped'
         /\ IngestFails(r) => ThreadTyped'
         /\ MarkEventFailed(r) => ThreadTyped'
<1>0. /\ PlatformTyped /\ RowTyped /\ LedgerTyped /\ InboxTyped /\ ActTyped /\ BreaksTyped
      /\ Fits(act[r]) /\ Handles(act[r])
  BY DEF ThreadTyped, ActTyped, HandlerInv
<1>a. ASSUME act[r].pc \notin Sending \cup {"messages"},
             NEW l \in {"read", "reconcile", "transition", "tombstone", "complete", "fail"},
             NEW S \in SUBSET Message
      PROVE  /\ Fits([act[r] EXCEPT !.pc = l])
             /\ Fits([act[r] EXCEPT !.pc = l, !.snap = S])
             /\ Fits([act[r] EXCEPT !.snap = S, !.pc = l])
  BY <1>0, <1>a DEF Fits, SlotType, ThreadPC, Sending
<1>1. ASSUME ClaimEvent(r) PROVE ThreadTyped'
  <2>1. PICK e \in DOMAIN inbox :
          /\ inbox' = [inbox EXCEPT ![e].status = "processing"]
          /\ act' = [act EXCEPT ![r] = [FreeSlot EXCEPT !.pc = "read", !.event = e]]
    BY <1>1 DEF ClaimEvent
  <2>2. e \in 0..MaxEvents
    BY <1>0, Bounds DEF InboxTyped
  <2>3. Fits([FreeSlot EXCEPT !.pc = "read", !.event = e])
    BY <2>2, FreeFits DEF Fits, SlotType, ThreadPC, Sending
  <2>4. InboxTyped'
    BY <1>0, <2>1, StatusSet
  <2> QED BY <1>0, <1>1, <2>1, <2>3, <2>4, SlotStep, Kept DEF ClaimEvent
<1>2. ASSUME ReadThread(r) PROVE ThreadTyped'
  <2>1. Shown \in SUBSET Message
    <3>1. DOMAIN thread = 1..Len(thread) /\ Len(thread) \in Nat /\ Len(thread) <= MaxMessages
      BY <1>0 DEF PlatformTyped
    <3> QED BY <3>1, Bounds DEF Shown
  <2>2. act[r].pc \notin Sending \cup {"messages"}
    BY <1>2 DEF ReadThread, Sending
  <2>3. act' = [act EXCEPT ![r] = [act[r] EXCEPT !.pc = "reconcile", !.snap = Shown]]
    BY <1>0, <1>2 DEF ReadThread, ActTyped, SlotType
  <2> QED BY <1>0, <1>2, <1>a, <2>1, <2>2, <2>3, SlotStep, Kept DEF ReadThread
<1>3. ASSUME Quarantine(r) PROVE ThreadTyped'
  <2>1. act[r].event \in DOMAIN inbox /\ act[r].pc \notin Sending \cup {"messages"}
    BY <1>0, <1>3 DEF Quarantine, ThreadAt, Handles, Sending
  <2>2. InboxTyped'
    BY <1>0, <1>3, <2>1, HeldSet DEF Quarantine
  <2>3. act' = [act EXCEPT ![r] = [act[r] EXCEPT !.pc = "complete"]]
    BY <1>0, <1>3, ToTurns DEF Quarantine
  <2>4. Fits([act[r] EXCEPT !.pc = "complete"])
    BY <1>a, <2>1
  <2> QED BY <1>0, <1>3, <2>2, <2>3, <2>4, SlotStep, Kept DEF Quarantine
<1>4. ASSUME Reconcile(r) PROVE ThreadTyped'
  <2>1. RowTyped'
    BY <1>0, <1>4 DEF Reconcile, RowTyped
  <2>2. PICK rec : Fits(rec) /\ act' = [act EXCEPT ![r] = rec]
    <3>1. act[r].pc \notin Sending \cup {"messages"}
      BY <1>4 DEF Reconcile, ThreadAt, Sending
    <3>2. Fits([act[r] EXCEPT !.pc = "transition"])
      BY <3>1, <1>a
    <3>3. To(r, "transition") => act' = [act EXCEPT ![r] = [act[r] EXCEPT !.pc = "transition"]]
      BY <1>0, ToTurns
    <3> QED BY <1>4, <3>2, <3>3, FreeFits DEF Reconcile, Done
  <2> QED BY <1>0, <1>4, <2>1, <2>2, SlotStep, Kept DEF Reconcile
<1>5. ASSUME Transition(r) PROVE ThreadTyped'
  <2>1. RowTyped'
    <3>1. follow \in FollowType
      BY <1>0 DEF RowTyped
    <3>2. /\ [follow EXCEPT !.state = "cleared"] \in FollowType
          /\ [follow EXCEPT !.state = "superseded"] \in FollowType
      BY <3>1 DEF FollowType
    <3>3. follow' \in {follow, [follow EXCEPT !.state = "cleared"],
                       [follow EXCEPT !.state = "superseded"]}
      BY <1>5 DEF Transition
    <3> QED BY <1>0, <1>5, <3>1, <3>2, <3>3 DEF Transition, RowTyped
  <2>2. PICK rec : Fits(rec) /\ act' = [act EXCEPT ![r] = rec]
    <3>1. act[r].pc \notin Sending \cup {"messages"} /\ {} \in SUBSET Message
      BY <1>5 DEF Transition, ThreadAt, Sending
    <3> DEFINE l == IF inbox[act[r].event].topic = "ADMIN_DELETED" THEN "tombstone"
                    ELSE "complete"
    <3>2. l \in {"read", "reconcile", "transition", "tombstone", "complete", "fail"}
      OBVIOUS
    <3>3. act' = [act EXCEPT ![r] = [act[r] EXCEPT !.snap = {}, !.pc = l]]
      BY <1>0, <1>5 DEF Transition, ActTyped, SlotType
    <3> HIDE DEF l
    <3> QED BY <3>1, <3>2, <3>3, <1>a
  <2> QED BY <1>0, <1>5, <2>1, <2>2, SlotStep, Kept DEF Transition
<1>6. ASSUME Tombstone(r) PROVE ThreadTyped'
  <2>1. RowTyped'
    BY <1>0, <1>6 DEF Tombstone, RowTyped
  <2>2. act[r].pc \notin Sending \cup {"messages"}
    BY <1>6 DEF Tombstone, ThreadAt, Sending
  <2>3. act' = [act EXCEPT ![r] = [act[r] EXCEPT !.pc = "complete"]]
    BY <1>0, <1>6, ToTurns DEF Tombstone
  <2>4. Fits([act[r] EXCEPT !.pc = "complete"])
    BY <1>a, <2>2
  <2> QED BY <1>0, <1>6, <2>1, <2>3, <2>4, SlotStep, Kept DEF Tombstone
<1>7. ASSUME Complete(r) PROVE ThreadTyped'
  <2>1. act[r].event \in DOMAIN inbox
    BY <1>0, <1>7 DEF Complete, ThreadAt, Handles
  <2>2. InboxTyped'
    BY <1>0, <1>7, <2>1, StatusSet DEF Complete
  <2> QED BY <1>0, <1>7, <2>2, SlotStep, FreeFits, Kept DEF Complete, Done
<1>8. ASSUME IngestFails(r) PROVE ThreadTyped'
  <2>1. InboxTyped'
    <3>1. CASE UNCHANGED inbox
      BY <1>0, <3>1, Kept
    <3>2. CASE ThreadAt(r, "complete") /\ inbox' = [inbox EXCEPT ![act[r].event].status = "completed"]
      <4>1. act[r].event \in DOMAIN inbox
        BY <1>0, <3>2 DEF ThreadAt, Handles
      <4> QED BY <1>0, <3>2, <4>1, StatusSet
    <3> QED BY <1>8, <3>1, <3>2 DEF IngestFails
  <2>2. PICK rec : Fits(rec) /\ act' = [act EXCEPT ![r] = rec]
    <3>1. act[r].pc \notin Sending \cup {"messages"} /\ {} \in SUBSET Message
      BY <1>8 DEF IngestFails, Sending
    <3>2. Fits([act[r] EXCEPT !.pc = "fail", !.snap = {}])
      BY <3>1, <1>a
    <3>3. act' = [act EXCEPT ![r].pc = "fail", ![r].snap = {}]
          => act' = [act EXCEPT ![r] = [act[r] EXCEPT !.pc = "fail", !.snap = {}]]
      BY <1>0 DEF ActTyped, SlotType
    <3> QED BY <1>8, <3>2, <3>3, FreeFits DEF IngestFails, AfterFailure, Done
  <2> QED BY <1>0, <1>8, <2>1, <2>2, SlotStep, Kept DEF IngestFails
<1>9. ASSUME MarkEventFailed(r) PROVE ThreadTyped'
  <2>1. act[r].event \in DOMAIN inbox
    BY <1>0, <1>9 DEF MarkEventFailed, ThreadAt, Handles
  <2>2. InboxTyped'
    BY <1>0, <1>9, <2>1, StatusSet DEF MarkEventFailed
  <2> QED BY <1>0, <1>9, <2>2, SlotStep, FreeFits, Kept DEF MarkEventFailed, Done
<1> QED BY <1>1, <1>2, <1>3, <1>4, <1>5, <1>6, <1>7, <1>8, <1>9

LEMMA FinalizedTyped ==
  ASSUME RowTyped, LedgerTyped, follow.cycle < MaxMessages, NEW k \in Key,
         NEW m \in 0..MaxMessages, Finalized(k, m), UNCHANGED remarks
  PROVE  RowTyped' /\ LedgerTyped'
<1>1. /\ follow \in FollowType /\ follow.cycle \in 0..MaxMessages
      /\ follow.cycle + 1 \in Cycle
  BY Bounds DEF RowTyped, FollowType
<1>2. /\ [follow EXCEPT !.state = "followed_up"] \in FollowType
      /\ [state |-> "scheduled", cycle |-> follow.cycle + 1] \in FollowType
  BY <1>1 DEF FollowType
<1>3. follow' \in FollowType
  BY <1>2 DEF Finalized
<1>4. RowTyped'
  BY <1>3 DEF Finalized, RowTyped
<1>5. LedgerTyped'
  BY DEF Finalized, Write, LedgerTyped, OpStatus
<1> QED BY <1>4, <1>5

LEMMA Written ==
  ASSUME LedgerTyped, NEW k, NEW status \in OpStatus, Write(k, status), UNCHANGED remarks
  PROVE  LedgerTyped'
BY DEF LedgerTyped, Write

LEMMA SendSteps ==
  ASSUME ThreadTyped, NEW r \in Slot
  PROVE  /\ SendContext(r) => ThreadTyped'
         /\ SendMessages(r) => ThreadTyped'
         /\ SendClaim(r) => ThreadTyped'
         /\ FreshRead(r) => ThreadTyped'
         /\ FreshReadFails(r) => ThreadTyped'
         /\ MarkFailed(r) => ThreadTyped'
         /\ StaleMarkLost(r) => ThreadTyped'
         /\ Mutate(r) => ThreadTyped'
         /\ MutateFails(r) => ThreadTyped'
         /\ MarkSent(r) => ThreadTyped'
         /\ ReadBack(r) => ThreadTyped'
         /\ Finalize(r) => ThreadTyped'
         /\ SendFails(r) => ThreadTyped'
         /\ MarkAmbiguous(r) => ThreadTyped'
         /\ ThreadCrash(r) => ThreadTyped'
<1>0. /\ PlatformTyped /\ RowTyped /\ LedgerTyped /\ InboxTyped /\ ActTyped /\ BreaksTyped
      /\ Fits(act[r])
  BY DEF ThreadTyped, ActTyped
<1>a. ASSUME act[r].pc \in Sending, NEW l \in Sending
      PROVE  Fits([act[r] EXCEPT !.pc = l]) /\ act[r].key \in Key
  BY <1>0, <1>a DEF Fits, SlotType, ThreadPC, Sending
<1>b. ASSUME act[r].pc \in Sending, NEW l \in Sending, To(r, l)
      PROVE  ActTyped'
  BY <1>0, <1>a, <1>b, ToTurns, Turned
<1>c. Done(r) => ActTyped'
  BY <1>0, FreeFits, Turned DEF Done
<1>d. ActTyped' /\ PlatformTyped' /\ RowTyped' /\ LedgerTyped' /\ InboxTyped' /\ BreaksTyped'
      => ThreadTyped'
  BY DEF ThreadTyped
<1>1. ASSUME SendContext(r) PROVE ThreadTyped'
  <2>1. PICK k \in {<<"reply", 0>>, <<"cycle", follow.cycle>>} :
          act' = [act EXCEPT ![r] = [FreeSlot EXCEPT !.pc = "messages", !.key = k]]
    BY <1>1 DEF SendContext
  <2>2. follow.cycle \in Cycle
    BY <1>0 DEF RowTyped, FollowType
  <2>3. k \in {<<"reply", 0>>} \cup ({"cycle"} \X Cycle)
    BY <2>2
  <2>4. k \in Key \cup {<<"reply", 0>>}
    BY <2>3, KeyFacts
  <2>5. Fits([FreeSlot EXCEPT !.pc = "messages", !.key = k])
    BY <2>3, <2>4, FreeFits DEF Fits, SlotType, ThreadPC, Sending
  <2> QED BY <1>0, <1>1, <2>1, <2>5, SlotStep, Kept DEF SendContext
<1>2. ASSUME SendMessages(r) PROVE ThreadTyped'
  <2> DEFINE latest == Latest(StoredActive)
             k == IF act[r].key[1] = "reply" THEN <<"reply", latest>> ELSE act[r].key
  <2>1. ASSUME latest # 0,
               act' = [act EXCEPT ![r].pc = "claim", ![r].seen = latest,
                                  ![r].key = IF @[1] = "reply" THEN <<"reply", latest>> ELSE @]
        PROVE  ActTyped'
    <3>1. act' = [act EXCEPT ![r] = [act[r] EXCEPT !.pc = "claim", !.seen = latest, !.key = k]]
      BY <1>0, <2>1 DEF ActTyped, SlotType
    <3>2. StoredActive \in SUBSET Message
      BY DEF StoredActive
    <3>3. latest \in 0..MaxMessages /\ latest \in Message
      BY <2>1, <3>2, LatestType, Bounds
    <3>4. act[r].key \in {<<"reply", 0>>} \cup ({"cycle"} \X Cycle)
      BY <1>0, <1>2 DEF SendMessages, ThreadAt, Fits
    <3>5. k \in Key
      <4> HIDE DEF latest
      <4> QED BY <3>3, <3>4, KeyFacts
    <3>6. Fits([act[r] EXCEPT !.pc = "claim", !.seen = latest, !.key = k])
      <4> HIDE DEF latest, k
      <4> QED BY <1>0, <3>3, <3>5, KeyFacts DEF Fits, SlotType, ThreadPC
    <3> HIDE DEF latest, k
    <3> QED BY <1>0, <3>1, <3>6, Turned
  <2>2. ActTyped'
    BY <1>2, <1>c, <2>1 DEF SendMessages, Evidence
  <2> QED BY <1>0, <1>2, <1>d, <2>2, Kept DEF SendMessages
<1>3. ASSUME SendClaim(r) PROVE ThreadTyped'
  <2>1. ActTyped'
    BY <1>3, <1>b, <1>c DEF SendClaim, ThreadAt, Sending
  <2>2. LedgerTyped'
    <3>1. "pending" \in OpStatus
      BY DEF OpStatus
    <3>2. CASE Write(act[r].key, "pending")
      BY <1>0, <1>3, <3>1, <3>2, Written DEF SendClaim
    <3>3. CASE UNCHANGED ops
      BY <1>0, <1>3, <3>3, Kept DEF SendClaim, ledgerVars
    <3> QED BY <1>3, <3>2, <3>3 DEF SendClaim
  <2> QED BY <1>0, <1>3, <1>d, <2>1, <2>2, Kept DEF SendClaim
<1>4. ASSUME FreshRead(r) PROVE ThreadTyped'
  <2>1. ActTyped'
    <3> DEFINE l == IF Latest(Shown) = act[r].seen THEN "mutate" ELSE "stale"
    <3>1. l \in Sending /\ act[r].pc \in Sending /\ To(r, l)
      BY <1>4 DEF FreshRead, ThreadAt, Sending
    <3> HIDE DEF l
    <3> QED BY <3>1, <1>b
  <2> QED BY <1>0, <1>4, <1>d, <2>1, Kept DEF FreshRead
<1>5. ASSUME FreshReadFails(r) PROVE ThreadTyped'
  <2>1. ActTyped'
    BY <1>5, <1>b DEF FreshReadFails, ThreadAt, Sending
  <2> QED BY <1>0, <1>5, <1>d, <2>1, Kept DEF FreshReadFails
<1>6. ASSUME MarkFailed(r) PROVE ThreadTyped'
  <2>1. act[r].key \in Key
    BY <1>6, <1>a DEF MarkFailed, Sending
  <2>2. LedgerTyped'
    <3>1. remarks' \in [Key -> Nat]
      BY <1>0, <1>6, <2>1 DEF MarkFailed, LedgerTyped
    <3> QED BY <1>0, <1>6, <3>1 DEF MarkFailed, LedgerTyped, Write, OpStatus
  <2> QED BY <1>0, <1>6, <1>c, <1>d, <2>2, Kept DEF MarkFailed
<1>7. ASSUME StaleMarkLost(r) PROVE ThreadTyped'
  <2>1. ActTyped'
    BY <1>7, <1>b DEF StaleMarkLost, ThreadAt, Sending
  <2>2. LedgerTyped'
    <3>1. "failed" \in OpStatus
      BY DEF OpStatus
    <3>2. CASE Write(act[r].key, "failed")
      BY <1>0, <1>7, <3>1, <3>2, Written DEF StaleMarkLost
    <3>3. CASE UNCHANGED ops
      BY <1>0, <1>7, <3>3, Kept DEF StaleMarkLost, ledgerVars
    <3> QED BY <1>7, <3>2, <3>3 DEF StaleMarkLost
  <2> QED BY <1>0, <1>7, <1>d, <2>1, <2>2, Kept DEF StaleMarkLost
<1>8. ASSUME Mutate(r) PROVE ThreadTyped'
  <2>1. act[r].key \in Key
    BY <1>8, <1>a DEF Mutate, ThreadAt, Sending
  <2>2. PlatformTyped' /\ Len(thread) + 1 \in Message
    BY <1>0, <1>8, <2>1, OneMore DEF Mutate, Accept
  <2>3. act' = [act EXCEPT ![r] = [act[r] EXCEPT !.pc = "sent", !.seen = Len(thread) + 1]]
    BY <1>0, <1>8 DEF Mutate, ActTyped, SlotType
  <2>4. Fits([act[r] EXCEPT !.pc = "sent", !.seen = Len(thread) + 1])
    <3>1. Len(thread) + 1 \in 0..MaxMessages
      BY <2>2, Bounds
    <3> QED BY <1>0, <2>1, <3>1, KeyFacts DEF Fits, SlotType, ThreadPC
  <2> QED BY <1>0, <1>8, <2>2, <2>3, <2>4, SlotStep, Kept DEF Mutate
<1>9. ASSUME MutateFails(r) PROVE ThreadTyped'
  <2>1. act[r].key \in Key
    BY <1>9, <1>a DEF MutateFails, ThreadAt, Sending
  <2>2. PlatformTyped'
    <3>1. CASE UNCHANGED thread
      BY <1>0, <1>9, <3>1, Kept DEF MutateFails, platform
    <3>2. CASE Room /\ Accept(r)
      BY <1>0, <1>9, <2>1, <3>2, OneMore DEF MutateFails, Accept
    <3> QED BY <1>9, <3>1, <3>2 DEF MutateFails
  <2>3. ActTyped'
    BY <1>9, <1>b DEF MutateFails, Unanswered, ThreadAt, Sending
  <2> QED BY <1>0, <1>9, <1>d, <2>2, <2>3, Kept DEF MutateFails
<1>10. ASSUME MarkSent(r) PROVE ThreadTyped'
  <2>1. ActTyped'
    BY <1>10, <1>b DEF MarkSent, ThreadAt, Sending
  <2>2. LedgerTyped'
    <3>1. "sent" \in OpStatus
      BY DEF OpStatus
    <3> QED BY <1>0, <1>10, <3>1, Written DEF MarkSent
  <2> QED BY <1>0, <1>10, <1>d, <2>1, <2>2, Kept DEF MarkSent
<1>11. ASSUME ReadBack(r) PROVE ThreadTyped'
  <2>1. ActTyped'
    <3> DEFINE l == IF act[r].seen \in Shown THEN "finalize" ELSE "unsure"
    <3>1. l \in Sending /\ act[r].pc \in Sending /\ To(r, l)
      BY <1>11 DEF ReadBack, ThreadAt, Sending
    <3> HIDE DEF l
    <3> QED BY <3>1, <1>b
  <2> QED BY <1>0, <1>11, <1>d, <2>1, Kept DEF ReadBack
<1>e. act[r].seen \in 0..MaxMessages
  BY <1>0 DEF Fits, SlotType
<1>12. ASSUME Finalize(r) PROVE ThreadTyped'
  <2>1. ActTyped'
    BY <1>12, <1>b, <1>c DEF Finalize, ThreadAt, Sending
  <2>2. RowTyped' /\ LedgerTyped'
    <3>1. CASE follow.cycle < MaxMessages /\ Finalized(act[r].key, act[r].seen)
      <4>1. act[r].key \in Key
        BY <1>12, <1>a DEF Finalize, ThreadAt, Sending
      <4> QED BY <1>0, <1>12, <1>e, <3>1, <4>1, FinalizedTyped DEF Finalize
    <3>2. CASE UNCHANGED <<ops, stored, follow, lastSent>>
      BY <1>0, <1>12, <3>2, Kept DEF Finalize, ledgerVars
    <3> QED BY <1>12, <3>1, <3>2 DEF Finalize
  <2> QED BY <1>0, <1>12, <1>d, <2>1, <2>2, Kept DEF Finalize
<1>13. ASSUME SendFails(r) PROVE ThreadTyped'
  <2>1. ActTyped'
    BY <1>13, <1>b DEF SendFails, Sending
  <2>2. RowTyped' /\ LedgerTyped'
    <3>1. CASE UNCHANGED <<ops, stored, follow, lastSent>>
      BY <1>0, <1>13, <3>1, Kept DEF SendFails, ledgerVars
    <3>2. CASE Write(act[r].key, "sent") /\ UNCHANGED <<stored, follow, lastSent>>
      <4>1. "sent" \in OpStatus
        BY DEF OpStatus
      <4> QED BY <1>0, <1>13, <3>2, <4>1, Written, Kept DEF SendFails
    <3>3. CASE follow.cycle < MaxMessages /\ Finalized(act[r].key, act[r].seen)
      <4>1. act[r].key \in Key
        BY <1>13, <1>a DEF SendFails, Sending
      <4> QED BY <1>0, <1>13, <1>e, <3>3, <4>1, FinalizedTyped DEF SendFails
    <3> QED BY <1>13, <3>1, <3>2, <3>3 DEF SendFails
  <2> QED BY <1>0, <1>13, <1>d, <2>1, <2>2, Kept DEF SendFails
<1>14. ASSUME MarkAmbiguous(r) PROVE ThreadTyped'
  <2>1. LedgerTyped'
    <3>1. "ambiguous" \in OpStatus
      BY DEF OpStatus
    <3> QED BY <1>0, <1>14, <3>1, Written DEF MarkAmbiguous
  <2> QED BY <1>0, <1>14, <1>c, <1>d, <2>1, Kept DEF MarkAmbiguous
<1>15. ASSUME ThreadCrash(r) PROVE ThreadTyped'
  BY <1>0, <1>15, <1>c, <1>d, Kept DEF ThreadCrash
<1> QED BY <1>1, <1>2, <1>3, <1>4, <1>5, <1>6, <1>7, <1>8, <1>9, <1>10, <1>11, <1>12,
           <1>13, <1>14, <1>15

LEMMA ThreadStepTyped == ThreadTyped /\ HandlerInv /\ [TNext]_tvars => ThreadTyped'
<1> SUFFICES ASSUME ThreadTyped, HandlerInv, [TNext]_tvars PROVE ThreadTyped'
  OBVIOUS
<1>1. CASE TNext
  BY <1>1, PlatformSteps, IngestSteps, SendSteps DEF TNext
<1>2. CASE UNCHANGED tvars
  BY <1>2, Kept DEF tvars, ThreadTyped
<1> QED BY <1>1, <1>2

-----------------------------------------------------------------------------
(* The thread: what no step takes back *)

\* Messages stay where the platform put them, a deleted one stays deleted, a
\* row stays in the table, an event stays in the inbox and a held one held.
Onward ==
  /\ \A m \in DOMAIN thread : m \in DOMAIN thread' /\ thread'[m] = thread[m]
  /\ gone \subseteq gone'
  /\ \A m \in Message : stored[m] # "none" => stored'[m] # "none"
  /\ \A e \in DOMAIN inbox : /\ e \in DOMAIN inbox'
                             /\ inbox'[e].topic = inbox[e].topic
                             /\ inbox'[e].msg = inbox[e].msg
                             /\ inbox[e].held => inbox'[e].held

\* The thread grows by what a buyer writes or an operator's handler sends.
LEMMA ThreadFootprint ==
  ASSUME ThreadTyped, TNext
  PROVE  \/ UNCHANGED thread
         \/ \E k \in Key \cup {NoKey} :
              Room /\ thread' = Append(thread, k) /\ UNCHANGED <<start, gone>>
<1> DEFINE Goal == \/ UNCHANGED thread
                   \/ \E k \in Key \cup {NoKey} :
                        Room /\ thread' = Append(thread, k) /\ UNCHANGED <<start, gone>>
<1>1. CASE BuyerWrites
  BY <1>1 DEF BuyerWrites
<1>2. ASSUME NEW m \in Message, AdminDeletes(m) PROVE Goal
  BY <1>2 DEF AdminDeletes
<1>3. ASSUME NEW topic \in Topic, NEW m \in 0..MaxMessages, Notify(topic, m) PROVE Goal
  BY <1>3 DEF Notify, platform
<1>4. ASSUME NEW state \in {"scheduled", "cleared"}, Schedule(state) PROVE Goal
  BY <1>4 DEF Schedule, platform
<1>5. ASSUME NEW r \in Slot, Mutate(r) \/ MutateFails(r) PROVE Goal
  <2>1. Fits(act[r]) /\ act[r].pc = "mutate"
    BY <1>5 DEF Mutate, MutateFails, ThreadAt, ThreadTyped, ActTyped
  <2>2. act[r].key \in Key
    BY <2>1 DEF Fits, Sending
  <2> QED BY <1>5, <2>2 DEF Mutate, MutateFails, Accept
<1>6. ASSUME NEW r \in Slot,
             \/ ClaimEvent(r) \/ ReadThread(r) \/ Quarantine(r)
             \/ Reconcile(r) \/ Transition(r) \/ Tombstone(r) \/ Complete(r)
             \/ IngestFails(r) \/ MarkEventFailed(r)
      PROVE Goal
  BY <1>6 DEF ClaimEvent, ReadThread, Quarantine, Reconcile, Transition, Tombstone,
              Complete, IngestFails, MarkEventFailed, platform
<1>7. ASSUME NEW r \in Slot,
             \/ SendContext(r) \/ SendMessages(r) \/ SendClaim(r)
             \/ FreshRead(r) \/ FreshReadFails(r) \/ MarkFailed(r) \/ StaleMarkLost(r)
             \/ MarkSent(r) \/ ReadBack(r)
             \/ Finalize(r) \/ SendFails(r) \/ MarkAmbiguous(r) \/ ThreadCrash(r)
      PROVE Goal
  BY <1>7 DEF SendContext, SendMessages, SendClaim, FreshRead, FreshReadFails, MarkFailed,
              StaleMarkLost, MarkSent, ReadBack, Finalize, SendFails, MarkAmbiguous,
              ThreadCrash, platform
<1> QED BY <1>1, <1>2, <1>3, <1>4, <1>5, <1>6, <1>7 DEF TNext

LEMMA GoneFootprint == TNext => gone \subseteq gone'
<1> SUFFICES ASSUME TNext PROVE gone \subseteq gone'
  OBVIOUS
<1>1. ASSUME NEW m \in Message, AdminDeletes(m) PROVE gone \subseteq gone'
  BY <1>1 DEF AdminDeletes
<1>2. CASE \/ BuyerWrites
           \/ \E topic \in Topic, m \in 0..MaxMessages : Notify(topic, m)
           \/ \E state \in {"scheduled", "cleared"} : Schedule(state)
  BY <1>2 DEF BuyerWrites, Notify, Schedule, platform
<1>3. ASSUME NEW r \in Slot,
             \/ ClaimEvent(r) \/ ReadThread(r) \/ Quarantine(r)
             \/ Reconcile(r) \/ Transition(r) \/ Tombstone(r) \/ Complete(r)
             \/ IngestFails(r) \/ MarkEventFailed(r)
      PROVE gone \subseteq gone'
  BY <1>3 DEF ClaimEvent, ReadThread, Quarantine, Reconcile, Transition, Tombstone,
              Complete, IngestFails, MarkEventFailed, platform
<1>4. ASSUME NEW r \in Slot,
             \/ SendContext(r) \/ SendMessages(r) \/ SendClaim(r)
             \/ FreshRead(r) \/ FreshReadFails(r) \/ MarkFailed(r) \/ StaleMarkLost(r)
             \/ Mutate(r) \/ MutateFails(r) \/ MarkSent(r) \/ ReadBack(r)
             \/ Finalize(r) \/ SendFails(r) \/ MarkAmbiguous(r) \/ ThreadCrash(r)
      PROVE gone \subseteq gone'
  BY <1>4 DEF SendContext, SendMessages, SendClaim, FreshRead, FreshReadFails, MarkFailed,
              StaleMarkLost, Mutate, MutateFails, MarkSent, ReadBack, Finalize, SendFails,
              MarkAmbiguous, ThreadCrash, platform
<1> QED BY <1>1, <1>2, <1>3, <1>4 DEF TNext

\* The rows: a readback, a tombstone and a finalize write them.
LEMMA StoredFootprint ==
  ASSUME ThreadTyped, TNext
  PROVE  \/ \A m \in Message : stored'[m] = stored[m] \/ stored'[m] = "active"
         \/ \E r \in Slot : Tombstone(r)
<1> DEFINE Goal == \/ \A m \in Message : stored'[m] = stored[m] \/ stored'[m] = "active"
                   \/ \E r \in Slot : Tombstone(r)
<1>0. stored \in [Message -> {"none", "active", "deleted"}]
  BY DEF ThreadTyped, RowTyped
<1>1. CASE \/ BuyerWrites
           \/ \E m \in Message : AdminDeletes(m)
           \/ \E topic \in Topic, m \in 0..MaxMessages : Notify(topic, m)
           \/ \E state \in {"scheduled", "cleared"} : Schedule(state)
  BY <1>1 DEF BuyerWrites, AdminDeletes, Notify, Schedule
<1>2. ASSUME NEW r \in Slot, Reconcile(r) PROVE Goal
  BY <1>2 DEF Reconcile
<1>3. ASSUME NEW r \in Slot, Tombstone(r) PROVE Goal
  BY <1>3
<1>4. ASSUME NEW r \in Slot, Finalize(r) \/ SendFails(r) PROVE Goal
  BY <1>0, <1>4 DEF Finalize, SendFails, Finalized
<1>5. ASSUME NEW r \in Slot,
             \/ ClaimEvent(r) \/ ReadThread(r) \/ Quarantine(r) \/ Transition(r)
             \/ Complete(r) \/ IngestFails(r) \/ MarkEventFailed(r)
      PROVE Goal
  BY <1>5 DEF ClaimEvent, ReadThread, Quarantine, Transition, Complete, IngestFails,
              MarkEventFailed
<1>6. ASSUME NEW r \in Slot,
             \/ SendContext(r) \/ SendMessages(r) \/ SendClaim(r)
             \/ FreshRead(r) \/ FreshReadFails(r) \/ MarkFailed(r) \/ StaleMarkLost(r)
             \/ Mutate(r) \/ MutateFails(r) \/ MarkSent(r) \/ ReadBack(r)
             \/ MarkAmbiguous(r) \/ ThreadCrash(r)
      PROVE Goal
  BY <1>6 DEF SendContext, SendMessages, SendClaim, FreshRead, FreshReadFails, MarkFailed,
              StaleMarkLost, Mutate, MutateFails, MarkSent, ReadBack, MarkAmbiguous,
              ThreadCrash
<1> QED BY <1>1, <1>2, <1>3, <1>4, <1>5, <1>6 DEF TNext

\* The inbox: a notification appends to it, a handler marks its event.  An
\* event becomes completed only by the handler that reached that call.
LEMMA InboxFootprint ==
  ASSUME ThreadTyped, HandlerInv, TNext
  PROVE  \/ UNCHANGED inbox
         \/ \E topic \in Topic, m \in 0..MaxMessages : Notify(topic, m)
         \/ \E e \in DOMAIN inbox :
              /\ DOMAIN inbox' = DOMAIN inbox
              /\ inbox'[e] = [inbox[e] EXCEPT !.held = TRUE]
              /\ \A d \in DOMAIN inbox : d # e => inbox'[d] = inbox[d]
         \/ \E e \in DOMAIN inbox, s \in {"processing", "completed", "failed"} :
              /\ DOMAIN inbox' = DOMAIN inbox
              /\ inbox'[e] = [inbox[e] EXCEPT !.status = s]
              /\ \A d \in DOMAIN inbox : d # e => inbox'[d] = inbox[d]
              /\ s = "completed"
                 => \E r \in Slot : act[r].pc = "complete" /\ act[r].event = e
<1> DEFINE Marked(e, s) ==
              /\ DOMAIN inbox' = DOMAIN inbox
              /\ inbox'[e] = [inbox[e] EXCEPT !.status = s]
              /\ \A d \in DOMAIN inbox : d # e => inbox'[d] = inbox[d]
              /\ s = "completed"
                 => \E r \in Slot : act[r].pc = "complete" /\ act[r].event = e
           Kept4 == \E e \in DOMAIN inbox, s \in {"processing", "completed", "failed"} :
                      Marked(e, s)
           Held3 == \E e \in DOMAIN inbox :
              /\ DOMAIN inbox' = DOMAIN inbox
              /\ inbox'[e] = [inbox[e] EXCEPT !.held = TRUE]
              /\ \A d \in DOMAIN inbox : d # e => inbox'[d] = inbox[d]
<1>0. InboxTyped /\ \A r \in Slot : Handles(act[r])
  BY DEF ThreadTyped, HandlerInv
<1>1. ASSUME \/ BuyerWrites
             \/ \E m \in Message : AdminDeletes(m)
             \/ \E state \in {"scheduled", "cleared"} : Schedule(state)
      PROVE UNCHANGED inbox
  BY <1>1 DEF BuyerWrites, AdminDeletes, Schedule
<1>2. ASSUME NEW r \in Slot, ClaimEvent(r) PROVE Kept4
  <2>1. PICK e \in DOMAIN inbox : inbox' = [inbox EXCEPT ![e].status = "processing"]
    BY <1>2 DEF ClaimEvent
  <2>2. Marked(e, "processing")
    BY <1>0, <2>1, StatusSet
  <2> QED BY <2>2
<1>3. ASSUME NEW r \in Slot, Quarantine(r) PROVE Held3
  <2>1. act[r].event \in DOMAIN inbox
    BY <1>0, <1>3 DEF Quarantine, Handles
  <2> QED BY <1>0, <1>3, <2>1, HeldSet DEF Quarantine
<1>4. ASSUME NEW r \in Slot, act[r].pc = "complete",
             inbox' = [inbox EXCEPT ![act[r].event].status = "completed"]
      PROVE Kept4
  <2>1. act[r].event \in DOMAIN inbox
    BY <1>0, <1>4 DEF Handles
  <2>2. Marked(act[r].event, "completed")
    BY <1>0, <1>4, <2>1, StatusSet
  <2> QED BY <2>1, <2>2
<1>5. ASSUME NEW r \in Slot, MarkEventFailed(r) PROVE Kept4
  <2>1. act[r].event \in DOMAIN inbox
    BY <1>0, <1>5 DEF MarkEventFailed, ThreadAt, Handles
  <2>2. Marked(act[r].event, "failed")
    BY <1>0, <1>5, <2>1, StatusSet DEF MarkEventFailed
  <2> QED BY <2>1, <2>2
<1>6. ASSUME NEW r \in Slot, Complete(r) \/ IngestFails(r) PROVE UNCHANGED inbox \/ Kept4
  <2>1. \/ UNCHANGED inbox
        \/ /\ act[r].pc = "complete"
           /\ inbox' = [inbox EXCEPT ![act[r].event].status = "completed"]
    BY <1>6 DEF Complete, IngestFails, ThreadAt
  <2> HIDE DEF Kept4
  <2> QED BY <1>4, <2>1
<1>7. ASSUME NEW r \in Slot,
             ReadThread(r) \/ Reconcile(r) \/ Transition(r) \/ Tombstone(r)
      PROVE UNCHANGED inbox
  BY <1>7 DEF ReadThread, Reconcile, Transition, Tombstone
<1>8. ASSUME NEW r \in Slot,
             \/ SendContext(r) \/ SendMessages(r) \/ SendClaim(r)
             \/ FreshRead(r) \/ FreshReadFails(r) \/ MarkFailed(r) \/ StaleMarkLost(r)
             \/ Mutate(r) \/ MutateFails(r) \/ MarkSent(r) \/ ReadBack(r)
             \/ Finalize(r) \/ SendFails(r) \/ MarkAmbiguous(r) \/ ThreadCrash(r)
      PROVE UNCHANGED inbox
  BY <1>8 DEF SendContext, SendMessages, SendClaim, FreshRead, FreshReadFails, MarkFailed,
              StaleMarkLost, Mutate, MutateFails, MarkSent, ReadBack, Finalize, SendFails,
              MarkAmbiguous, ThreadCrash
<1>9. \/ UNCHANGED inbox
      \/ \E topic \in Topic, m \in 0..MaxMessages : Notify(topic, m)
      \/ Held3 \/ Kept4
  <2> DEFINE Heard == \E topic \in Topic, m \in 0..MaxMessages : Notify(topic, m)
  <2> HIDE DEF Kept4, Held3, Heard
  <2>1. CASE \E r \in Slot :
               \/ ClaimEvent(r) \/ ReadThread(r) \/ Quarantine(r)
               \/ Reconcile(r) \/ Transition(r) \/ Tombstone(r) \/ Complete(r)
               \/ IngestFails(r) \/ MarkEventFailed(r)
    BY <1>2, <1>3, <1>5, <1>6, <1>7, <2>1
  <2>2. CASE \E r \in Slot :
               \/ SendContext(r) \/ SendMessages(r) \/ SendClaim(r)
               \/ FreshRead(r) \/ FreshReadFails(r) \/ MarkFailed(r) \/ StaleMarkLost(r)
               \/ Mutate(r) \/ MutateFails(r) \/ MarkSent(r) \/ ReadBack(r)
               \/ Finalize(r) \/ SendFails(r) \/ MarkAmbiguous(r) \/ ThreadCrash(r)
    BY <1>8, <2>2
  <2>3. CASE Heard
    BY <2>3 DEF Heard
  <2> QED BY <1>1, <2>1, <2>2, <2>3 DEF TNext, Heard
<1> QED BY <1>9

LEMMA OnwardHolds == ThreadTyped /\ HandlerInv /\ TNext => Onward
<1> SUFFICES ASSUME ThreadTyped, HandlerInv, TNext PROVE Onward
  OBVIOUS
<1>0. /\ PlatformTyped /\ InboxTyped
      /\ stored \in [Message -> {"none", "active", "deleted"}]
  BY DEF ThreadTyped, RowTyped
<1>1. \A m \in DOMAIN thread : m \in DOMAIN thread' /\ thread'[m] = thread[m]
  <2>1. CASE UNCHANGED thread
    BY <2>1
  <2>2. ASSUME NEW k \in Key \cup {NoKey}, Room, thread' = Append(thread, k),
               UNCHANGED <<start, gone>>
        PROVE  \A m \in DOMAIN thread : m \in DOMAIN thread' /\ thread'[m] = thread[m]
    BY <1>0, <2>2, OneMore
  <2> QED BY <2>1, <2>2, ThreadFootprint
<1>2. \A m \in Message : stored[m] # "none" => stored'[m] # "none"
  <2>1. ASSUME NEW r \in Slot, Tombstone(r), NEW m \in Message, stored[m] # "none"
        PROVE  stored'[m] # "none"
    BY <1>0, <2>1 DEF Tombstone
  <2> QED BY <2>1, StoredFootprint
<1>3. \A e \in DOMAIN inbox : /\ e \in DOMAIN inbox'
                              /\ inbox'[e].topic = inbox[e].topic
                              /\ inbox'[e].msg = inbox[e].msg
                              /\ inbox[e].held => inbox'[e].held
  <2>0. \A e \in DOMAIN inbox : inbox[e] \in EventType
    BY <1>0, EventTyped
  <2>1. ASSUME NEW topic \in Topic, NEW m \in 0..MaxMessages, Notify(topic, m),
               NEW e \in DOMAIN inbox
        PROVE  e \in DOMAIN inbox' /\ inbox'[e] = inbox[e]
    <3> DEFINE ev == [topic |-> topic, msg |-> m, held |-> FALSE, status |-> "pending"]
    <3>1. inbox \in Seq(EventType) /\ ev \in EventType /\ inbox' = Append(inbox, ev)
      BY <1>0, <2>1 DEF Notify, InboxTyped, EventType
    <3> HIDE DEF ev
    <3> QED BY <3>1, AppendProperties
  <2> DEFINE Same(e) == /\ e \in DOMAIN inbox'
                        /\ inbox'[e].topic = inbox[e].topic
                        /\ inbox'[e].msg = inbox[e].msg
                        /\ inbox[e].held => inbox'[e].held
  <2>2. ASSUME NEW d \in DOMAIN inbox, DOMAIN inbox' = DOMAIN inbox,
               \/ inbox'[d] = [inbox[d] EXCEPT !.held = TRUE]
               \/ \E s \in {"processing", "completed", "failed"} :
                    inbox'[d] = [inbox[d] EXCEPT !.status = s],
               \A c \in DOMAIN inbox : c # d => inbox'[c] = inbox[c],
               NEW e \in DOMAIN inbox
        PROVE  Same(e)
    <3>1. CASE e = d
      BY <2>0, <2>2, <3>1 DEF EventType
    <3>2. CASE e # d
      BY <2>2, <3>2
    <3> QED BY <3>1, <3>2
  <2>3. ASSUME UNCHANGED inbox, NEW e \in DOMAIN inbox PROVE Same(e)
    BY <2>3
  <2>4. ASSUME NEW e \in DOMAIN inbox, e \in DOMAIN inbox', inbox'[e] = inbox[e] PROVE Same(e)
    BY <2>4
  <2>5. \A e \in DOMAIN inbox : Same(e)
    <3> HIDE DEF Same
    <3> QED BY <2>1, <2>2, <2>3, <2>4, InboxFootprint
  <2> QED BY <2>5
<1> QED BY <1>1, <1>2, <1>3, GoneFootprint DEF Onward

-----------------------------------------------------------------------------
(* The thread: events are accounted for *)

\* A notification tells of a message that is there, or of a deletion that was.
Truthful(e) ==
  /\ Created(e) => inbox[e].msg \in DOMAIN thread
  /\ inbox[e].topic = "ADMIN_DELETED" => inbox[e].msg \in gone
  /\ Created(e) /\ inbox[e].status = "completed" => Accounted(e)
InboxInv == \A e \in DOMAIN inbox : Truthful(e)

\* A row is deleted only after the message was.
DeletedInv == \A m \in Message : stored[m] = "deleted" => m \in gone

EventInv == HandlerInv /\ InboxInv /\ DeletedInv

LEMMA ThreadDomain ==
  PlatformTyped => DOMAIN thread = 1..Len(thread) /\ Len(thread) \in Nat
                   /\ DOMAIN thread \subseteq Message
BY Bounds DEF PlatformTyped

LEMMA EventOn ==
  ASSUME Onward, NEW e \in DOMAIN inbox
  PROVE  /\ e \in DOMAIN inbox'
         /\ inbox'[e].topic = inbox[e].topic /\ inbox'[e].msg = inbox[e].msg
         /\ inbox[e].held => inbox'[e].held
<1>1. /\ e \in DOMAIN inbox'
      /\ inbox'[e].topic = inbox[e].topic /\ inbox'[e].msg = inbox[e].msg
  BY Zenon DEF Onward
<1>2. inbox[e].held => inbox'[e].held
  BY Zenon DEF Onward
<1> QED BY <1>1, <1>2

LEMMA PlatformOn ==
  Onward => /\ DOMAIN thread \subseteq DOMAIN thread' /\ gone \subseteq gone'
            /\ \A m \in DOMAIN thread : thread'[m] = thread[m]
            /\ \A m \in Message : stored[m] # "none" => stored'[m] # "none"
BY Zenon DEF Onward

LEMMA AccountKept ==
  ASSUME ThreadTyped, Onward, NEW e \in DOMAIN inbox, Truthful(e), Created(e), Accounted(e)
  PROVE  Created(e)' /\ Accounted(e)'
<1>1. inbox[e].msg \in Message /\ inbox[e] \in EventType
  BY ThreadDomain, EventTyped DEF Truthful, ThreadTyped
<1> QED BY <1>1, EventOn, PlatformOn DEF Accounted, Created

\* What another slot knows stays true.
LEMMA OtherHandles ==
  ASSUME ThreadTyped, Onward, InboxInv, NEW s \in Slot, act'[s] = act[s], Handles(act[s])
  PROVE  Handles(act[s])'
<1>1. act[s].event # 0 => /\ act[s].event \in DOMAIN inbox /\ Truthful(act[s].event)
                          /\ act[s].event \in DOMAIN inbox'
                          /\ inbox'[act[s].event].topic = inbox[act[s].event].topic
                          /\ inbox'[act[s].event].msg = inbox[act[s].event].msg
  BY EventOn DEF Handles, InboxInv
<1>2. (/\ act[s].pc \in {"transition", "complete"} /\ Created(act[s].event))
      => Accounted(act[s].event)'
  <2>1. ASSUME act[s].pc \in {"transition", "complete"}, Created(act[s].event)
        PROVE  Accounted(act[s].event)'
    <3>1. act[s].event # 0 /\ Accounted(act[s].event)
      BY <2>1 DEF Handles
    <3>2. inbox[act[s].event].msg \in Message
      BY <1>1, <2>1, <3>1, ThreadDomain DEF Truthful, ThreadTyped
    <3> QED BY <1>1, <3>1, <3>2, EventOn, PlatformOn DEF Accounted
  <2> QED BY <2>1
<1>3. act[s].pc = "tombstone" => inbox'[act[s].event].topic = "ADMIN_DELETED"
  BY <1>1 DEF Handles
<1>4. /\ act[s].pc = "reconcile" /\ act[s].event # 0
      /\ inbox'[act[s].event].topic = "CREATED"
      => inbox'[act[s].event].msg \in act[s].snap \cup gone'
  BY <1>1, PlatformOn DEF Handles, Created
<1>5. act[s].pc \in {"transition", "complete"} => act[s].event # 0
  BY DEF Handles
<1>6. /\ act[s].pc \in {"transition", "complete"} /\ inbox'[act[s].event].topic = "CREATED"
      => Accounted(act[s].event)'
  BY <1>1, <1>2, <1>5 DEF Created
<1>7. act[s].pc \in {"read", "transition", "tombstone", "complete", "fail"}
      => act[s].event # 0
  BY DEF Handles
<1> QED BY <1>1, <1>3, <1>4, <1>6, <1>7 DEF Handles, Created, Accounted

\* A send leaves its slot with no event, or with the one it had.
LEMMA SendHandles ==
  ASSUME ThreadTyped, Onward, NEW s \in Slot, Handles(act[s]),
         act'[s].pc \in Sending \cup {"messages", "free"},
         act'[s].event \in {0, act[s].event}
  PROVE  Handles(act[s])'
<1>1. act'[s].event # 0 => act'[s].event \in DOMAIN inbox'
  BY EventOn DEF Handles
<1> QED BY <1>1 DEF Handles, Sending

LEMMA SendTurns ==
  ASSUME ThreadTyped, NEW r \in Slot,
             \/ SendContext(r) \/ SendMessages(r) \/ SendClaim(r)
             \/ FreshRead(r) \/ FreshReadFails(r) \/ MarkFailed(r) \/ StaleMarkLost(r)
             \/ Mutate(r) \/ MutateFails(r) \/ MarkSent(r) \/ ReadBack(r)
             \/ Finalize(r) \/ SendFails(r) \/ MarkAmbiguous(r) \/ ThreadCrash(r)
  PROVE  /\ act'[r].pc \in Sending \cup {"messages", "free"}
         /\ act'[r].event \in {0, act[r].event}
         /\ \A s \in Slot : s # r => act'[s] = act[s]
<1> DEFINE Goal == /\ act'[r].pc \in Sending \cup {"messages", "free"}
                   /\ act'[r].event \in {0, act[r].event}
                   /\ \A s \in Slot : s # r => act'[s] = act[s]
<1>0. act \in [Slot -> SlotType]
  BY DEF ThreadTyped, ActTyped
<1>1. Done(r) => Goal
  BY <1>0 DEF Done, FreeSlot
<1>2. ASSUME NEW l \in Sending, To(r, l) PROVE Goal
  BY <1>0, <1>2 DEF To, SlotType
<1>3. CASE SendContext(r)
  BY <1>0, <1>3 DEF SendContext, FreeSlot
<1>4. CASE SendMessages(r)
  <2>1. ASSUME NEW latest,
               act' = [act EXCEPT ![r].pc = "claim", ![r].seen = latest,
                                  ![r].key = IF @[1] = "reply" THEN <<"reply", latest>> ELSE @]
        PROVE  Goal
    BY <1>0, <2>1 DEF SlotType, Sending
  <2> QED BY <1>1, <1>4, <2>1 DEF SendMessages
<1>5. CASE Mutate(r)
  BY <1>0, <1>5 DEF Mutate, SlotType, Sending
<1>6. CASE FreshRead(r)
  <2>1. To(r, "mutate") \/ To(r, "stale")
    BY <1>6 DEF FreshRead
  <2> QED BY <1>2, <2>1 DEF Sending
<1>7. CASE ReadBack(r)
  <2>1. To(r, "finalize") \/ To(r, "unsure")
    BY <1>7 DEF ReadBack
  <2> QED BY <1>2, <2>1 DEF Sending
<1>8. CASE \/ SendClaim(r) \/ FreshReadFails(r) \/ MarkFailed(r) \/ StaleMarkLost(r)
           \/ MutateFails(r) \/ MarkSent(r)
           \/ Finalize(r) \/ SendFails(r) \/ MarkAmbiguous(r) \/ ThreadCrash(r)
  <2>1. Done(r) \/ \E l \in Sending : To(r, l)
    BY <1>8 DEF SendClaim, FreshReadFails, MarkFailed, StaleMarkLost, MutateFails, Unanswered,
                MarkSent, Finalize, SendFails, MarkAmbiguous, ThreadCrash, Sending
  <2> QED BY <1>1, <1>2, <2>1
<1> QED BY <1>3, <1>4, <1>5, <1>6, <1>7, <1>8

LEMMA IngestHandles ==
  ASSUME ThreadTyped, Onward, EventInv, NEW r \in Slot,
             \/ ClaimEvent(r) \/ ReadThread(r) \/ Quarantine(r)
             \/ Reconcile(r) \/ Transition(r) \/ Tombstone(r) \/ Complete(r)
             \/ IngestFails(r) \/ MarkEventFailed(r)
  PROVE  Handles(act[r])' /\ \A s \in Slot : s # r => act'[s] = act[s]
<1> DEFINE Goal == Handles(act[r])' /\ \A s \in Slot : s # r => act'[s] = act[s]
<1>0. /\ act \in [Slot -> SlotType] /\ Handles(act[r]) /\ InboxTyped /\ PlatformTyped
      /\ stored \in [Message -> {"none", "active", "deleted"}]
  BY DEF ThreadTyped, ActTyped, EventInv, HandlerInv, RowTyped
<1>a. act[r].event # 0 => /\ act[r].event \in DOMAIN inbox /\ Truthful(act[r].event)
                          /\ act[r].event \in DOMAIN inbox'
                          /\ inbox'[act[r].event].topic = inbox[act[r].event].topic
                          /\ inbox'[act[r].event].msg = inbox[act[r].event].msg
  BY <1>0, EventOn DEF Handles, EventInv, InboxInv
<1>b. Done(r) => Goal
  BY <1>0 DEF Done, FreeSlot, Handles
<1>c. ASSUME NEW S, act' = [act EXCEPT ![r] = [act[r] EXCEPT !.pc = "fail", !.snap = S]],
             act[r].event # 0
      PROVE  Goal
  <2>1. act'[r].pc = "fail" /\ act'[r].event = act[r].event
    BY <1>0, <1>c DEF SlotType
  <2>2. Handles(act[r])'
    BY <1>a, <1>c, <2>1 DEF Handles
  <2> QED BY <1>0, <1>c, <2>2
<1>1. CASE ClaimEvent(r)
  <2>1. PICK e \in DOMAIN inbox :
          act' = [act EXCEPT ![r] = [FreeSlot EXCEPT !.pc = "read", !.event = e]]
    BY <1>1 DEF ClaimEvent
  <2>2. act'[r].pc = "read" /\ act'[r].event = e /\ \A s \in Slot : s # r => act'[s] = act[s]
    BY <1>0, <2>1 DEF FreeSlot
  <2>3. e # 0 /\ e \in DOMAIN inbox'
    BY <1>0, EventOn DEF InboxTyped
  <2> QED BY <2>2, <2>3 DEF Handles
<1>2. CASE ReadThread(r)
  <2>1. /\ act'[r].pc = "reconcile" /\ act'[r].snap = Shown /\ act'[r].event = act[r].event
        /\ \A s \in Slot : s # r => act'[s] = act[s]
    BY <1>0, <1>2 DEF ReadThread, SlotType
  <2>2. UNCHANGED gone
    BY <1>2 DEF ReadThread, platform
  <2> QED BY <1>a, <2>1, <2>2 DEF Handles, Shown, Truthful, Created
<1>3. CASE Quarantine(r)
  <2>1. /\ act'[r].pc = "complete" /\ act'[r].event = act[r].event /\ act[r].event # 0
        /\ \A s \in Slot : s # r => act'[s] = act[s]
    BY <1>0, <1>3 DEF Quarantine, To, SlotType
  <2>2. inbox'[act[r].event].held
    <3>1. inbox'[act[r].event] = [inbox[act[r].event] EXCEPT !.held = TRUE]
      BY <1>0, <1>3, <1>a, <2>1, HeldSet DEF Quarantine
    <3> QED BY <1>0, <1>a, <2>1, <3>1, EventTyped DEF EventType
  <2> QED BY <1>a, <2>1, <2>2 DEF Handles, Accounted
<1>4. CASE Reconcile(r)
  <2>1. CASE act[r].event = 0
    BY <1>4, <1>b, <2>1 DEF Reconcile
  <2>2. CASE act[r].event # 0
    <3>1. /\ act'[r].pc = "transition" /\ act'[r].event = act[r].event
          /\ \A s \in Slot : s # r => act'[s] = act[s]
      BY <1>0, <1>4, <2>2 DEF Reconcile, To, SlotType
    <3>2. Created(act[r].event) => Accounted(act[r].event)'
      <4>1. ASSUME Created(act[r].event) PROVE Accounted(act[r].event)'
        <5>1. inbox[act[r].event].msg \in act[r].snap \cup gone
              /\ inbox[act[r].event].msg \in Message
          BY <1>0, <1>4, <1>a, <2>2, <4>1, ThreadDomain
             DEF Handles, Reconcile, ThreadAt, Truthful
        <5>2. stored' = [m \in Message |-> IF m \in act[r].snap THEN "active" ELSE stored[m]]
          BY <1>4 DEF Reconcile
        <5>3. UNCHANGED gone
          BY <1>4 DEF Reconcile, platform
        <5> QED BY <1>a, <2>2, <3>1, <5>1, <5>2, <5>3 DEF Accounted
      <4> QED BY <4>1
    <3> QED BY <1>a, <2>2, <3>1, <3>2 DEF Handles, Created, Accounted
  <2> QED BY <2>1, <2>2
<1>5. CASE Transition(r)
  <2>1. /\ act'[r].event = act[r].event /\ act[r].event # 0
        /\ \A s \in Slot : s # r => act'[s] = act[s]
        /\ act'[r].pc = IF inbox[act[r].event].topic = "ADMIN_DELETED" THEN "tombstone"
                        ELSE "complete"
    BY <1>0, <1>5 DEF Transition, ThreadAt, Handles, SlotType
  <2>2. Created(act[r].event) => Accounted(act[r].event)
    BY <1>0, <1>5 DEF Handles, Transition, ThreadAt
  <2>3. UNCHANGED <<stored, inbox, gone>>
    BY <1>5 DEF Transition, platform
  <2> QED BY <1>a, <2>1, <2>2, <2>3 DEF Handles, Created, Accounted
<1>6. CASE Tombstone(r)
  <2>1. /\ act'[r].pc = "complete" /\ act'[r].event = act[r].event /\ act[r].event # 0
        /\ \A s \in Slot : s # r => act'[s] = act[s]
    BY <1>0, <1>6 DEF Tombstone, ThreadAt, To, Handles, SlotType
  <2>2. ~Created(act[r].event)
    BY <1>0, <1>6 DEF Handles, Created, Tombstone, ThreadAt
  <2> QED BY <1>a, <2>1, <2>2 DEF Handles, Created
<1>7. CASE Complete(r)
  BY <1>7, <1>b DEF Complete
<1>8. CASE IngestFails(r)
  <2>1. \/ Done(r)
        \/ /\ act[r].event # 0
           /\ act' = [act EXCEPT ![r].pc = "fail", ![r].snap = {}]
    BY <1>8 DEF IngestFails, AfterFailure
  <2>2. act' = [act EXCEPT ![r].pc = "fail", ![r].snap = {}]
        => act' = [act EXCEPT ![r] = [act[r] EXCEPT !.pc = "fail", !.snap = {}]]
    BY <1>0 DEF SlotType
  <2> HIDE DEF Goal
  <2>3. Goal
    BY <1>b, <1>c, <2>1, <2>2
  <2> QED BY <2>3 DEF Goal
<1>9. CASE MarkEventFailed(r)
  BY <1>9, <1>b DEF MarkEventFailed
<1> QED BY <1>1, <1>2, <1>3, <1>4, <1>5, <1>6, <1>7, <1>8, <1>9

LEMMA HandlerStep == ThreadTyped /\ EventInv /\ TNext => HandlerInv'
<1> SUFFICES ASSUME ThreadTyped, EventInv, TNext, NEW s \in Slot PROVE Handles(act[s])'
  BY DEF HandlerInv
<1>0. Onward /\ InboxInv /\ Handles(act[s])
  BY OnwardHolds DEF EventInv, HandlerInv
<1>a. act'[s] = act[s] => Handles(act[s])'
  BY <1>0, OtherHandles
<1>1. CASE \/ BuyerWrites
           \/ \E m \in Message : AdminDeletes(m)
           \/ \E topic \in Topic, m \in 0..MaxMessages : Notify(topic, m)
           \/ \E state \in {"scheduled", "cleared"} : Schedule(state)
  <2>1. UNCHANGED act
    BY <1>1 DEF BuyerWrites, AdminDeletes, Notify, Schedule
  <2> QED BY <1>a, <2>1
<1>2. ASSUME NEW r \in Slot,
             \/ ClaimEvent(r) \/ ReadThread(r) \/ Quarantine(r)
             \/ Reconcile(r) \/ Transition(r) \/ Tombstone(r) \/ Complete(r)
             \/ IngestFails(r) \/ MarkEventFailed(r)
      PROVE Handles(act[s])'
  <2>1. CASE s = r
    BY <1>0, <1>2, <2>1, IngestHandles
  <2>2. CASE s # r
    BY <1>0, <1>a, <1>2, <2>2, IngestHandles
  <2> QED BY <2>1, <2>2
<1>3. ASSUME NEW r \in Slot,
             \/ SendContext(r) \/ SendMessages(r) \/ SendClaim(r)
             \/ FreshRead(r) \/ FreshReadFails(r) \/ MarkFailed(r) \/ StaleMarkLost(r)
             \/ Mutate(r) \/ MutateFails(r) \/ MarkSent(r) \/ ReadBack(r)
             \/ Finalize(r) \/ SendFails(r) \/ MarkAmbiguous(r) \/ ThreadCrash(r)
      PROVE Handles(act[s])'
  <2>1. CASE s = r
    BY <1>0, <1>3, <2>1, SendTurns, SendHandles
  <2>2. CASE s # r
    BY <1>0, <1>a, <1>3, <2>2, SendTurns
  <2> QED BY <2>1, <2>2
<1> QED BY <1>1, <1>2, <1>3 DEF TNext

LEMMA InboxStep == ThreadTyped /\ EventInv /\ TNext => InboxInv'
<1> SUFFICES ASSUME ThreadTyped, EventInv, TNext, NEW e \in DOMAIN inbox'
             PROVE  Truthful(e)'
  BY DEF InboxInv
<1>0. /\ Onward /\ InboxTyped /\ \A d \in DOMAIN inbox : Truthful(d)
      /\ \A r \in Slot : Handles(act[r])
  BY OnwardHolds DEF ThreadTyped, EventInv, InboxInv, HandlerInv
\* An event that was there keeps its claim, if it did not become completed.
<1>a. ASSUME e \in DOMAIN inbox,
             \/ inbox'[e].status # "completed" \/ inbox[e].status = "completed"
             \/ \E r \in Slot : act[r].pc = "complete" /\ act[r].event = e
      PROVE  Truthful(e)'
  <2>1. Truthful(e)
    BY <1>0, <1>a
  <2>2. /\ inbox'[e].topic = inbox[e].topic /\ inbox'[e].msg = inbox[e].msg
    BY <1>0, <1>a, EventOn
  <2>3. Created(e) /\ inbox'[e].status = "completed" => Accounted(e)
    BY <1>0, <1>a, <2>1 DEF Handles, Truthful
  <2>4. Created(e) /\ inbox'[e].status = "completed" => Accounted(e)'
    BY <1>0, <1>a, <2>1, <2>3, AccountKept
  <2>5. Created(e) => inbox'[e].msg \in DOMAIN thread'
    BY <1>0, <2>1, <2>2, PlatformOn DEF Truthful
  <2>6. inbox'[e].topic = "ADMIN_DELETED" => inbox'[e].msg \in gone'
    BY <1>0, <2>1, <2>2, PlatformOn DEF Truthful
  <2> QED BY <2>2, <2>4, <2>5, <2>6 DEF Truthful, Created
<1>1. CASE UNCHANGED inbox
  BY <1>a, <1>1
<1>2. ASSUME NEW topic \in Topic, NEW m \in 0..MaxMessages, Notify(topic, m)
      PROVE  Truthful(e)'
  <2> DEFINE ev == [topic |-> topic, msg |-> m, held |-> FALSE, status |-> "pending"]
  <2>1. /\ inbox \in Seq(EventType) /\ ev \in EventType /\ inbox' = Append(inbox, ev)
        /\ Len(inbox) \in Nat /\ DOMAIN inbox = 1..Len(inbox)
    BY <1>0, <1>2 DEF Notify, InboxTyped, EventType
  <2>2. /\ e \in DOMAIN inbox => inbox'[e] = inbox[e]
        /\ e \notin DOMAIN inbox => inbox'[e] = ev
    <3>1. DOMAIN inbox' = 1..(Len(inbox) + 1)
      <4> HIDE DEF ev
      <4> QED BY <2>1, AppendProperties
    <3>2. e \in 1..Len(inbox) \/ e = Len(inbox) + 1
      BY <2>1, <3>1
    <3> HIDE DEF ev
    <3> QED BY <2>1, <3>2, AppendProperties
  <2>3. CASE e \in DOMAIN inbox
    BY <1>a, <2>2, <2>3
  <2>4. CASE e \notin DOMAIN inbox
    <3>1. inbox'[e].topic = topic /\ inbox'[e].msg = m /\ inbox'[e].status = "pending"
      BY <2>2, <2>4
    <3>2. UNCHANGED <<thread, gone>>
      BY <1>2 DEF Notify, platform
    <3>3. topic = "CREATED" => m \in DOMAIN thread
      BY <1>2 DEF Notify
    <3>4. topic = "ADMIN_DELETED" => m \in gone
      BY <1>2 DEF Notify
    <3> QED BY <3>1, <3>2, <3>3, <3>4 DEF Truthful, Created
  <2> QED BY <2>3, <2>4
<1>3. ASSUME NEW d \in DOMAIN inbox, DOMAIN inbox' = DOMAIN inbox,
             inbox'[d] = [inbox[d] EXCEPT !.held = TRUE],
             \A c \in DOMAIN inbox : c # d => inbox'[c] = inbox[c]
      PROVE  Truthful(e)'
  <2>1. e \in DOMAIN inbox /\ inbox[d] \in EventType
    BY <1>0, <1>3, EventTyped
  <2>2. inbox'[e].status = inbox[e].status
    BY <1>3, <2>1 DEF EventType
  <2> QED BY <1>a, <2>1, <2>2
<1>4. ASSUME NEW d \in DOMAIN inbox, NEW s \in {"processing", "completed", "failed"},
             DOMAIN inbox' = DOMAIN inbox,
             inbox'[d] = [inbox[d] EXCEPT !.status = s],
             \A c \in DOMAIN inbox : c # d => inbox'[c] = inbox[c],
             s = "completed" => \E r \in Slot : act[r].pc = "complete" /\ act[r].event = d
      PROVE  Truthful(e)'
  <2>1. e \in DOMAIN inbox /\ inbox[d] \in EventType
    BY <1>0, <1>4, EventTyped
  <2>2. CASE e = d
    <3>1. inbox'[e].status = s
      BY <1>4, <2>1, <2>2 DEF EventType
    <3> QED BY <1>a, <1>4, <2>1, <2>2, <3>1
  <2>3. CASE e # d
    BY <1>a, <1>4, <2>1, <2>3
  <2> QED BY <2>2, <2>3
<1> QED BY <1>1, <1>2, <1>3, <1>4, InboxFootprint DEF EventInv

LEMMA DeletedStep == ThreadTyped /\ EventInv /\ TNext => DeletedInv'
<1> SUFFICES ASSUME ThreadTyped, EventInv, TNext, NEW m \in Message, stored'[m] = "deleted"
             PROVE  m \in gone'
  BY DEF DeletedInv
<1>1. gone \subseteq gone' /\ (stored[m] = "deleted" => m \in gone)
  BY OnwardHolds DEF Onward, EventInv, DeletedInv
<1>2. CASE stored'[m] = stored[m] \/ stored'[m] = "active"
  BY <1>1, <1>2
<1>3. ASSUME NEW r \in Slot, Tombstone(r) PROVE m \in gone'
  <2>1. /\ act[r].event \in DOMAIN inbox /\ inbox[act[r].event].topic = "ADMIN_DELETED"
    BY <1>3 DEF EventInv, HandlerInv, Handles, Tombstone, ThreadAt
  <2>2. inbox[act[r].event].msg \in gone
    BY <2>1 DEF EventInv, InboxInv, Truthful
  <2>3. stored'[m] = stored[m] \/ m = inbox[act[r].event].msg
    BY <1>3 DEF Tombstone, ThreadTyped, RowTyped
  <2> QED BY <1>1, <2>2, <2>3
<1> QED BY <1>2, <1>3, StoredFootprint

LEMMA EventInit == TInit => EventInv
<1> SUFFICES ASSUME TInit PROVE EventInv
  OBVIOUS
<1>1. HandlerInv
  BY DEF TInit, HandlerInv, Handles, FreeSlot
<1>2. InboxInv
  BY DEF TInit, InboxInv
<1>3. DeletedInv
  BY DEF TInit, DeletedInv
<1> QED BY <1>1, <1>2, <1>3 DEF EventInv

LEMMA EventStep == ThreadTyped /\ EventInv /\ [TNext]_tvars => EventInv'
<1> SUFFICES ASSUME ThreadTyped, EventInv, [TNext]_tvars PROVE EventInv'
  OBVIOUS
<1>1. CASE TNext
  BY <1>1, HandlerStep, InboxStep, DeletedStep DEF EventInv
<1>2. CASE UNCHANGED tvars
  <2>1. UNCHANGED <<thread, gone, stored, inbox, act>>
    BY <1>2 DEF tvars, platform
  <2> QED BY <2>1 DEF EventInv, HandlerInv, InboxInv, DeletedInv, Handles, Truthful, Created,
                      Accounted
<1> QED BY <1>1, <1>2

-----------------------------------------------------------------------------
(* The thread: what is said to be sent was sent *)

\* After the mutation the handler knows its message on the platform.
KnowsMessage(r) ==
  act[r].pc \in {"sent", "readback", "finalize"}
  => act[r].seen \in DOMAIN thread /\ thread[act[r].seen] = act[r].key
OnPlatform == \A r \in Slot : KnowsMessage(r)

SentInv == OnPlatform /\ SentIsTrue

LEMMA OnPlatformStep == ThreadTyped /\ EventInv /\ OnPlatform /\ TNext => OnPlatform'
<1> SUFFICES ASSUME ThreadTyped, EventInv, OnPlatform, TNext, NEW s \in Slot
             PROVE  KnowsMessage(s)'
  BY DEF OnPlatform
<1>0. Onward /\ KnowsMessage(s) /\ act \in [Slot -> SlotType] /\ PlatformTyped
  BY OnwardHolds DEF EventInv, OnPlatform, ThreadTyped, ActTyped
<1>a. ASSUME act[s].pc \in {"sent", "readback", "finalize"},
             act'[s].seen = act[s].seen, act'[s].key = act[s].key
      PROVE  KnowsMessage(s)'
  BY <1>0, <1>a, PlatformOn DEF KnowsMessage
<1>b. ASSUME act'[s] = act[s] PROVE KnowsMessage(s)'
  BY <1>0, <1>b, PlatformOn DEF KnowsMessage
<1>c. ASSUME act'[s].pc \notin {"sent", "readback", "finalize"} PROVE KnowsMessage(s)'
  BY <1>c DEF KnowsMessage
<1>1. CASE \/ BuyerWrites
           \/ \E m \in Message : AdminDeletes(m)
           \/ \E topic \in Topic, m \in 0..MaxMessages : Notify(topic, m)
           \/ \E state \in {"scheduled", "cleared"} : Schedule(state)
  BY <1>1, <1>b DEF BuyerWrites, AdminDeletes, Notify, Schedule
<1>2. ASSUME NEW r \in Slot,
             \/ ClaimEvent(r) \/ ReadThread(r) \/ Quarantine(r)
             \/ Reconcile(r) \/ Transition(r) \/ Tombstone(r) \/ Complete(r)
             \/ IngestFails(r) \/ MarkEventFailed(r)
      PROVE KnowsMessage(s)'
  <2>1. s # r => act'[s] = act[s]
    BY <1>0, <1>2, IngestHandles DEF EventInv
  <2>2. CASE s = r
    <3>1. CASE ClaimEvent(s) \/ ReadThread(s) \/ Transition(s)
      <4>1. ASSUME ClaimEvent(s) PROVE act'[s].pc = "read"
        BY <1>0, <4>1 DEF ClaimEvent, FreeSlot
      <4>2. ASSUME ReadThread(s) PROVE act'[s].pc = "reconcile"
        BY <1>0, <4>2 DEF ReadThread, SlotType
      <4>3. ASSUME Transition(s) PROVE act'[s].pc \in {"tombstone", "complete"}
        BY <1>0, <4>3 DEF Transition, SlotType
      <4> QED BY <1>c, <3>1, <4>1, <4>2, <4>3
    <3>2. CASE Quarantine(s) \/ Reconcile(s) \/ Tombstone(s) \/ Complete(s) \/ MarkEventFailed(s)
      <4>1. Done(s) \/ To(s, "complete") \/ To(s, "transition")
        BY <3>2 DEF Quarantine, Reconcile, Tombstone, Complete, MarkEventFailed
      <4> QED BY <1>0, <1>c, <4>1 DEF Done, To, FreeSlot, SlotType
    <3>3. CASE IngestFails(s)
      BY <1>0, <1>c, <3>3 DEF IngestFails, AfterFailure, Done, FreeSlot, SlotType
    <3> QED BY <1>2, <2>2, <3>1, <3>2, <3>3
  <2> QED BY <1>b, <2>1, <2>2
<1>3. ASSUME NEW r \in Slot,
             \/ SendContext(r) \/ SendMessages(r) \/ SendClaim(r)
             \/ FreshRead(r) \/ FreshReadFails(r) \/ MarkFailed(r) \/ StaleMarkLost(r)
             \/ Mutate(r) \/ MutateFails(r) \/ MarkSent(r) \/ ReadBack(r)
             \/ Finalize(r) \/ SendFails(r) \/ MarkAmbiguous(r) \/ ThreadCrash(r)
      PROVE KnowsMessage(s)'
  <2>1. s # r => act'[s] = act[s]
    BY <1>3, SendTurns
  <2>2. CASE s = r
    <3>1. CASE SendContext(s) \/ SendMessages(s)
      <4>1. ASSUME SendContext(s) PROVE act'[s].pc = "messages"
        BY <1>0, <4>1 DEF SendContext, FreeSlot
      <4>2. ASSUME SendMessages(s) PROVE act'[s].pc \in {"free", "claim"}
        BY <1>0, <4>2 DEF SendMessages, Done, FreeSlot, SlotType
      <4> QED BY <1>c, <3>1, <4>1, <4>2
    <3>2. CASE \/ SendClaim(s) \/ FreshRead(s) \/ FreshReadFails(s) \/ MarkFailed(s)
               \/ StaleMarkLost(s) \/ MutateFails(s) \/ Finalize(s) \/ SendFails(s)
               \/ MarkAmbiguous(s) \/ ThreadCrash(s)
      <4>1. Done(s) \/ \E l \in {"fresh", "mutate", "stale", "mark", "remark", "unsure"} : To(s, l)
        BY <3>2 DEF SendClaim, FreshRead, FreshReadFails, MarkFailed, StaleMarkLost,
                    MutateFails, Unanswered, Finalize, SendFails, MarkAmbiguous, ThreadCrash
      <4> QED BY <1>0, <1>c, <4>1 DEF Done, To, FreeSlot, SlotType
    <3>3. CASE Mutate(s)
      <4>1. act'[s].seen = Len(thread) + 1 /\ act'[s].key = act[s].key
        BY <1>0, <3>3 DEF Mutate, SlotType
      <4>2. act[s].key \in Key
        BY <3>3 DEF Mutate, ThreadAt, ThreadTyped, ActTyped, Fits, Sending
      <4>3. /\ Len(thread) + 1 \in DOMAIN thread'
            /\ thread'[Len(thread) + 1] = act[s].key
        BY <1>0, <3>3, <4>2, OneMore DEF Mutate, Accept
      <4> QED BY <4>1, <4>3 DEF KnowsMessage
    <3>4. CASE MarkSent(s) \/ ReadBack(s)
      <4>1. /\ act[s].pc \in {"sent", "readback", "finalize"}
            /\ act'[s].seen = act[s].seen /\ act'[s].key = act[s].key
        BY <1>0, <3>4 DEF MarkSent, ReadBack, ThreadAt, To, SlotType
      <4> QED BY <1>a, <4>1
    <3> QED BY <1>3, <2>2, <3>1, <3>2, <3>3, <3>4
  <2> QED BY <1>b, <2>1, <2>2
<1> QED BY <1>1, <1>2, <1>3 DEF TNext

\* Only the finalize of a known message confirms an operation, names the
\* confirmed message or follows a cycle up.
LEMMA ConfirmFootprint ==
  ASSUME ThreadTyped, TNext
  PROVE  \/ /\ \A k \in Key : ops'[k] = "confirmed" => ops[k] = "confirmed"
            /\ lastSent' = lastSent
            /\ follow'.state = "followed_up" => follow.state = "followed_up"
         \/ \E r \in Slot : /\ act[r].pc = "finalize" /\ UNCHANGED thread
                            /\ Finalized(act[r].key, act[r].seen)
<1> DEFINE Quiet == /\ \A k \in Key : ops'[k] = "confirmed" => ops[k] = "confirmed"
                    /\ lastSent' = lastSent
                    /\ follow'.state = "followed_up" => follow.state = "followed_up"
           Confirms == \E r \in Slot : /\ act[r].pc = "finalize" /\ UNCHANGED thread
                                       /\ Finalized(act[r].key, act[r].seen)
<1>0. ops \in [Key -> OpStatus] /\ follow \in FollowType
  BY DEF ThreadTyped, LedgerTyped, RowTyped
<1>1. ASSUME \/ BuyerWrites
             \/ \E m \in Message : AdminDeletes(m)
             \/ \E topic \in Topic, m \in 0..MaxMessages : Notify(topic, m)
      PROVE Quiet
  BY <1>1 DEF BuyerWrites, AdminDeletes, Notify, ledgerVars
<1>2. ASSUME NEW state \in {"scheduled", "cleared"}, Schedule(state) PROVE Quiet
  BY <1>2 DEF Schedule, ledgerVars
<1>3. ASSUME NEW r \in Slot, Transition(r) PROVE Quiet
  <2>1. follow' \in {follow, [follow EXCEPT !.state = "cleared"],
                     [follow EXCEPT !.state = "superseded"]}
    BY <1>3 DEF Transition
  <2> QED BY <1>0, <1>3, <2>1 DEF Transition, ledgerVars, FollowType
<1>4. ASSUME NEW r \in Slot,
             \/ ClaimEvent(r) \/ ReadThread(r) \/ Quarantine(r)
             \/ Reconcile(r) \/ Tombstone(r) \/ Complete(r)
             \/ IngestFails(r) \/ MarkEventFailed(r)
      PROVE Quiet
  BY <1>4 DEF ClaimEvent, ReadThread, Quarantine, Reconcile, Tombstone, Complete, IngestFails,
              MarkEventFailed, ledgerVars
<1>5. ASSUME NEW r \in Slot,
             \/ SendContext(r) \/ SendMessages(r)
             \/ FreshRead(r) \/ FreshReadFails(r)
             \/ Mutate(r) \/ MutateFails(r) \/ ReadBack(r) \/ ThreadCrash(r)
      PROVE Quiet
  BY <1>5 DEF SendContext, SendMessages, FreshRead, FreshReadFails, Mutate, MutateFails,
              ReadBack, ThreadCrash, ledgerVars
<1>6. ASSUME NEW r \in Slot,
             \/ SendClaim(r) \/ MarkFailed(r) \/ StaleMarkLost(r)
             \/ MarkSent(r) \/ MarkAmbiguous(r)
      PROVE Quiet
  <2>1. /\ UNCHANGED <<follow, lastSent>>
        /\ UNCHANGED ops \/ \E l \in {"pending", "failed", "sent", "ambiguous"} : Write(act[r].key, l)
    BY <1>6 DEF SendClaim, MarkFailed, StaleMarkLost, MarkSent, MarkAmbiguous
  <2> QED BY <1>0, <2>1 DEF Write
<1>7. ASSUME NEW r \in Slot, Finalize(r) \/ SendFails(r) PROVE Quiet \/ Confirms
  <2>1. CASE UNCHANGED <<ops, follow, lastSent>>
    BY <2>1
  <2>2. CASE Write(act[r].key, "sent") /\ UNCHANGED <<follow, lastSent>>
    BY <1>0, <2>2 DEF Write
  <2>3. CASE act[r].pc = "finalize" /\ UNCHANGED thread /\ Finalized(act[r].key, act[r].seen)
    BY <2>3
  <2> HIDE DEF Quiet, Confirms
  <2> QED BY <1>7, <2>1, <2>2, <2>3 DEF Finalize, SendFails, ThreadAt, platform
<1>8. Quiet \/ Confirms
  <2> HIDE DEF Quiet, Confirms
  <2>1. CASE \E r \in Slot :
             \/ ClaimEvent(r) \/ ReadThread(r) \/ Quarantine(r)
             \/ Reconcile(r) \/ Transition(r) \/ Tombstone(r) \/ Complete(r)
             \/ IngestFails(r) \/ MarkEventFailed(r)
    BY <1>3, <1>4, <2>1
  <2>2. CASE \E r \in Slot :
             \/ SendContext(r) \/ SendMessages(r) \/ SendClaim(r)
             \/ FreshRead(r) \/ FreshReadFails(r) \/ MarkFailed(r) \/ StaleMarkLost(r)
             \/ Mutate(r) \/ MutateFails(r) \/ MarkSent(r) \/ ReadBack(r)
             \/ Finalize(r) \/ SendFails(r) \/ MarkAmbiguous(r) \/ ThreadCrash(r)
    BY <1>5, <1>6, <1>7, <2>2
  <2> QED BY <1>1, <1>2, <2>1, <2>2 DEF TNext
<1> QED BY <1>8

LEMMA MessagesKept ==
  ASSUME ThreadTyped, Onward, NEW k, NEW m \in Messages(k)
  PROVE  m \in DOMAIN thread' /\ thread'[m] = k
BY PlatformOn DEF Messages

LEMMA SentStep == ThreadTyped /\ EventInv /\ SentInv /\ TNext => SentInv'
<1> SUFFICES ASSUME ThreadTyped, EventInv, SentInv, TNext PROVE SentIsTrue'
  BY OnPlatformStep DEF SentInv
<1>0. /\ Onward /\ SentIsTrue /\ OnPlatform /\ PlatformTyped
      /\ \A r \in Slot : Fits(act[r])
      /\ stored \in [Message -> {"none", "active", "deleted"}]
      /\ ops \in [Key -> OpStatus] /\ follow \in FollowType
  BY OnwardHolds DEF EventInv, SentInv, ThreadTyped, ActTyped, RowTyped, LedgerTyped
<1>a. \A k \in Key : Messages(k) # {} => Messages(k)' # {}
  <2>1. ASSUME NEW k \in Key, NEW m \in Messages(k) PROVE m \in Messages(k)'
    BY <1>0, <2>1, MessagesKept DEF Messages
  <2> QED BY <2>1
<1>b. DOMAIN thread \subseteq Message
  BY <1>0, ThreadDomain
<1>1. CASE /\ \A k \in Key : ops'[k] = "confirmed" => ops[k] = "confirmed"
           /\ lastSent' = lastSent
           /\ follow'.state = "followed_up" => follow.state = "followed_up"
  <2>1. \A k \in Key : ops'[k] = "confirmed" => Messages(k)' # {}
    BY <1>0, <1>1, <1>a DEF SentIsTrue
  <2>2. follow'.state = "followed_up" => \E k \in Key : k[1] = "cycle" /\ Messages(k)' # {}
    BY <1>0, <1>1, <1>a DEF SentIsTrue
  <2>3. lastSent' # 0 => lastSent' \in DOMAIN thread' /\ ~FromBuyer(lastSent)'
                         /\ stored'[lastSent'] # "none"
    <3>1. lastSent # 0 => lastSent \in DOMAIN thread /\ thread[lastSent] # NoKey
                          /\ stored[lastSent] # "none"
      BY <1>0 DEF SentIsTrue, FromBuyer
    <3>2. lastSent # 0 => /\ lastSent \in DOMAIN thread' /\ thread'[lastSent] = thread[lastSent]
                          /\ stored'[lastSent] # "none"
      BY <1>0, <1>b, <3>1, PlatformOn
    <3> QED BY <1>1, <3>1, <3>2 DEF FromBuyer
  <2> QED BY <2>1, <2>2, <2>3 DEF SentIsTrue
<1>2. ASSUME NEW r \in Slot, act[r].pc = "finalize", UNCHANGED thread,
             Finalized(act[r].key, act[r].seen)
      PROVE  SentIsTrue'
  <2>0. PICK k, m : k = act[r].key /\ m = act[r].seen
    OBVIOUS
  <2>1. k \in Key /\ m \in DOMAIN thread /\ thread[m] = k /\ m \in Message
    BY <1>0, <1>2, <1>b, <2>0 DEF Fits, Sending, OnPlatform, KnowsMessage
  <2>2. Messages(k)' # {}
    BY <1>2, <2>1 DEF Messages
  <2>3. /\ ops' = [ops EXCEPT ![k] = "confirmed"] /\ lastSent' = m
        /\ stored' = [stored EXCEPT ![m] = "active"]
        /\ follow' = IF k[1] = "cycle" THEN [follow EXCEPT !.state = "followed_up"]
                     ELSE [state |-> "scheduled", cycle |-> follow.cycle + 1]
    BY <1>2, <2>0 DEF Finalized, Write
  <2>4. ASSUME NEW q \in Key, ops'[q] = "confirmed" PROVE Messages(q)' # {}
    <3>1. q = k \/ ops[q] = "confirmed"
      BY <1>0, <2>3, <2>4
    <3> QED BY <1>0, <1>a, <2>2, <3>1 DEF SentIsTrue
  <2>5. lastSent' \in DOMAIN thread' /\ ~FromBuyer(lastSent)' /\ stored'[lastSent'] # "none"
    BY <1>0, <1>2, <2>1, <2>3, KeyFacts DEF FromBuyer
  <2>6. follow'.state = "followed_up" => \E q \in Key : q[1] = "cycle" /\ Messages(q)' # {}
    BY <2>1, <2>2, <2>3
  <2> QED BY <2>4, <2>5, <2>6 DEF SentIsTrue
<1> QED BY <1>1, <1>2, ConfirmFootprint

LEMMA SentInit == TInit => SentInv
<1> SUFFICES ASSUME TInit PROVE SentInv
  OBVIOUS
<1>1. OnPlatform
  BY DEF TInit, OnPlatform, KnowsMessage, FreeSlot
<1>2. \A k \in Key : ops[k] # "confirmed"
  BY DEF TInit
<1>3. lastSent = 0 /\ follow.state # "followed_up"
  BY DEF TInit
<1> QED BY <1>1, <1>2, <1>3 DEF SentInv, SentIsTrue

-----------------------------------------------------------------------------
(* The thread: one operation sends one message *)

\* The states between the claim of an operation and its mutation.
Claimed == {"fresh", "stale", "mark", "mutate"}
Holds(r, k) == act[r].key = k /\ act[r].pc \in Claimed
Holders(k) == {r \in Slot : Holds(r, k)}

\* An operation that can be claimed counts for one message still to come.
Claimable(k) == IF ops[k] \in {"none", "failed"} THEN 1 ELSE 0

\* Messages sent, handlers about to send and a claim to come: together one,
\* and one more for every mark written twice.
Weighed(k) ==
  /\ IsFiniteSet(Holders(k))
  /\ Cardinality(Messages(k)) + Cardinality(Holders(k)) + Claimable(k) <= 1 + remarks[k]
WeightInv == \A k \in Key : Weighed(k)

LEMMA HoldersChange ==
  ASSUME ThreadTyped, NEW k \in Key, NEW r \in Slot, IsFiniteSet(Holders(k)),
         \A s \in Slot : s # r => act'[s] = act[s]
  PROVE  /\ IsFiniteSet(Holders(k)') /\ Cardinality(Holders(k)) \in Nat
         /\ Cardinality(Holders(k)') \in Nat
         /\ (Holds(r, k) <=> Holds(r, k)')
            => Cardinality(Holders(k)') = Cardinality(Holders(k))
         /\ Holds(r, k) /\ ~Holds(r, k)'
            => Cardinality(Holders(k)') = Cardinality(Holders(k)) - 1
         /\ ~Holds(r, k) /\ Holds(r, k)'
            => Cardinality(Holders(k)') = Cardinality(Holders(k)) + 1
<1>0. \A s \in Slot : s # r => (Holds(s, k) <=> Holds(s, k)')
  BY DEF Holds
<1>1. CASE Holds(r, k) <=> Holds(r, k)'
  <2>1. Holders(k)' = Holders(k)
    BY <1>0, <1>1 DEF Holders
  <2> QED BY <1>1, <2>1, FS_CardinalityType
<1>2. CASE Holds(r, k) /\ ~Holds(r, k)'
  <2>1. Holders(k)' = Holders(k) \ {r} /\ r \in Holders(k)
    BY <1>0, <1>2 DEF Holders
  <2> QED BY <1>2, <2>1, FS_CardinalityType, FS_RemoveElement
<1>3. CASE ~Holds(r, k) /\ Holds(r, k)'
  <2>1. Holders(k)' = Holders(k) \cup {r} /\ r \notin Holders(k)
    BY <1>0, <1>3 DEF Holders
  <2> QED BY <1>3, <2>1, FS_CardinalityType, FS_AddElement
<1> QED BY <1>1, <1>2, <1>3

LEMMA MessagesChange ==
  ASSUME ThreadTyped, NEW k \in Key
  PROVE  /\ Cardinality(Messages(k)) \in Nat
         /\ UNCHANGED thread => Cardinality(Messages(k)') = Cardinality(Messages(k))
         /\ \A q \in Key \cup {NoKey} :
              Room /\ thread' = Append(thread, q) /\ UNCHANGED <<start, gone>>
              => Cardinality(Messages(k)') = Cardinality(Messages(k)) + (IF q = k THEN 1 ELSE 0)
<1>0. PlatformTyped
  BY DEF ThreadTyped
<1>1. IsFiniteSet(Messages(k)) /\ Cardinality(Messages(k)) \in Nat
  <2>1. IsFiniteSet(DOMAIN thread)
    BY <1>0, ThreadDomain, FS_Interval
  <2>2. Messages(k) \in SUBSET (DOMAIN thread)
    BY DEF Messages
  <2> QED BY <2>1, <2>2, FS_Subset, FS_CardinalityType
<1>2. ASSUME UNCHANGED thread PROVE Cardinality(Messages(k)') = Cardinality(Messages(k))
  <2>1. Messages(k)' = Messages(k)
    BY <1>2 DEF Messages
  <2> QED BY <2>1
<1>3. ASSUME NEW q \in Key \cup {NoKey}, Room, thread' = Append(thread, q),
             UNCHANGED <<start, gone>>
      PROVE  Cardinality(Messages(k)') = Cardinality(Messages(k)) + (IF q = k THEN 1 ELSE 0)
  <2> DEFINE n == Len(thread) + 1
  <2>1. /\ DOMAIN thread' = DOMAIN thread \cup {n} /\ n \notin DOMAIN thread
        /\ thread'[n] = q /\ \A m \in DOMAIN thread : thread'[m] = thread[m]
    BY <1>0, <1>3, OneMore
  <2> HIDE DEF n
  <2>2. CASE q = k
    <3>1. Messages(k)' = Messages(k) \cup {n} /\ n \notin Messages(k)
      BY <2>1, <2>2 DEF Messages
    <3>2. Cardinality(Messages(k)') = Cardinality(Messages(k)) + 1
      BY <1>1, <3>1, FS_AddElement
    <3> QED BY <2>2, <3>2
  <2>3. CASE q # k
    <3>1. Messages(k)' = Messages(k)
      BY <2>1, <2>3 DEF Messages
    <3>2. Cardinality(Messages(k)') = Cardinality(Messages(k))
      BY <3>1
    <3> QED BY <1>1, <2>3, <3>2
  <2> QED BY <2>2, <2>3
<1> QED BY <1>1, <1>2, <1>3

\* How one step of a slot may move the tally of an operation.
LEMMA Tally ==
  ASSUME ThreadTyped, NEW k \in Key, NEW r \in Slot, Weighed(k),
         \A s \in Slot : s # r => act'[s] = act[s]
  PROVE  /\ /\ UNCHANGED thread /\ remarks'[k] = remarks[k]
            /\ Holds(r, k)' => Holds(r, k)
            /\ ops'[k] = ops[k] \/ ops'[k] \notin {"none", "failed"}
            => Weighed(k)'
         /\ /\ Cardinality(Messages(k)') \in
                 {Cardinality(Messages(k)), Cardinality(Messages(k)) + 1}
            /\ remarks'[k] = remarks[k] /\ ops'[k] = ops[k]
            /\ Holds(r, k) /\ ~Holds(r, k)'
            => Weighed(k)'
         /\ /\ UNCHANGED thread /\ remarks'[k] = remarks[k]
            /\ Holds(r, k) /\ ~Holds(r, k)'
            => Weighed(k)'
         /\ /\ UNCHANGED thread /\ remarks'[k] = remarks[k]
            /\ ~Holds(r, k) /\ ops[k] \in {"none", "failed"}
            /\ ops'[k] = "pending"
            => Weighed(k)'
         /\ /\ UNCHANGED thread /\ remarks'[k] = remarks[k] + 1
            /\ ~Holds(r, k) /\ ~Holds(r, k)'
            => Weighed(k)'
<1> DEFINE M == Cardinality(Messages(k))
           H == Cardinality(Holders(k))
           O == Claimable(k)
<1>1. /\ IsFiniteSet(Holders(k)) /\ M + H + O <= 1 + remarks[k]
      /\ remarks[k] \in Nat
  BY DEF Weighed, ThreadTyped, LedgerTyped
<1>2. M \in Nat /\ (UNCHANGED thread => M' = M)
  BY MessagesChange
<1>3. /\ IsFiniteSet(Holders(k)') /\ H \in Nat /\ H' \in Nat
      /\ (Holds(r, k) <=> Holds(r, k)') => H' = H
      /\ Holds(r, k) /\ ~Holds(r, k)' => H' = H - 1
      /\ ~Holds(r, k) /\ Holds(r, k)' => H' = H + 1
  BY <1>1, HoldersChange
<1>4. /\ O \in {0, 1} /\ O' \in {0, 1}
      /\ ops'[k] = ops[k] => O' = O
      /\ ops'[k] \notin {"none", "failed"} => O' = 0
      /\ ops[k] \in {"none", "failed"} => O = 1
  BY DEF Claimable
<1>5. M' + H' + O' <= 1 + remarks'[k] => Weighed(k)'
  BY <1>3 DEF Weighed
<1> HIDE DEF M, H, O
<1>6. ASSUME UNCHANGED thread, remarks'[k] = remarks[k], Holds(r, k)' => Holds(r, k),
             ops'[k] = ops[k] \/ ops'[k] \notin {"none", "failed"}
      PROVE  Weighed(k)'
  BY <1>1, <1>2, <1>3, <1>4, <1>5, <1>6
<1>7. ASSUME M' \in {M, M + 1}, remarks'[k] = remarks[k], ops'[k] = ops[k],
             Holds(r, k), ~Holds(r, k)'
      PROVE  Weighed(k)'
  BY <1>1, <1>2, <1>3, <1>4, <1>5, <1>7
<1>8. ASSUME UNCHANGED thread, remarks'[k] = remarks[k], Holds(r, k), ~Holds(r, k)'
      PROVE  Weighed(k)'
  BY <1>1, <1>2, <1>3, <1>4, <1>5, <1>8
<1>9. ASSUME UNCHANGED thread, remarks'[k] = remarks[k], ~Holds(r, k),
             ops[k] \in {"none", "failed"}, ops'[k] = "pending"
      PROVE  Weighed(k)'
  BY <1>1, <1>2, <1>3, <1>4, <1>5, <1>9
<1>10. ASSUME UNCHANGED thread, remarks'[k] = remarks[k] + 1, ~Holds(r, k), ~Holds(r, k)'
       PROVE  Weighed(k)'
  BY <1>1, <1>2, <1>3, <1>4, <1>5, <1>10
<1> QED BY <1>6, <1>7, <1>8, <1>9, <1>10 DEF M

LEMMA WeightStep == ThreadTyped /\ EventInv /\ WeightInv /\ TNext => WeightInv'
<1> SUFFICES ASSUME ThreadTyped, EventInv, WeightInv, TNext, NEW k \in Key
             PROVE  Weighed(k)'
  BY DEF WeightInv
<1>0. /\ Weighed(k) /\ act \in [Slot -> SlotType] /\ ops \in [Key -> OpStatus]
      /\ remarks \in [Key -> Nat] /\ k # NoKey
      /\ \A r \in Slot : Fits(act[r]) /\ Handles(act[r])
  BY KeyFacts DEF WeightInv, ThreadTyped, ActTyped, LedgerTyped, EventInv, HandlerInv
<1>1. ASSUME UNCHANGED <<ops, remarks, act>>,
             Cardinality(Messages(k)') = Cardinality(Messages(k))
      PROVE  Weighed(k)'
  <2>1. Holders(k)' = Holders(k) /\ Claimable(k)' = Claimable(k)
    BY <1>1 DEF Holders, Holds, Claimable
  <2> QED BY <1>0, <1>1, <2>1 DEF Weighed
<1>2. CASE BuyerWrites
  <2>1. Cardinality(Messages(k)') = Cardinality(Messages(k)) + (IF NoKey = k THEN 1 ELSE 0)
    BY <1>2, MessagesChange DEF BuyerWrites
  <2>2. Cardinality(Messages(k)') = Cardinality(Messages(k))
    BY <1>0, <2>1, MessagesChange
  <2> QED BY <1>1, <1>2, <2>2 DEF BuyerWrites, ledgerVars
<1>3. CASE \/ \E m \in Message : AdminDeletes(m)
           \/ \E topic \in Topic, m \in 0..MaxMessages : Notify(topic, m)
           \/ \E state \in {"scheduled", "cleared"} : Schedule(state)
  <2>1. UNCHANGED <<thread, ops, remarks, act>>
    BY <1>3 DEF AdminDeletes, Notify, Schedule, platform, ledgerVars
  <2> QED BY <1>1, <2>1, MessagesChange
<1>4. ASSUME NEW r \in Slot,
             \/ ClaimEvent(r) \/ ReadThread(r) \/ Quarantine(r)
             \/ Reconcile(r) \/ Transition(r) \/ Tombstone(r) \/ Complete(r)
             \/ IngestFails(r) \/ MarkEventFailed(r)
      PROVE Weighed(k)'
  <2>1. UNCHANGED <<thread, ops, remarks>>
    BY <1>4 DEF ClaimEvent, ReadThread, Quarantine, Reconcile, Transition, Tombstone,
                Complete, IngestFails, MarkEventFailed, platform, ledgerVars
  <2>2. \A s \in Slot : s # r => act'[s] = act[s]
    BY <1>4, OnwardHolds, IngestHandles DEF EventInv
  <2>3. act'[r].pc \notin Claimed
    <3>1. Done(r) => act'[r].pc = "free"
      BY <1>0 DEF Done, FreeSlot
    <3>2. \A l : To(r, l) => act'[r].pc = l
      BY <1>0 DEF To, SlotType
    <3>3. ClaimEvent(r) => act'[r].pc = "read"
      BY <1>0 DEF ClaimEvent, FreeSlot
    <3>4. ReadThread(r) => act'[r].pc = "reconcile"
      BY <1>0 DEF ReadThread, SlotType
    <3>5. Transition(r) => act'[r].pc \in {"tombstone", "complete"}
      BY <1>0 DEF Transition, SlotType
    <3>6. IngestFails(r) => act'[r].pc \in {"fail", "free"}
      BY <1>0, <3>1 DEF IngestFails, AfterFailure, SlotType
    <3>7. Quarantine(r) \/ Reconcile(r) \/ Tombstone(r) \/ Complete(r) \/ MarkEventFailed(r)
          => act'[r].pc \in {"free", "complete", "transition"}
      BY <3>1, <3>2 DEF Quarantine, Reconcile, Tombstone, Complete, MarkEventFailed
    <3> QED BY <1>4, <3>3, <3>4, <3>5, <3>6, <3>7 DEF Claimed
  <2>4. ~Holds(r, k)'
    BY <2>3 DEF Holds
  <2> QED BY <1>0, <2>1, <2>2, <2>4, Tally
<1>5. ASSUME NEW r \in Slot,
             \/ SendContext(r) \/ SendMessages(r) \/ SendClaim(r)
             \/ FreshRead(r) \/ FreshReadFails(r) \/ MarkFailed(r) \/ StaleMarkLost(r)
             \/ Mutate(r) \/ MutateFails(r) \/ MarkSent(r) \/ ReadBack(r)
             \/ Finalize(r) \/ SendFails(r) \/ MarkAmbiguous(r) \/ ThreadCrash(r)
      PROVE Weighed(k)'
  <2>0. /\ \A s \in Slot : s # r => act'[s] = act[s]
        /\ Fits(act[r]) /\ act[r] \in SlotType
    BY <1>0, <1>5, SendTurns
  <2>a. Done(r) => ~Holds(r, k)'
    BY <1>0 DEF Done, FreeSlot, Holds, Claimed
  <2>b. ASSUME NEW l, To(r, l)
        PROVE  /\ l \notin Claimed => ~Holds(r, k)'
               /\ act[r].pc \in Claimed => (Holds(r, k)' => Holds(r, k))
               /\ act[r].key # k => ~Holds(r, k)'
    BY <1>0, <2>b DEF To, SlotType, Holds
  <2>c. /\ act[r].pc \notin Claimed => ~Holds(r, k)
        /\ act[r].pc \in Claimed /\ act[r].key = k => Holds(r, k)
    BY DEF Holds
  <2>d. ASSUME NEW status, Write(act[r].key, status)
        PROVE  ops'[k] = IF act[r].key = k THEN status ELSE ops[k]
    BY <1>0, <2>d DEF Write
  \* Steps that touch neither the thread nor the ledger and claim nothing.
  <2>q. ASSUME UNCHANGED <<thread, ops, remarks>>, Holds(r, k)' => Holds(r, k)
        PROVE  Weighed(k)'
    BY <1>0, <2>0, <2>q, Tally
  <2>1. CASE SendContext(r)
    <3>1. act'[r].pc = "messages"
      BY <1>0, <2>1 DEF SendContext, FreeSlot
    <3>2. ~Holds(r, k)'
      BY <3>1 DEF Holds, Claimed
    <3> QED BY <2>1, <2>q, <3>2 DEF SendContext, platform, ledgerVars
  <2>2. CASE SendMessages(r)
    <3>1. act'[r].pc \in {"free", "claim"}
      BY <1>0, <2>2 DEF SendMessages, Done, FreeSlot, SlotType
    <3>2. ~Holds(r, k)'
      BY <3>1 DEF Holds, Claimed
    <3> QED BY <2>2, <2>q, <3>2 DEF SendMessages, platform, ledgerVars
  <2>3. CASE SendClaim(r)
    <3>0. UNCHANGED <<thread, remarks>> /\ ~Holds(r, k)
      BY <2>3, <2>c DEF SendClaim, ThreadAt, Claimed, platform
    <3>1. CASE Done(r) /\ UNCHANGED ops
      BY <2>a, <2>q, <3>0, <3>1
    <3>2. CASE MayClaim(act[r].key) /\ Write(act[r].key, "pending") /\ To(r, "fresh")
      <4>1. CASE act[r].key = k
        <5>1. ops[k] \in {"none", "failed"} /\ ops'[k] = "pending"
          BY <2>d, <3>2, <4>1 DEF MayClaim, Reclaimable
        <5> QED BY <1>0, <2>0, <3>0, <5>1, Tally
      <4>2. CASE act[r].key # k
        <5>1. ops'[k] = ops[k] /\ ~Holds(r, k)'
          BY <2>b, <2>d, <3>2, <4>2
        <5> QED BY <1>0, <2>0, <3>0, <5>1, Tally
      <4> QED BY <4>1, <4>2
    <3> QED BY <2>3, <3>1, <3>2 DEF SendClaim
  <2>4. CASE FreshRead(r) \/ FreshReadFails(r)
    <3>1. act[r].pc \in Claimed /\ \E l : To(r, l)
      BY <2>4 DEF FreshRead, FreshReadFails, ThreadAt, Claimed
    <3>2. Holds(r, k)' => Holds(r, k)
      BY <2>b, <3>1
    <3> QED BY <2>4, <2>q, <3>2 DEF FreshRead, FreshReadFails, platform, ledgerVars
  <2>5. CASE MarkFailed(r)
    <3>0. UNCHANGED thread /\ ~Holds(r, k)' /\ Write(act[r].key, "failed")
      BY <2>5, <2>a DEF MarkFailed, platform
    <3>1. CASE act[r].key # k
      <4>1. ops'[k] = ops[k] /\ remarks'[k] = remarks[k]
        BY <1>0, <2>5, <2>d, <3>0, <3>1 DEF MarkFailed
      <4> QED BY <1>0, <2>0, <3>0, <4>1, Tally
    <3>2. CASE act[r].key = k /\ act[r].pc = "remark"
      <4>1. remarks'[k] = remarks[k] + 1
        BY <1>0, <2>5, <3>2 DEF MarkFailed, ThreadAt
      <4>2. ~Holds(r, k)
        BY <2>c, <3>2 DEF Claimed
      <4> QED BY <1>0, <2>0, <3>0, <4>1, <4>2, Tally
    <3>3. CASE act[r].key = k /\ act[r].pc # "remark"
      <4>1. remarks'[k] = remarks[k]
        BY <2>5, <3>3 DEF MarkFailed, ThreadAt
      <4>2. Holds(r, k)
        BY <2>5, <2>c, <3>3 DEF MarkFailed, Claimed
      <4> QED BY <1>0, <2>0, <3>0, <4>1, <4>2, Tally
    <3> QED BY <3>1, <3>2, <3>3
  <2>6. CASE StaleMarkLost(r)
    <3>0. UNCHANGED <<thread, remarks>> /\ act[r].pc \in Claimed
      BY <2>6 DEF StaleMarkLost, ThreadAt, Claimed, platform
    <3>1. CASE UNCHANGED ops /\ To(r, "mark")
      BY <2>b, <2>q, <3>0, <3>1
    <3>2. CASE Write(act[r].key, "failed") /\ To(r, "remark")
      <4>1. ~Holds(r, k)'
        BY <2>b, <3>2 DEF Claimed
      <4>2. CASE act[r].key = k
        BY <1>0, <2>0, <2>c, <3>0, <4>1, <4>2, Tally
      <4>3. CASE act[r].key # k
        <5>1. ops'[k] = ops[k]
          BY <2>d, <3>2, <4>3
        <5> QED BY <1>0, <2>0, <3>0, <4>1, <5>1, Tally
      <4> QED BY <4>2, <4>3
    <3> QED BY <2>6, <3>1, <3>2 DEF StaleMarkLost
  \* A message of this operation takes the place of its handler.
  <2>e. ASSUME act[r].pc = "mutate", ~Holds(r, k)', UNCHANGED <<ops, remarks>>,
               Room, thread' = Append(thread, act[r].key), UNCHANGED <<start, gone>>
        PROVE  Weighed(k)'
    <3>1. act[r].key \in Key
      BY <2>0, <2>e DEF Fits, Sending
    <3>2. Cardinality(Messages(k)')
          = Cardinality(Messages(k)) + (IF act[r].key = k THEN 1 ELSE 0)
      BY <2>e, <3>1, MessagesChange
    <3>3. CASE act[r].key = k
      <4>1. Holds(r, k)
        BY <2>c, <2>e, <3>3 DEF Claimed
      <4> QED BY <1>0, <2>0, <2>e, <3>2, <3>3, <4>1, Tally
    <3>4. CASE act[r].key # k
      <4>1. Cardinality(Messages(k)') = Cardinality(Messages(k)) /\ ~Holds(r, k)
        BY <3>2, <3>4, MessagesChange DEF Holds
      <4>2. Holders(k)' = Holders(k) /\ Claimable(k)' = Claimable(k)
        <5>1. \A s \in Slot : Holds(s, k) <=> Holds(s, k)'
          <6>1. \A s \in Slot : s # r => (Holds(s, k) <=> Holds(s, k)')
            BY <2>0 DEF Holds
          <6> QED BY <2>e, <4>1, <6>1
        <5> QED BY <2>e, <5>1 DEF Holders, Claimable
      <4> QED BY <1>0, <2>e, <4>1, <4>2 DEF Weighed
    <3> QED BY <3>3, <3>4
  <2>7. CASE Mutate(r)
    <3>1. act'[r].pc = "sent"
      BY <1>0, <2>7 DEF Mutate, SlotType
    <3>2. ~Holds(r, k)'
      BY <3>1 DEF Holds, Claimed
    <3> QED BY <2>7, <2>e, <3>2 DEF Mutate, Accept, ThreadAt, ledgerVars
  <2>8. CASE MutateFails(r)
    <3>1. ~Holds(r, k)'
      BY <2>8, <2>b DEF MutateFails, Unanswered, Claimed
    <3>2. CASE UNCHANGED thread
      BY <2>8, <2>q, <3>1, <3>2 DEF MutateFails, ledgerVars
    <3>3. CASE Room /\ Accept(r)
      BY <2>8, <2>e, <3>1, <3>3 DEF MutateFails, Accept, ThreadAt, ledgerVars
    <3> QED BY <2>8, <3>2, <3>3 DEF MutateFails
  <2>9. CASE ReadBack(r) \/ ThreadCrash(r)
    <3>1. ~Holds(r, k)'
      BY <2>9, <2>a, <2>b DEF ReadBack, ThreadCrash, Claimed
    <3> QED BY <2>9, <2>q, <3>1 DEF ReadBack, ThreadCrash, platform, ledgerVars
  <2>10. CASE MarkSent(r) \/ MarkAmbiguous(r) \/ Finalize(r) \/ SendFails(r)
    <3>1. UNCHANGED <<thread, remarks>>
      BY <2>10 DEF MarkSent, MarkAmbiguous, Finalize, SendFails, platform
    <3>2. ~Holds(r, k)'
      BY <2>10, <2>a, <2>b DEF MarkSent, MarkAmbiguous, Finalize, SendFails, Claimed
    <3>3. UNCHANGED ops \/ \E l \in {"sent", "ambiguous", "confirmed"} : Write(act[r].key, l)
      BY <2>10 DEF MarkSent, MarkAmbiguous, Finalize, SendFails, Finalized
    <3>4. ops'[k] = ops[k] \/ ops'[k] \notin {"none", "failed"}
      BY <2>d, <3>3
    <3> QED BY <1>0, <2>0, <3>1, <3>2, <3>4, Tally
  <2> QED BY <1>5, <2>1, <2>2, <2>3, <2>4, <2>5, <2>6, <2>7, <2>8, <2>9, <2>10
<1> QED BY <1>2, <1>3, <1>4, <1>5 DEF TNext

LEMMA WeightInit == TInit => WeightInv
<1> SUFFICES ASSUME TInit, NEW k \in Key PROVE Weighed(k)
  BY DEF WeightInv
<1>1. Holders(k) = {}
  BY DEF TInit, Holders, Holds, Claimed, FreeSlot
<1>2. Messages(k) = {}
  BY KeyFacts DEF TInit, Messages
<1>3. Claimable(k) = 1 /\ remarks[k] = 0
  BY DEF TInit, Claimable
<1> QED BY <1>1, <1>2, <1>3, FS_EmptySet DEF Weighed

-----------------------------------------------------------------------------
(* The thread: its invariant and what follows from it *)

ThreadInv == ThreadTyped /\ EventInv /\ SentInv /\ WeightInv

LEMMA ThreadInit == TInit => ThreadInv
BY ThreadInitTyped, EventInit, SentInit, WeightInit DEF ThreadInv

LEMMA ThreadStep == ThreadInv /\ [TNext]_tvars => ThreadInv'
<1> SUFFICES ASSUME ThreadInv, [TNext]_tvars PROVE ThreadInv'
  OBVIOUS
<1>0. ThreadTyped' /\ EventInv'
  BY ThreadStepTyped, EventStep DEF ThreadInv, EventInv
<1>1. CASE TNext
  BY <1>0, <1>1, SentStep, WeightStep DEF ThreadInv
<1>2. CASE UNCHANGED tvars
  <2>1. UNCHANGED <<thread, stored, follow, lastSent, ops, remarks, act>>
    BY <1>2 DEF tvars, platform, ledgerVars
  <2>2. \A k \in Key : Messages(k)' = Messages(k)
    BY <2>1 DEF Messages
  <2>3. SentInv'
    BY <2>1, <2>2 DEF ThreadInv, SentInv, SentIsTrue, OnPlatform, KnowsMessage, FromBuyer
  <2>4. WeightInv'
    BY <2>1, <2>2 DEF ThreadInv, WeightInv, Weighed, Holders, Holds, Claimable
  <2> QED BY <1>0, <2>3, <2>4 DEF ThreadInv
<1> QED BY <1>1, <1>2

LEMMA BoundedSends == ThreadInv => SendsHonest
<1> SUFFICES ASSUME ThreadInv, NEW k \in Key
             PROVE  Cardinality(Messages(k)) <= 1 + remarks[k]
  BY DEF ThreadInv, SentInv, SendsHonest, SendsBounded
<1>1. /\ IsFiniteSet(Holders(k))
      /\ Cardinality(Messages(k)) + Cardinality(Holders(k)) + Claimable(k) <= 1 + remarks[k]
      /\ remarks[k] \in Nat
  BY DEF ThreadInv, WeightInv, Weighed, ThreadTyped, LedgerTyped
<1>2. /\ Cardinality(Holders(k)) \in Nat /\ Cardinality(Messages(k)) \in Nat
      /\ Claimable(k) \in {0, 1}
  BY <1>1, FS_CardinalityType, MessagesChange DEF ThreadInv, Claimable
<1> QED BY <1>1, <1>2

LEMMA AccountedEvents == ThreadInv => EventAccounted
BY DEF ThreadInv, EventInv, InboxInv, Truthful, Created, Accounted, EventAccounted

\* The event of the newest message put it into the timeline, so the newest row
\* is a buyer's and the confirmed message, an operator's, is not the newest.
LEMMA AnsweredOutOfQueue == ThreadInv => AnsweredLeavesQueue
<1> DEFINE newest == Len(thread)
<1> SUFFICES ASSUME ThreadInv, FromBuyer(newest), newest \notin gone,
                    NEW e \in DOMAIN inbox, inbox[e].topic = "CREATED", inbox[e].msg = newest,
                    inbox[e].status = "completed", ~inbox[e].held,
                    lastSent # 0, Latest(StoredActive) = lastSent
             PROVE  FALSE
  BY DEF AnsweredLeavesQueue, InQueue
<1>1. /\ Truthful(e) /\ DeletedInv /\ SentIsTrue /\ PlatformTyped
      /\ stored \in [Message -> {"none", "active", "deleted"}]
  BY DEF ThreadInv, EventInv, InboxInv, SentInv, ThreadTyped, RowTyped
<1>2. newest \in DOMAIN thread /\ newest \in Message
  BY <1>1, ThreadDomain DEF Truthful, Created
<1>3. stored[newest] # "none"
  BY <1>1 DEF Truthful, Created, Accounted
<1>4. newest \in StoredActive
  BY <1>1, <1>2, <1>3 DEF DeletedInv, StoredActive
<1>5. newest <= lastSent
  <2>1. StoredActive \in SUBSET Message
    BY DEF StoredActive
  <2> QED BY <1>4, <2>1, LatestType
<1>6. lastSent \in DOMAIN thread /\ ~FromBuyer(lastSent)
  BY <1>1 DEF SentIsTrue
<1>7. DOMAIN thread = 1..newest /\ newest \in Nat
  BY <1>1, ThreadDomain
<1>8. lastSent = newest
  BY <1>5, <1>6, <1>7
<1> QED BY <1>6, <1>8

-----------------------------------------------------------------------------
(* The application *)

JobInv == JTypeOK /\ LockInv /\ CursorInv

LEMMA JobInit == JInit => JobInv
BY InitType, CursorInit DEF JobInv, LockInv, JInit, Active, Idle

LEMMA JobStep == JobInv /\ [JNext]_jvars => JobInv'
BY StepType, LockStep, CursorStep DEF JobInv, CursorInv, RunInv, AtRow

PortalInv == JobInv /\ ThreadInv

\* Whichever half moves, the step is one of the job or none, and one of the
\* thread or none.
LEMMA Halves == [PNext]_pvars => [JNext]_jvars /\ [TNext]_tvars
BY DEF PNext, InJob, InThread, pvars

LEMMA PortalInvariant == PSpec => []PortalInv
<1>1. PInit => PortalInv
  BY JobInit, ThreadInit DEF PInit, PortalInv
<1>2. PortalInv /\ [PNext]_pvars => PortalInv'
  BY Halves, JobStep, ThreadStep DEF PortalInv
<1> QED BY <1>1, <1>2, PTL DEF PSpec

\* Every reachable state is well typed; in particular a page of the job never
\* holds more rows than the limit (runMasterHandler, fetchInquiries), and no
\* send goes past its key's computation without one (outboundIdempotencyKey).
THEOREM TypeCorrect == PSpec => []PTypeOK
<1>1. PortalInv => PTypeOK
  BY ThreadTypes DEF PortalInv, JobInv, ThreadInv, PTypeOK
<1> QED BY <1>1, PortalInvariant, PTL

\* Two invocations run at once only after the lock was given up while one of
\* them was running (JobStateDO.acquireLock, releaseLock, alarm).
THEOREM OverlapCorrect == PSpec => []OverlapNeedsLostLock
<1>1. PortalInv => OverlapNeedsLostLock
  BY LockExcludes DEF PortalInv, JobInv
<1> QED BY <1>1, PortalInvariant, PTL

\* The cursor leaves no received row unclassified behind it, other than rows
\* that appeared or were set back to received behind a position already read,
\* or that a reset passed over.  Overlapping runs, failed writes and crashes are
\* among the steps, and operators who change a row at any moment
\* (runMasterHandler, setCompoundCursor, the dashboard's status route).
THEOREM CursorCorrect == PSpec => []CursorLosesNothing
<1>1. PortalInv => CursorLosesNothing
  BY DEF PortalInv, JobInv, CursorInv
<1> QED BY <1>1, PortalInvariant, PTL

\* One idempotency key never sends two messages, unless a handler wrote its
\* stale mark twice, and what the ledger and the inquiry call sent is on the
\* platform: claims, lost answers, late marks and late finalizes of any number
\* of handlers are among the steps (the send handler, inquiry_claim_outbound_cycle,
\* inquiry_finalize_outbound).
THEOREM SendsCorrect == PSpec => []SendsHonest
<1>1. PortalInv => SendsHonest
  BY BoundedSends DEF PortalInv
<1> QED BY <1>1, PortalInvariant, PTL

\* Once the event of the buyer's newest message has been processed the inquiry
\* is not offered for a follow-up, whatever a late finalize scheduled
\* (follow_up_review_queue_vw).
THEOREM QueueCorrect == PSpec => []AnsweredLeavesQueue
<1>1. PortalInv => AnsweredLeavesQueue
  BY AnsweredOutOfQueue DEF PortalInv
<1> QED BY <1>1, PortalInvariant, PTL

\* A completed event left its message in the timeline or in quarantine, or the
\* platform deleted it first (processNextEvent, inquiry_complete_webhook_event).
THEOREM EventsCorrect == PSpec => []EventAccounted
<1>1. PortalInv => EventAccounted
  BY AccountedEvents DEF PortalInv
<1> QED BY <1>1, PortalInvariant, PTL

\* The job on its own, and the thread on its own, from any of their first
\* states: the application keeps them apart but needs neither for the other.
\* The cursor's exceptions are those of CursorCorrect.
THEOREM JobCorrect == JSpec => [](JTypeOK /\ OverlapNeedsLostLock /\ CursorLosesNothing)
<1>1. JobInv => JTypeOK /\ OverlapNeedsLostLock /\ CursorLosesNothing
  BY LockExcludes DEF JobInv, CursorInv
<1> QED BY <1>1, JobInit, JobStep, PTL DEF JSpec

THEOREM ThreadCorrect ==
  TSpec => [](TTypeOK /\ SendsHonest /\ AnsweredLeavesQueue /\ EventAccounted)
<1>1. ThreadInv => TTypeOK /\ SendsHonest /\ AnsweredLeavesQueue /\ EventAccounted
  BY ThreadTypes, BoundedSends, AnsweredOutOfQueue, AccountedEvents DEF ThreadInv
<1> QED BY <1>1, ThreadInit, ThreadStep, PTL DEF TSpec
=============================================================================
