------------------------------ MODULE MasterJob ------------------------------
(***************************************************************************)
(* The inquiry worker's classification job: runMasterHandler, started by   *)
(* cron or row by row by handleReplay, the lock and the cursor it keeps in *)
(* the Durable Object JobStateDO, and the admin routes that reach into     *)
(* that object.                                                            *)
(*                                                                         *)
(* The lock has a time limit and no owner: anyone renews or releases it.   *)
(* The cursor is the position after which a run looks for rows.  Rows are  *)
(* numbered in the order (inquiry_date, id) in which they are fetched.     *)
(***************************************************************************)
EXTENDS Naturals, FiniteSetsExt

CONSTANTS JobRun,      \* slots for concurrent invocations
          Rows,        \* number of rows
          Late,        \* the rows that are not there at first
          CursorOf,    \* the position formatCursorUTC stores after each row
          Limit,       \* maxRowsPerRun, and the page of a replay
          MaxUpsets    \* bound on faults and operator requests together

Row == 1..Rows

ASSUME RowsAssumption == Rows \in Nat /\ Limit \in Nat \ {0} /\ Late \subseteq Row
\* The stored position drops milliseconds, so it may fall back within a second.
ASSUME CursorOfAssumption ==
  /\ CursorOf \in [Row -> 0..Rows]
  /\ \A i \in Row : CursorOf[i] <= i /\ i - CursorOf[i] < Limit
ASSUME JobBoundsAssumption == MaxUpsets \in Nat

VARIABLES
  table,      \* the status of the inquiries rows, as far as the job tells it apart
  typed,      \* rows with an inquiry_type
  cursor,     \* compoundCursor, 0 before the first row
  locked,     \* lockedUntil lies in the future
  job,        \* the invocation in each slot
  skipped,    \* rows that came to wait where a run had already looked
  freed,      \* the lock was given up while an invocation was running
  upsets      \* faults and operator requests so far

jvars == <<table, typed, cursor, locked, job, skipped, freed, upsets>>

Idle == [pc |-> "idle", kind |-> "cron", batch |-> {}, upto |-> 0, paused |-> FALSE]
JobPC == {"idle", "cursor", "fetch", "rows", "advance", "release"}

JTypeOK ==
  /\ table \in [Row -> {"absent", "received", "answered"}]
  /\ typed \subseteq Row
  /\ cursor \in 0..Rows
  /\ locked \in BOOLEAN
  /\ job \in [JobRun -> [pc : JobPC, kind : {"cron", "replay"}, batch : SUBSET Row,
                         upto : 0..Rows, paused : BOOLEAN]]
  /\ \A r \in JobRun : Cardinality(job[r].batch) <= Limit
  /\ skipped \subseteq Row
  /\ freed \in BOOLEAN
  /\ upsets \in 0..MaxUpsets

JInit ==
  /\ table = [i \in Row |-> IF i \in Late THEN "absent" ELSE "received"]
  /\ typed = {}
  /\ cursor = 0
  /\ locked = FALSE
  /\ job = [r \in JobRun |-> Idle]
  /\ skipped = {}
  /\ freed = FALSE
  /\ upsets = 0

Active == {r \in JobRun : job[r].pc # "idle"}
JobAt(r, l) == job[r].pc = l
Upset == upsets < MaxUpsets /\ upsets' = upsets + 1

\* Rows the query on status = 'received' returns, and those without a type.
Received(i) == table[i] = "received"
Waiting(i) == Received(i) /\ i \notin typed
Classify(i) == typed' = typed \cup {i}

PageOneMore(after) ==                                                   \* mutant
  LET found == {i \in Row : i > after /\ Received(i)}
  IN {i \in found : Cardinality({j \in found : j < i}) <= Limit}
\* The first Limit received rows after a position.
Page(after) ==
  LET found == {i \in Row : i > after /\ Received(i)}
  IN {i \in found : Cardinality({j \in found : j < i}) < Limit}

\* Past(i): the cursor is beyond row i, or a cron run that still moves it has
\* read a position or a page beyond row i and does not hold the row.
Past(i) ==
  \/ i <= cursor
  \/ \E r \in JobRun : /\ job[r].kind = "cron" /\ ~job[r].paused
                       /\ i <= job[r].upto /\ i \notin job[r].batch

-----------------------------------------------------------------------------
(* The table: ingestion inserts a row, dated when its thread was opened,   *)
(* an operator or a sent reply moves it on from received ("answered" is    *)
(* any status but received), and an operator sets it back or gives it a    *)
(* type                                                                    *)

\* Row i becomes received.
BecomesReceived(i) ==
  /\ table' = [table EXCEPT ![i] = "received"]
  /\ skipped' = IF Past(i) /\ i \notin typed THEN skipped \cup {i} ELSE skipped

Appears(i) ==
  /\ table[i] = "absent"
  /\ BecomesReceived(i)
  /\ UNCHANGED <<typed, cursor, locked, job, freed, upsets>>

Answered(i) ==
  /\ Received(i)
  /\ table' = [table EXCEPT ![i] = "answered"]
  /\ UNCHANGED <<typed, cursor, locked, job, skipped, freed, upsets>>

\* The status route writes any valid status over any other.
Reopened(i) ==
  /\ table[i] = "answered"
  /\ Upset
  /\ BecomesReceived(i)
  /\ UNCHANGED <<typed, cursor, locked, job, freed>>

OperatorTypes(i) ==
  /\ table[i] # "absent"
  /\ Upset
  /\ Classify(i)
  /\ UNCHANGED <<table, cursor, locked, job, skipped, freed>>

-----------------------------------------------------------------------------
(* JobStateDO *)

AcquireAnyway == locked' = TRUE                                         \* mutant
AcquireLock == ~locked /\ locked' = TRUE

\* releaseLock and alarm: lockedUntil becomes null, whoever holds it.
Unlock(others) == locked' = FALSE /\ freed' = (others # {})

AlarmIgnored == locked /\ UNCHANGED jvars                               \* mutant
LockExpires ==
  /\ locked
  /\ Unlock(Active)
  /\ UNCHANGED <<table, typed, cursor, job, skipped, upsets>>

AdminReleasesLock ==
  /\ Upset
  /\ Unlock(Active)
  /\ UNCHANGED <<table, typed, cursor, job, skipped>>

\* reset-cursor asks neither the lock nor the rows it may pass over.
AdminResetsCursor(c) ==
  /\ Upset
  /\ cursor' = c
  /\ skipped' = skipped \cup {i \in Row : i <= c /\ Waiting(i)}
  /\ UNCHANGED <<table, typed, locked, job, freed>>

-----------------------------------------------------------------------------
(* An invocation *)

StartCron(r) ==
  /\ JobAt(r, "idle")
  /\ AcquireLock
  /\ job' = [job EXCEPT ![r].pc = "cursor"]
  /\ UNCHANGED <<table, typed, cursor, skipped, freed, upsets>>

\* A replay covers the rows after a date of the operator's choice.
StartReplay(r) ==
  /\ JobAt(r, "idle")
  /\ Upset
  /\ AcquireLock
  /\ \E since \in 0..Rows :
       job' = [job EXCEPT ![r] = [Idle EXCEPT !.pc = "fetch", !.kind = "replay",
                                              !.upto = since]]
  /\ UNCHANGED <<table, typed, cursor, skipped, freed>>

ReadCursor(r) ==
  /\ JobAt(r, "cursor")
  /\ job' = [job EXCEPT ![r].pc = "fetch", ![r].upto = cursor]
  /\ UNCHANGED <<table, typed, cursor, locked, skipped, freed, upsets>>

Fetch(r) ==
  /\ JobAt(r, "fetch")
  /\ LET page == Page(job[r].upto)
     IN job' = [job EXCEPT ![r].pc = "rows", ![r].batch = page,
                           ![r].upto = IF page = {} THEN @ ELSE Max(page)]
  /\ UNCHANGED <<table, typed, cursor, locked, skipped, freed, upsets>>

\* The row at hand.
This(r) == Min(job[r].batch)

\* What follows a row.  Only a cron run that has not failed a row advances.
AfterRow(r) ==
  job' = IF job[r].kind = "cron" /\ ~job[r].paused
         THEN [job EXCEPT ![r].pc = "advance"]
         ELSE [job EXCEPT ![r].batch = @ \ {This(r)}]

\* A cron run classifies the row as it was fetched and patches it
\* unconditionally.  A replay reads the row again, and leaves it alone when it
\* is received no more.
WriteRow(r) ==
  /\ JobAt(r, "rows") /\ job[r].batch # {}
  /\ \/ Classify(This(r))
     \/ job[r].kind = "replay" /\ ~Received(This(r)) /\ UNCHANGED typed
  /\ AfterRow(r)
  /\ UNCHANGED <<table, cursor, locked, skipped, freed, upsets>>

RowFailedForgotten(r) == job' = [job EXCEPT ![r].batch = @ \ {This(r)}] \* mutant
\* The catch block of the row: later rows go on, the cursor does not.
RowFailed(r) ==
  job' = [job EXCEPT ![r].paused = TRUE, ![r].batch = @ \ {This(r)}]

WriteFails(r) ==
  /\ JobAt(r, "rows") /\ job[r].batch # {}
  /\ Upset
  /\ \/ UNCHANGED typed
     \/ Classify(This(r))
  /\ RowFailed(r)
  /\ UNCHANGED <<table, cursor, locked, skipped, freed>>

\* setCompoundCursor stores whatever it is given.
Advance(r) ==
  /\ JobAt(r, "advance")
  /\ cursor' = CursorOf[This(r)]
  /\ job' = [job EXCEPT ![r].pc = "rows", ![r].batch = @ \ {This(r)}]
  /\ UNCHANGED <<table, typed, locked, skipped, freed, upsets>>

\* A replay renews the lock after each page, held or not, and goes on.
Renew(r) ==
  /\ JobAt(r, "rows") /\ job[r].batch = {} /\ job[r].kind = "replay"
  /\ locked' = TRUE
  /\ job' = IF Page(job[r].upto) = {} THEN [job EXCEPT ![r] = [Idle EXCEPT !.pc = "release"]]
            ELSE [job EXCEPT ![r].pc = "fetch"]
  /\ UNCHANGED <<table, typed, cursor, skipped, freed, upsets>>

\* An exception ends the loop; the finally block still releases.
JobFails(r) ==
  /\ job[r].pc \in {"cursor", "fetch", "rows", "advance"}
  /\ Upset
  /\ job' = [job EXCEPT ![r] = [Idle EXCEPT !.pc = "release"]]
  /\ UNCHANGED <<table, typed, cursor, locked, skipped, freed>>

ReleaseLock(r) == Unlock(Active \ {r})

Release(r) ==
  /\ \/ JobAt(r, "release")
     \/ JobAt(r, "rows") /\ job[r].batch = {} /\ job[r].kind = "cron"
  /\ ReleaseLock(r)
  /\ job' = [job EXCEPT ![r] = Idle]
  /\ UNCHANGED <<table, typed, cursor, skipped, upsets>>

JobCrashes(r) ==
  /\ r \in Active
  /\ Upset
  /\ job' = [job EXCEPT ![r] = Idle]
  /\ freed' = (freed /\ Active # {r})
  /\ UNCHANGED <<table, typed, cursor, locked, skipped>>

JobProcess(r) ==
  \/ ReadCursor(r) \/ Fetch(r) \/ WriteRow(r) \/ Advance(r)
  \/ Renew(r) \/ Release(r)

JNext ==
  \/ \E i \in Row : Appears(i) \/ Answered(i) \/ Reopened(i) \/ OperatorTypes(i)
  \/ LockExpires \/ AdminReleasesLock
  \/ \E c \in 0..Rows : AdminResetsCursor(c)
  \/ \E r \in JobRun : \/ StartCron(r) \/ StartReplay(r) \/ JobProcess(r)
                       \/ WriteFails(r) \/ JobFails(r) \/ JobCrashes(r)

\* Cron fires for ever, a Worker that is not killed goes on, and the platform
\* delivers the alarm that ends a lock.
JFairness ==
  /\ WF_jvars(\E r \in JobRun : StartCron(r))
  /\ \A r \in JobRun : WF_jvars(JobProcess(r))
  /\ WF_jvars(LockExpires)

JSpec == JInit /\ [][JNext]_jvars /\ JFairness

-----------------------------------------------------------------------------
(* Properties *)

\* Two invocations run at once only after the lock was given up while one of
\* them was running: it expired, an operator released it, or an invocation
\* that no longer held it did (acquireLock, renewLock, releaseLock).
OverlapNeedsLostLock == Cardinality(Active) > 1 => freed

\* The cursor never leaves a received row unclassified behind it, with three
\* exceptions: a row that appeared, or that an operator set back to received,
\* behind a position already read, and one that a reset of the cursor passed
\* over.  Write failures, crashes and overlapping runs lose nothing.
CursorLosesNothing ==
  \A i \in Row : i <= cursor /\ Waiting(i) => i \in skipped
=============================================================================
