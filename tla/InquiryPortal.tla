--------------------------- MODULE InquiryPortal ---------------------------
(***************************************************************************)
(* The inquiry application: the classification job over all inquiries and  *)
(* one inquiry's thread.  What they write of an inquiry hardly meets: the  *)
(* job writes the classification, ingestion and the send handler the       *)
(* thread and its follow-up.  So a behaviour moves one of the two; what    *)
(* else happens to the rows of the job (they appear, are answered, set     *)
(* back to received, or typed by an operator) are actions of MasterJob.    *)
(***************************************************************************)
EXTENDS MasterJob, InquiryThread

VARIABLE half       \* "job" or "thread": the part that moves

pvars == <<half, jvars, tvars>>

\* Beside the job one start is as good as another.
PInit ==
  /\ half \in {"job", "thread"} /\ JInit /\ TInit
  /\ half = "job" => start = CHOOSE s \in Starts : TRUE

InJob(Step) == half = "job" /\ Step /\ UNCHANGED <<half, tvars>>
InThread(Step) == half = "thread" /\ Step /\ UNCHANGED <<half, jvars>>
PNext == InJob(JNext) \/ InThread(TNext)

\* JFairness, of the behaviours in which the job moves.
PFairness ==
  /\ WF_jvars(half = "job" /\ \E r \in JobRun : StartCron(r))
  /\ \A r \in JobRun : WF_jvars(half = "job" /\ JobProcess(r))
  /\ WF_jvars(half = "job" /\ LockExpires)

PSpec == PInit /\ [][PNext]_pvars /\ PFairness

PTypeOK == JTypeOK /\ TTypeOK

\* Rows the job still owes a classification: received, without a type, and not
\* passed over by a late date, an operator's change of status or a reset.
Owed == {i \in Row : half = "job" /\ Waiting(i) /\ i \notin skipped}

\* Every such row is classified or answered in the end, and then none is left:
\* no crash leaves the lock held for ever, no failed row is forgotten and no
\* run that overlaps another undoes its progress for good (runMasterHandler).
RowsGetClassified == Owed # {} ~> Owed = {}
=============================================================================
