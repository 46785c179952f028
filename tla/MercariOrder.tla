---------------------------- MODULE MercariOrder ----------------------------
(***************************************************************************)
(* One Mercari order from its payment to the supplier: the jobs that write *)
(* its sales lines (ingest, lifecycle reconciliation, the daily sweep for  *)
(* cancellations), those that decide on it (auto-approval and the portal), *)
(* the projector of its shipment rows and runSync, which pushes them.      *)
(*                                                                         *)
(* Jobs overlap (timer, relay, canary, shell, portal requests).  Every     *)
(* list, patch, RPC and external call is a step of its own; what a job has *)
(* read is in its view and may be stale by the time it writes.             *)
(***************************************************************************)
EXTENDS OperationLedger

CONSTANTS Line,         \* lines the order may come to have
          Item,         \* the line Mercari knows; operators add the others
          Openings      \* where a behaviour may start: the jobs it has, the
                        \* status of the order, and a bound on its lapses,
                        \* which are crashes, failed steps, lost responses

\* A payload is the set of its lines and stands for the operation key that
\* contains its hash.
Payload == (SUBSET Line) \ {{}}
MercariStatus == {"PAYMENT", "SHIPPING", "CANCELED"}

ASSUME LineAssumption == Item \in Line /\ Payload \subseteq Key
ASSUME OpeningAssumption ==
  Openings \subseteq [jobs : SUBSET STRING, status : MercariStatus, lapses : Nat]

VARIABLES
  cast,       \* jobs that run in this behaviour
  mercari,    \* status of the order at Mercari
  sales,      \* the sales lines
  ship,       \* giga_sync_status of each line's shipment row, or "NONE"
  supplied,   \* lines of the order GIGA holds; {} is no order
  job,        \* where each invocation is
  view,       \* what it has read and has left to do
  lapses,     \* lapses that may still happen
  decision,   \* the operator's last decision; a cancellation stays the last
  defied,     \* a push was sent whose recheck followed a hold or cancellation
  blind,      \* a cancellation was accepted during a push, or while only the
              \* ledger knew of one
  reset,      \* a backfill replaced a review it had not read
  split,      \* a push did not carry every line, or a line came after it
  notices     \* "order processed" messages sent to the buyer

history == <<decision, defied, blind, reset, split, notices>>
rows == <<sales, ship>>
mvars == <<cast, mercari, rows, supplied, job, view, lapses, history>>

-----------------------------------------------------------------------------
Approved == {"APPROVED", "AUTO_APPROVED"}
Review == Approved \cup {"PENDING_REVIEW", "ON_HOLD", "CANCELED", ""}
SalesLine == [status : MercariStatus \cup {""}, review : Review]
Shipped == {"SYNCED", "ALREADY_EXISTS"}
Unsent == {"PENDING", "ERROR", "INVALID"}
BoxStatus == Shipped \cup Unsent \cup {"NONE", "ATTEMPTED"}

NoLine == [status |-> "", review |-> ""]
Present == {l \in Line : sales[l] # NoLine}
Boxes == {l \in Line : ship[l] # "NONE"}
Pushing == {"claim", "attempt", "send", "abort", "settle", "label"}
JobStep == Pushing \cup
  {"idle", "existing", "page", "backfill", "patch", "status", "cas", "rescan",
   "shipments", "invalidate", "clear", "catchAll", "clearAll", "rpc", "notice",
   "insert", "scan", "create", "recheck"}
Word == MercariStatus \cup Review \cup Status
JobView == [read : [Line -> SalesLine], lines : SUBSET Line, left : SUBSET Line,
            word : Word, sweep : BOOLEAN, decided : Review]

MTypeOK ==
  /\ LedgerTypeOK
  /\ mercari \in MercariStatus
  /\ sales \in [Line -> SalesLine] /\ ship \in [Line -> BoxStatus]
  /\ supplied \in SUBSET Line
  /\ job \in [Run -> JobStep] /\ view \in [Run -> JobView]
  /\ lapses \in Nat
  /\ decision \in {"", "APPROVED", "ON_HOLD", "CANCELED"}
  /\ {defied, blind, reset, split} \subseteq BOOLEAN
  /\ notices \in Nat

Blank == [read |-> [l \in Line |-> NoLine], lines |-> {}, left |-> {},
          word |-> "", sweep |-> FALSE, decided |-> ""]

\* Ingest creates a paid line for review, an unpaid one without a review.
MInit ==
  /\ LedgerInit
  /\ \E s \in Openings :
       /\ cast = s.jobs /\ mercari = s.status /\ lapses = s.lapses
       /\ sales = [l \in Line |->
            IF l # Item THEN NoLine
            ELSE [status |-> s.status,
                  review |-> IF s.status = "SHIPPING" THEN "PENDING_REVIEW" ELSE ""]]
  /\ ship = [l \in Line |-> "NONE"] /\ supplied = {}
  /\ job = [r \in Run |-> "idle"] /\ view = [r \in Run |-> Blank]
  /\ decision = "" /\ notices = 0
  /\ defied = FALSE /\ blind = FALSE /\ reset = FALSE /\ split = FALSE

Lapse == lapses > 0 /\ lapses' = lapses - 1
MayStart(r, name) == job[r] = "idle" /\ name \in cast
On(r, step) == job[r] = step
Go(r, step) == job' = [job EXCEPT ![r] = step]
Quit(r) == Go(r, "idle") /\ view' = [view EXCEPT ![r] = Blank]
Knows(r, v) == view' = [view EXCEPT ![r] = v]

\* What no job changes.
Outer == <<cast, mercari>>
OnlyReads == UNCHANGED <<lvars, Outer, rows, supplied, lapses, history>>

-----------------------------------------------------------------------------
(* sync_mercari_sales_orders: existing rows, then Mercari, then patches *)

IngestReads(r) ==
  /\ MayStart(r, "ingest") \/ On(r, "existing")
  /\ Knows(r, [view[r] EXCEPT !.read[Item] = sales[Item]])
  /\ Go(r, "page")
  /\ OnlyReads

\* The sweep asks for canceled orders too, and not for unpaid ones.
Asked(r) == IF view[r].sweep THEN {"SHIPPING", "CANCELED"} ELSE {"PAYMENT", "SHIPPING"}

\* A fetch that fails ends an ingest; the sweep goes on without it.
IngestFetches(r) ==
  LET swept == view[r].sweep
  IN /\ On(r, "page")
     /\ \/ /\ mercari \in Asked(r) /\ UNCHANGED lapses
           /\ Go(r, "backfill") /\ Knows(r, [view[r] EXCEPT !.word = mercari])
        \/ ~swept /\ mercari \notin Asked(r) /\ Quit(r) /\ UNCHANGED lapses
        \/ /\ swept /\ Go(r, "rescan") /\ Knows(r, [Blank EXCEPT !.sweep = TRUE])
           /\ (mercari \notin Asked(r) /\ UNCHANGED lapses) \/ Lapse
     /\ UNCHANGED <<lvars, Outer, rows, supplied, history>>

\* needsBackfill and buildBackfillPayload judge the row as it was read, and the
\* patch is unconditional.  A row that was already paid is due when it has no
\* shipping name, which is a choice here: some orders never show one.
BackfillDue(r) == view[r].word = "SHIPPING" /\ view[r].read[Item].review = ""

\* A backfill that fails is logged, and the patch goes on.
IngestBackfills(r) ==
  /\ On(r, "backfill")
  /\ \/ /\ BackfillDue(r) /\ UNCHANGED lapses
        /\ sales' = [sales EXCEPT ![Item].review = "PENDING_REVIEW"]
        /\ reset' = (reset \/ sales[Item].review \notin {"", "PENDING_REVIEW"})
     \/ /\ ~BackfillDue(r) \/ view[r].read[Item].status # "PAYMENT"
        /\ UNCHANGED <<sales, reset, lapses>>
     \/ BackfillDue(r) /\ Lapse /\ UNCHANGED <<sales, reset>>
  /\ Go(r, "patch")
  /\ UNCHANGED <<lvars, Outer, ship, supplied, view, decision, defied, blind, split, notices>>

\* A row that equals the page, as it was read, is left alone (rowsEquivalent,
\* which looks at other columns too).  A terminal status takes the review with
\* it; only a completed order is guarded against a stale page.
IngestPatches(r) ==
  /\ On(r, "patch")
  /\ \/ sales' = [sales EXCEPT ![Item].status = view[r].word,
                               ![Item].review = IF view[r].word = "CANCELED" THEN "" ELSE @]
     \/ view[r].read[Item].status = view[r].word /\ UNCHANGED sales
  /\ \/ view[r].sweep /\ Go(r, "rescan") /\ Knows(r, [Blank EXCEPT !.sweep = TRUE])
     \/ ~view[r].sweep /\ Quit(r)
  /\ UNCHANGED <<lvars, Outer, ship, supplied, lapses, history>>

(* reconcileMercariLifecycle *)

StatusLists(r) ==
  LET open == {l \in Present : sales[l].status # "CANCELED"}
  IN /\ MayStart(r, "lifecycle") /\ open # {}
     /\ Knows(r, [Blank EXCEPT !.lines = open,
          !.read = [l \in Line |-> IF l \in open THEN [NoLine EXCEPT !.status = sales[l].status]
                                   ELSE NoLine]])
     /\ Go(r, "status")
     /\ OnlyReads

StatusFetches(r) ==
  /\ On(r, "status")
  /\ IF \A l \in view[r].lines : view[r].read[l].status = mercari
     THEN Quit(r)
     ELSE Go(r, "cas") /\ Knows(r, [view[r] EXCEPT !.word = mercari])
  /\ OnlyReads

\* reconcile_mercari_order_status: a compare-and-set on every line read.
StatusCas(r) ==
  LET v == view[r]
      canceled == v.word = "CANCELED"
  IN /\ On(r, "cas")
     /\ IF \A l \in v.lines : sales[l].status = v.read[l].status
        THEN /\ sales' = [l \in Line |->
                  IF l \notin v.lines THEN sales[l]
                  ELSE [status |-> v.word,
                        review |-> IF canceled THEN "" ELSE sales[l].review]]
             /\ ship' = [l \in Line |->
                  IF canceled /\ l \in v.lines \cap Boxes /\ ship[l] \notin Shipped
                  THEN "INVALID" ELSE ship[l]]
        ELSE UNCHANGED rows
     /\ Quit(r)
     /\ UNCHANGED <<lvars, Outer, supplied, lapses, history>>

(* reconcileCancellations, around an ingest of canceled orders *)

SweepLists(r) ==
  /\ MayStart(r, "sweep")
  /\ \E l \in Present : sales[l].status # "CANCELED"
  /\ Knows(r, [Blank EXCEPT !.sweep = TRUE])
  /\ Go(r, "existing")
  /\ OnlyReads

CanceledLines == {l \in Present : sales[l].status = "CANCELED"}
Reviewed(lines) == {l \in lines : sales[l].review # ""}

SweepRescans(r) ==
  /\ On(r, "rescan")
  /\ Knows(r, [view[r] EXCEPT !.lines = Reviewed(CanceledLines)])
  /\ Go(r, IF CanceledLines = {} THEN "catchAll" ELSE "shipments")
  /\ OnlyReads

SweepReadsShipments(r) ==
  /\ On(r, "shipments")
  /\ Knows(r, [view[r] EXCEPT !.left = {l \in Boxes : ship[l] \notin {"INVALID", "ERROR"}}])
  /\ Go(r, "invalidate")
  /\ OnlyReads

\* A row that has been pushed by now is invalidated all the same.
SweepInvalidates(r) ==
  /\ On(r, "invalidate")
  /\ \/ /\ view[r].left = {} /\ Go(r, "clear") /\ UNCHANGED <<view, ship>>
     \/ \E l \in view[r].left :
          /\ ship' = [ship EXCEPT ![l] = "INVALID"]
          /\ Knows(r, [view[r] EXCEPT !.left = @ \ {l}])
          /\ UNCHANGED job
  /\ UNCHANGED <<lvars, Outer, sales, supplied, lapses, history>>

SweepClears(r) ==
  /\ job[r] \in {"clear", "clearAll"}
  /\ \/ /\ view[r].lines = {} /\ UNCHANGED sales
        /\ IF On(r, "clear") THEN Go(r, "catchAll") /\ UNCHANGED view ELSE Quit(r)
     \/ \E l \in view[r].lines :
          /\ sales' = [sales EXCEPT ![l].review = ""]
          /\ Knows(r, [view[r] EXCEPT !.lines = @ \ {l}])
          /\ UNCHANGED job
  /\ UNCHANGED <<lvars, Outer, ship, supplied, lapses, history>>

SweepCatchesAll(r) ==
  /\ On(r, "catchAll")
  /\ Knows(r, [view[r] EXCEPT !.lines = Reviewed(CanceledLines)])
  /\ Go(r, "clearAll")
  /\ OnlyReads

-----------------------------------------------------------------------------
(* The review: auto-approval, the portal, and the RPC they all go through *)

\* The rules, region, fee and message gates may stop an order: then the job
\* does not start.
AutoReads(r) ==
  /\ MayStart(r, "auto")
  /\ [status |-> "SHIPPING", review |-> "PENDING_REVIEW"] \in {sales[l] : l \in Line}
  /\ Knows(r, [Blank EXCEPT !.word = "AUTO_APPROVED"])
  /\ Go(r, "rpc")
  /\ OnlyReads

\* isValidReviewMutation on the marketplace line, and the payment gate.
MayReview(t) ==
  LET a == sales[Item]
  IN /\ a.status # "CANCELED" /\ a.review \notin {"CANCELED", t}
     /\ t = "APPROVED" => a.status = "SHIPPING" /\ a.review # "AUTO_APPROVED"

ReviewReads(r) ==
  /\ MayStart(r, "portal")
  /\ \E t \in {"APPROVED", "ON_HOLD"} :
       MayReview(t) /\ Knows(r, [Blank EXCEPT !.word = t])
  /\ Go(r, "rpc")
  /\ OnlyReads

CancelReads(r) ==
  /\ MayStart(r, "portal")
  /\ sales[Item].status # "CANCELED" /\ sales[Item].review # "CANCELED"
  /\ \A l \in Line : ship[l] \notin Shipped
  /\ Knows(r, [Blank EXCEPT !.word = "CANCELED"])
  /\ Go(r, "rpc")
  /\ OnlyReads

\* The four guards of set_order_review_status.
GuardsWithoutAutoCas(t) ==                                              \* mutant
  /\ \A l \in Present : sales[l].status # "CANCELED"
  /\ t = "CANCELED" => \A l \in Line : ship[l] \notin Shipped
  /\ t # "CANCELED" => \A l \in Present : sales[l].review # "CANCELED"

Guards(t) ==
  /\ \A l \in Present : sales[l].status # "CANCELED"
  /\ t = "CANCELED" => \A l \in Line : ship[l] \notin Shipped
  /\ t # "CANCELED" => \A l \in Present : sales[l].review # "CANCELED"
  /\ t = "AUTO_APPROVED" => \A l \in Present : sales[l].review = "PENDING_REVIEW"

\* A push is under way, or the ledger has a row and no label shows it.
Unseen == \/ \E q \in Run : job[q] \in Pushing
          \/ /\ \E k \in Payload : ledger[k].status # "NONE"
             /\ \A l \in Line : ship[l] \notin Shipped

ReviewRpc(r) ==
  LET t == view[r].word
  IN /\ On(r, "rpc")
     /\ IF Guards(t)
        THEN /\ sales' = [l \in Line |-> IF l \in Present THEN [sales[l] EXCEPT !.review = t]
                                         ELSE NoLine]
             /\ decision' = IF t = "AUTO_APPROVED" \/ decision = "CANCELED" THEN decision ELSE t
             /\ blind' = (blind \/ (t = "CANCELED" /\ Unseen))
             /\ IF t = "AUTO_APPROVED" THEN Go(r, "notice") /\ UNCHANGED view ELSE Quit(r)
        ELSE Quit(r) /\ UNCHANGED <<sales, decision, blind>>
     /\ UNCHANGED <<lvars, Outer, ship, supplied, lapses, defied, reset, split, notices>>

\* sendAutoApprovalMessage: the guard key names this transition, so it is free.
Notice(r) ==
  /\ On(r, "notice")
  /\ notices' = notices + 1
  /\ Quit(r)
  /\ UNCHANGED <<lvars, Outer, rows, supplied, lapses, decision, defied, blind, reset, split>>

\* handlePortalOrderLineCreate copies the status and review it read.  An
\* operator adds a line once.
LineReads(r) ==
  LET a == sales[Item]
  IN /\ MayStart(r, "lines")
     /\ a.status # "CANCELED" /\ a.review \notin Approved
     /\ \A q \in Run : ~On(q, "insert")
     /\ \E l \in Line \ Present : Knows(r, [Blank EXCEPT !.lines = {l}, !.read[Item] = a])
     /\ Go(r, "insert")
     /\ OnlyReads

LineInserts(r) ==
  /\ On(r, "insert")
  /\ sales' = [l \in Line |-> IF l \in view[r].lines THEN view[r].read[Item] ELSE sales[l]]
  /\ Quit(r)
  /\ UNCHANGED <<lvars, Outer, ship, supplied, lapses, history>>

-----------------------------------------------------------------------------
(* projectMercariSalesOrdersToShipment.  One projector runs at a time: what *)
(* two of them add is a duplicate row of a line, which dedupeOrderLines     *)
(* merges.                                                                  *)

BoxesList(r) ==
  LET ready == {l \in Present : sales[l].status = "SHIPPING" /\ sales[l].review \in Approved}
  IN /\ MayStart(r, "project") /\ ready # {}
     /\ \A q \in Run : job[q] \notin {"scan", "create"}
     /\ Knows(r, [Blank EXCEPT !.lines = ready])
     /\ Go(r, "scan")
     /\ OnlyReads

BoxesScan(r) ==
  /\ On(r, "scan")
  /\ IF view[r].lines \subseteq Boxes
     THEN Quit(r)
     ELSE Go(r, "create") /\ Knows(r, [view[r] EXCEPT !.lines = @ \ Boxes])
  /\ OnlyReads

BoxesCreate(r) ==
  /\ On(r, "create")
  /\ \E l \in view[r].lines :
       /\ ship' = [ship EXCEPT ![l] = "PENDING"]
       /\ IF view[r].lines = {l} THEN Quit(r)
          ELSE Knows(r, [view[r] EXCEPT !.lines = @ \ {l}]) /\ UNCHANGED job
  /\ split' = (split \/ \E k \in Payload : ledger[k].status # "NONE")
  /\ UNCHANGED <<lvars, Outer, sales, supplied, lapses, decision, defied, blind, reset, notices>>

-----------------------------------------------------------------------------
(* runSync *)

\* collectScopedGroups.  A row being attempted is due again after 30 minutes;
\* a scoped run takes every row.
SyncCollects(r) ==
  /\ MayStart(r, "push")
  /\ \E l \in Present : sales[l].status = "SHIPPING" /\ sales[l].review \in Approved \cup {""}
  /\ CanceledLines = {}
  /\ \E due \in Payload :
       /\ \/ due = Boxes
          \/ /\ {l \in Line : ship[l] \in Unsent} \subseteq due
             /\ \A l \in due : ship[l] \in Unsent \cup {"ATTEMPTED"}
       /\ Knows(r, [Blank EXCEPT !.lines = due])
  /\ Go(r, "recheck")
  /\ OnlyReads

\* recheckOutboundEligibility: every line is paid and approved or unreviewed.
EligibleAtCollect == TRUE                                                \* mutant
Eligible == \A l \in Present : /\ sales[l].status = "SHIPPING"
                               /\ sales[l].review \in Approved \cup {""}

SyncRechecks(r) ==
  /\ On(r, "recheck")
  /\ IF Eligible
     THEN Go(r, "claim") /\ Knows(r, [view[r] EXCEPT !.decided = decision])
     ELSE Quit(r)
  /\ OnlyReads

\* A claim this run wins leads to the attempt; one that was applied to a label.
SyncClaims(r) ==
  LET k == view[r].lines
      v == [view[r] EXCEPT !.left = k]
  IN /\ On(r, "claim")
     /\ Claim(k, r)
     /\ \/ Claimable(k) /\ Go(r, "attempt") /\ Knows(r, v)
        \/ /\ ledger[k].status \in Applied
           /\ Go(r, "label") /\ Knows(r, [v EXCEPT !.word = "ALREADY_APPLIED", !.decided = ""])
        \/ ledger[k].status \in Open /\ Quit(r)
     /\ UNCHANGED <<Outer, rows, supplied, lapses, history>>

\* updateRowsProgress patches row by row.
SyncAttempts(r) ==
  /\ On(r, "attempt")
  /\ \E l \in view[r].left :
       /\ ship' = [ship EXCEPT ![l] = "ATTEMPTED"]
       /\ Knows(r, [view[r] EXCEPT !.left = @ \ {l}])
       /\ IF view[r].left = {l} THEN Go(r, "send") ELSE UNCHANGED job
  /\ UNCHANGED <<lvars, Outer, sales, supplied, lapses, history>>

SyncAttemptFails(r) ==
  /\ On(r, "attempt") /\ Lapse
  /\ Go(r, "abort") /\ UNCHANGED view
  /\ UNCHANGED <<lvars, Outer, rows, supplied, history>>

SyncAborts(r) ==
  /\ On(r, "abort")
  /\ Finalize(view[r].lines, r, "DEFINITIVE_FAILURE")
  /\ Quit(r)
  /\ UNCHANGED <<Outer, rows, supplied, lapses, history>>

\* GIGA keeps the first order it accepts under an order number, whatever its
\* lines, and may refuse one.  A lost response is taken to say nothing, and one
\* whose body is lost on its way, to say no.
SyncSends(r) ==
  LET k == view[r].lines
      v == [view[r] EXCEPT !.left = k, !.decided = ""]
  IN /\ On(r, "send")
     /\ \/ supplied = {} /\ supplied' = k
           /\ Knows(r, [v EXCEPT !.word = "CONFIRMED"]) /\ UNCHANGED lapses
        \/ supplied # {} /\ UNCHANGED supplied
           /\ Knows(r, [v EXCEPT !.word = "ALREADY_APPLIED"]) /\ UNCHANGED lapses
        \/ supplied = {} /\ UNCHANGED supplied
           /\ Knows(r, [v EXCEPT !.word = "DEFINITIVE_FAILURE"]) /\ UNCHANGED lapses
        \/ Lapse /\ supplied' \in {supplied, IF supplied = {} THEN k ELSE supplied}
           /\ \E w \in {"UNKNOWN_RESULT", "DEFINITIVE_FAILURE"} : Knows(r, [v EXCEPT !.word = w])
     /\ Go(r, "settle")
     /\ defied' = (defied \/ view[r].decided \in {"ON_HOLD", "CANCELED"})
     /\ split' = (split \/ k # Boxes)
     /\ UNCHANGED <<lvars, Outer, rows, decision, blind, reset, notices>>

\* A finalize that throws after GIGA accepted is recorded as unknown.
SyncSettles(r) ==
  /\ On(r, "settle")
  /\ \/ /\ Finalize(view[r].lines, r, view[r].word)
        /\ Go(r, "label") /\ UNCHANGED <<view, lapses>>
     \/ /\ Lapse /\ view[r].word = "CONFIRMED"
        /\ Finalize(view[r].lines, r, "CONFIRMED") \/ UNCHANGED lvars
        /\ Knows(r, [view[r] EXCEPT !.word = "UNKNOWN_RESULT"]) /\ UNCHANGED job
     \/ /\ Lapse /\ view[r].word \in {"UNKNOWN_RESULT", "DEFINITIVE_FAILURE"}
        /\ Finalize(view[r].lines, r, view[r].word) \/ UNCHANGED lvars
        /\ Go(r, "label") /\ UNCHANGED view
  /\ UNCHANGED <<Outer, rows, supplied, history>>

LabelExistsAsSynced ==                                                  \* mutant
  [s \in Terminal |-> IF s \in Applied THEN "SYNCED" ELSE "ERROR"]
LabelsTheOutcome ==                                                     \* mutant
  [s \in Terminal |-> CASE s = "CONFIRMED" -> "SYNCED"
                        [] s = "ALREADY_APPLIED" -> "ALREADY_EXISTS"
                        [] OTHER -> s]
LabelOf == [s \in Terminal |-> CASE s = "CONFIRMED" -> "SYNCED"
                                 [] s = "ALREADY_APPLIED" -> "ALREADY_EXISTS"
                                 [] OTHER -> "ERROR"]

SyncLabels(r) ==
  /\ On(r, "label")
  /\ \E l \in view[r].left :
       /\ ship' = [ship EXCEPT ![l] = LabelOf[view[r].word]]
       /\ IF view[r].left = {l} THEN Quit(r)
          ELSE Knows(r, [view[r] EXCEPT !.left = @ \ {l}]) /\ UNCHANGED job
  /\ UNCHANGED <<lvars, Outer, sales, supplied, lapses, history>>

\* A patch to SYNCED that throws lands in the catch block.
SyncLabelFails(r) ==
  /\ On(r, "label") /\ view[r].word = "CONFIRMED" /\ Lapse
  /\ Knows(r, [view[r] EXCEPT !.word = "UNKNOWN_RESULT", !.left = view[r].lines])
  /\ UNCHANGED <<lvars, Outer, rows, supplied, job, history>>

-----------------------------------------------------------------------------
\* A step throws and nothing more is done for the order, or the process dies.
Breaks(r) ==
  /\ job[r] # "idle" /\ Lapse
  /\ Quit(r)
  /\ UNCHANGED <<lvars, Outer, rows, supplied, history>>

\* The buyer pays or cancels; Mercari may cancel a paid order.
MercariMoves ==
  /\ \/ mercari = "PAYMENT" /\ mercari' \in {"SHIPPING", "CANCELED"}
     \/ mercari = "SHIPPING" /\ mercari' = "CANCELED"
  /\ UNCHANGED <<lvars, cast, rows, supplied, job, view, lapses, history>>

Ingests(r) == \/ IngestReads(r) \/ IngestFetches(r) \/ IngestBackfills(r) \/ IngestPatches(r)
Reconciles(r) ==
  \/ StatusLists(r) \/ StatusFetches(r) \/ StatusCas(r)
  \/ SweepLists(r) \/ SweepRescans(r) \/ SweepReadsShipments(r) \/ SweepInvalidates(r)
  \/ SweepClears(r) \/ SweepCatchesAll(r)
Decides(r) ==
  \/ AutoReads(r) \/ ReviewReads(r) \/ CancelReads(r) \/ ReviewRpc(r) \/ Notice(r)
  \/ LineReads(r) \/ LineInserts(r)
Syncs(r) ==
  \/ BoxesList(r) \/ BoxesScan(r) \/ BoxesCreate(r)
  \/ SyncCollects(r) \/ SyncRechecks(r) \/ SyncClaims(r) \/ SyncAttempts(r)
  \/ SyncAttemptFails(r) \/ SyncAborts(r) \/ SyncSends(r) \/ SyncSettles(r)
  \/ SyncLabels(r) \/ SyncLabelFails(r)

MNext ==
  \/ \E r \in Run : Ingests(r) \/ Reconciles(r) \/ Decides(r) \/ Syncs(r) \/ Breaks(r)
  \/ MercariMoves

MSpec == MInit /\ [][MNext]_<<lvars, mvars>>

-----------------------------------------------------------------------------
(* Properties *)

\* An order the operator holds or cancels is not sent to GIGA by a push that
\* checks it afterwards, and one the operator cancels is not at GIGA: unless a
\* stale backfill took the decision back, Mercari itself canceled the order
\* (which clears the review), or, for the second part, a push was under way or
\* known to the ledger only (recheckOutboundEligibility, set_order_review_status).
DecisionHonoured ==
  /\ defied => reset \/ mercari = "CANCELED"
  /\ decision = "CANCELED" /\ supplied # {} => blind \/ reset \/ mercari = "CANCELED"

\* Auto-approval never replaces an operator's decision, whatever it read
\* before, and tells the buyer once, though runs overlap and every transition
\* has a guard key of its own (autoApproveMercariOrders); the exceptions are
\* the ones above.
AutoApprovalYields ==
  reset \/ mercari = "CANCELED"
  \/ /\ notices <= 1
     /\ decision # "" => \A l \in Present : sales[l].review # "AUTO_APPROVED"

\* A shipment row is labelled SYNCED only if the order at GIGA has its line,
\* and ALREADY_EXISTS only if GIGA has an order, which lacks the line only if
\* some push was partial or a line came later: no overlap of runs, patched row
\* by row, or lost response labels what was not ordered (runSync).
LabelsHonest ==
  /\ \A l \in Line : ship[l] = "SYNCED" => l \in supplied
  /\ \A l \in Line : ship[l] = "ALREADY_EXISTS" => supplied # {} /\ (l \in supplied \/ split)
=============================================================================
