---------------------------- MODULE RakutenOrder ----------------------------
(***************************************************************************)
(* One Rakuten order: invocations of the pipeline phases that write its    *)
(* sales row (ingest, lifecycle reconciliation, confirmation and close),   *)
(* the operator who requests a confirmation in the portal, the operator    *)
(* who resolves ledger rows, and RMS, which moves the order by itself.     *)
(*                                                                         *)
(* Phases of different invocations overlap (timer, relay, canary, shell).  *)
(* Every database statement, RMS read and RMS call is a step of its own.   *)
(* The lines of an order are one row: the two compare-and-set functions    *)
(* write all of them in one transaction.                                   *)
(***************************************************************************)
EXTENDS OperationLedger

CONSTANTS ConfirmKey,   \* operation key of rakuten_confirm_order
          CloseKey,     \* operation key of rakuten_close_order
          Moves,        \* pairs of progress RMS may pass by itself
          Starts,       \* where a behaviour may start: the operations whose
                        \* phase is live, the progress the order is found at
          MaxFaults,    \* bound: crashes, failed reads, lost responses
          MaxReleases   \* bound: NOT_APPLIED resolutions per key

ASSUME KeyAssumption == {ConfirmKey, CloseKey} \subseteq Key /\ ConfirmKey # CloseKey
ASSUME BoundsAssumption == MaxFaults \in Nat /\ MaxReleases \in [Key -> Nat]

VARIABLES
  live,       \* operations whose phase is live
  rms,        \* orderProgress at RMS
  confirmed,  \* RMS holds the order as confirmed by the shop
  shipped,    \* RMS holds shipping details for the order
  pending,    \* calls RMS has not yet processed
  accepted,   \* runs whose current call RMS carried out
  calls,      \* calls[k]: calls made so far
  row,        \* the sales row
  pc,         \* where each invocation is
  cur,        \* the operation it is performing
  seen,       \* the orderProgress it last read at RMS
  snap,       \* status and progress of the row as it last read it
  note,       \* the status it is about to write, or expects in the ledger
  faults      \* faults so far

evars == <<live, rms, confirmed, shipped, pending, accepted, calls>>
rvars == <<pc, cur, seen, snap, note>>
vars == <<lvars, evars, row, rvars, faults>>

-----------------------------------------------------------------------------
(* normalizeRmsOrderProgress and the gates on a row *)

StatusOf == [p \in {"100", "600", "700", "300", "500", "900"} |->
               CASE p = "100" -> "PENDING_CONFIRMATION"
                 [] p = "600" -> "WAITING_FOR_PAYMENT"
                 [] p = "700" -> "CONFIRMED"
                 [] p = "300" -> "RMS_CONFIRMED"
                 [] p = "500" -> "COMPLETED"
                 [] p = "900" -> "CANCELED"]
Progress == DOMAIN StatusOf
OrderStatus == {StatusOf[p] : p \in Progress}
NonTerminal == OrderStatus \ {"COMPLETED", "CANCELED"}
Confirmable == {"100", "600"}

RowView == [status : OrderStatus, prog : Progress]
SalesRow == [status : OrderStatus, prog : Progress, flag : BOOLEAN,
             result : {"", "requested", "confirmed"}, closed : BOOLEAN]
View == [status |-> row.status, prog |-> row.prog]

\* A local confirmation is never undone by RMS still showing a new order.
Regressive(current, target) ==
  current \in {"CONFIRMED", "RMS_CONFIRMED"} /\ target = "PENDING_CONFIRMATION"

\* planRakutenLifecycleTransition, for a mapped progress.
Target(current, p) == IF Regressive(current, StatusOf[p]) THEN current ELSE StatusOf[p]

\* The rows findConfirmedRakutenOrders looks at.
ConfirmCandidate ==
  /\ row.prog \in Confirmable
  /\ \/ row.status = "CONFIRMED"
     \/ row.status = "WAITING_FOR_PAYMENT" /\ row.result = "requested"

\* The rows closeRakutenOrders looks at, tracking number present.
CloseCandidate == row.status = "RMS_CONFIRMED" /\ row.prog = "300" /\ ~row.closed

\* planRakutenConfirmation: the status a portal request writes.
PortalNext == [s \in {"WAITING_FOR_PAYMENT", "PENDING_CONFIRMATION"} |->
                 IF s = "WAITING_FOR_PAYMENT" THEN s ELSE "CONFIRMED"]

ASSUME StartsAssumption ==
  Starts \subseteq [live : SUBSET Key, rms : {"100", "300"}]

\* RMS finishes an order once: a completed or canceled one no longer moves,
\* and an order completes only from 300, shipped.
ASSUME MovesAssumption ==
  \A m \in Moves : /\ m[1] \notin {"500", "900"}
                   /\ m[2] = "500" => m[1] = "300"

-----------------------------------------------------------------------------
\* The phases of GigaOutbound.
GigaPC == {"recheck", "gclaim", "attempt", "create", "response", "gabort",
           "gfinalize", "synced", "exists", "error", "invalid", "project"}
PC == {"idle", "mark", "reset", "preflight", "claim", "execute", "wait",
       "readback", "finalize", "resolve", "store", "fetch", "cas", "list", "write", "evidence",
       "request", "applied", "notApplied"} \cup GigaPC

TypeOK ==
  /\ LedgerTypeOK
  /\ live \subseteq Key
  /\ rms \in Progress
  /\ confirmed \in BOOLEAN /\ shipped \in BOOLEAN
  /\ pending \subseteq Run \X Key
  /\ accepted \subseteq Run
  /\ calls \in [Key -> Nat]
  /\ row \in SalesRow
  /\ pc \in [Run -> PC]
  /\ cur \in [Run -> Key]
  /\ seen \in [Run -> Progress \cup {""}]
  /\ snap \in [Run -> RowView]
  /\ note \in [Run -> Status \cup {""}]
  /\ faults \in 0..MaxFaults

NoView == [status |-> "PENDING_CONFIRMATION", prog |-> "100"]

Init ==
  /\ LedgerInit
  /\ \E s \in Starts : live = s.live /\ rms = s.rms
  /\ confirmed = (rms = "300") /\ shipped = FALSE
  /\ pending = {} /\ accepted = {}
  /\ calls = [k \in Key |-> 0]
  /\ row = [status |-> StatusOf[rms], prog |-> rms, flag |-> FALSE,
            result |-> "", closed |-> FALSE]
  /\ pc = [r \in Run |-> "idle"]
  /\ cur = [r \in Run |-> ConfirmKey]
  /\ seen = [r \in Run |-> ""]
  /\ snap = [r \in Run |-> NoView]
  /\ note = [r \in Run |-> ""]
  /\ faults = 0

Fault == faults < MaxFaults /\ faults' = faults + 1
At(r, l) == pc[r] = l
Goto(r, l) == pc' = [pc EXCEPT ![r] = l]

\* The phase is over and its variables go out of scope.
Leave(r) == /\ Goto(r, "idle")
            /\ cur' = [cur EXCEPT ![r] = ConfirmKey]
            /\ seen' = [seen EXCEPT ![r] = ""]
            /\ snap' = [snap EXCEPT ![r] = NoView]
            /\ note' = [note EXCEPT ![r] = ""]

-----------------------------------------------------------------------------
(* The confirmation phase: findConfirmedRakutenOrders *)

\* A free candidate is about to be flagged; a flag that looks stuck is about
\* to be cleared, and the row waits for the next cycle.  Nothing bounds how
\* long a phase may stall, so a flag of any age may belong to a live run.
ConfirmFind(r) ==
  /\ At(r, "idle") /\ ConfirmKey \in live /\ ConfirmCandidate
  /\ Goto(r, IF row.flag THEN "reset" ELSE "mark")
  /\ UNCHANGED <<lvars, evars, row, cur, seen, snap, note, faults>>

ResetStuck(r) ==
  /\ At(r, "reset")
  /\ row' = [row EXCEPT !.flag = FALSE]
  /\ Leave(r)
  /\ UNCHANGED <<lvars, evars, faults>>

MarkInProgress(r) ==
  /\ At(r, "mark")
  /\ row' = [row EXCEPT !.flag = TRUE]
  /\ Goto(r, "claim")
  /\ UNCHANGED <<lvars, evars, cur, seen, snap, note, faults>>

(* The close phase: closeRakutenOrders up to its claim *)

CloseFind(r) ==
  /\ At(r, "idle") /\ CloseKey \in live /\ CloseCandidate
  /\ cur' = [cur EXCEPT ![r] = CloseKey]
  /\ snap' = [snap EXCEPT ![r].status = row.status]
  /\ Goto(r, "preflight")
  /\ UNCHANGED <<lvars, evars, row, seen, note, faults>>

\* Anything but 300 and 500 throws; the catch block writes sync_error only.
ClosePreflight(r) ==
  /\ At(r, "preflight")
  /\ IF rms \in {"300", "500"}
     THEN /\ seen' = [seen EXCEPT ![r] = rms]
          /\ Goto(r, "claim")
          /\ UNCHANGED <<cur, snap, note>>
     ELSE Leave(r)
  /\ UNCHANGED <<lvars, evars, row, faults>>

-----------------------------------------------------------------------------
(* The claim and what it decides, in runRakutenConfirmOperations and in     *)
(* closeRakutenOrders                                                      *)

ConfirmClaimed(r) ==
  /\ cur[r] = ConfirmKey
  /\ \/ Claimable(ConfirmKey) /\ Goto(r, "execute") /\ UNCHANGED <<cur, seen, snap, note>>
     \/ /\ ledger[ConfirmKey].status \in Applied
        /\ Goto(r, "store") /\ UNCHANGED <<cur, seen, snap, note>>
     \/ ledger[ConfirmKey].status \in Open /\ Leave(r)

CloseClaimed(r) ==
  LET s == ledger[CloseKey].status
      closed == seen[r] = "500"
      To(l, n) == /\ Goto(r, l) /\ note' = [note EXCEPT ![r] = n]
                  /\ UNCHANGED <<cur, seen, snap>>
  IN /\ cur[r] = CloseKey
     /\ \/ s \in Free /\ closed /\ To("finalize", "ALREADY_APPLIED")
        \/ s \in Free /\ ~closed /\ To("execute", "")
        \/ s \in Open /\ closed /\ To("resolve", s)
        \/ s \in Applied /\ closed /\ To("store", "")
        \/ s \notin Free /\ ~closed /\ Leave(r)

ClaimCall(r) ==
  /\ At(r, "claim")
  /\ Claim(cur[r], r)
  /\ ConfirmClaimed(r) \/ CloseClaimed(r)
  /\ UNCHANGED <<evars, row, faults>>

ClaimFails(r) ==
  /\ At(r, "claim")
  /\ Fault
  /\ Claim(cur[r], r) \/ UNCHANGED lvars
  /\ Leave(r)
  /\ UNCHANGED <<evars, row>>

\* The relay call: confirmOrder, or updateOrderShipping.
Execute(r) ==
  /\ At(r, "execute")
  /\ calls' = [calls EXCEPT ![cur[r]] = @ + 1]
  /\ pending' = pending \cup {<<r, cur[r]>>}
  /\ Goto(r, "wait")
  /\ UNCHANGED <<lvars, live, rms, confirmed, shipped, accepted, row, cur,
                 seen, snap, note, faults>>

\* An accepted confirmation is final at once; a close is read back first.
RelayOk(r) ==
  /\ At(r, "wait") /\ r \in accepted
  /\ accepted' = accepted \ {r}
  /\ note' = [note EXCEPT ![r] = "CONFIRMED"]
  /\ Goto(r, IF cur[r] = ConfirmKey THEN "finalize" ELSE "readback")
  /\ UNCHANGED <<lvars, live, rms, confirmed, shipped, pending, calls, row,
                 cur, seen, snap, faults>>

\* RMS refused the call, or (a fault) its response was lost.
RelayFails(r) ==
  /\ At(r, "wait")
  /\ \/ r \notin accepted /\ <<r, cur[r]>> \notin pending /\ UNCHANGED faults
     \/ (r \in accepted \/ <<r, cur[r]>> \in pending) /\ Fault
  /\ accepted' = accepted \ {r}
  /\ note' = [note EXCEPT ![r] = "UNKNOWN_RESULT"]
  /\ Goto(r, "readback")
  /\ UNCHANGED <<lvars, live, rms, confirmed, shipped, pending, calls, row,
                 cur, seen, snap>>

\* The exact-ID read.  Without a response only the progress can prove that
\* the call was applied: 500 for a close, 300 or 500 for a confirmation.
ProofAny(k) == {"100", "600", "300", "500"}                             \* mutant
Proof(k) == IF k = ConfirmKey THEN {"300", "500"} ELSE {"500"}

ReadBack(r) ==
  /\ At(r, "readback")
  /\ \E s \in {rms, ""} :
       /\ IF s = "" THEN Fault ELSE UNCHANGED faults
       /\ seen' = [seen EXCEPT ![r] = IF cur[r] = CloseKey THEN s ELSE ""]
       /\ note' = [note EXCEPT ![r] =
                     IF @ = "UNKNOWN_RESULT" /\ s \in Proof(cur[r])
                     THEN "ALREADY_APPLIED" ELSE @]
  /\ Goto(r, "finalize")
  /\ UNCHANGED <<lvars, evars, row, cur, snap>>

\* What is stored locally: a confirmation once the ledger says applied, a
\* close only on a progress of 500.
StorableOnceAccepted(r) == note[r] \in Applied                           \* mutant
Storable(r) == IF cur[r] = ConfirmKey THEN note[r] \in Applied ELSE seen[r] = "500"

FinalizeCall(r) ==
  /\ At(r, "finalize")
  /\ Finalize(cur[r], r, note[r])
  /\ IF Owns(cur[r], r) /\ Storable(r)
     THEN Goto(r, "store") /\ UNCHANGED <<cur, seen, snap, note>>
     ELSE Leave(r)
  /\ UNCHANGED <<evars, row, faults>>

FinalizeFails(r) ==
  /\ At(r, "finalize")
  /\ Fault
  /\ Finalize(cur[r], r, note[r]) \/ UNCHANGED lvars
  /\ Leave(r)
  /\ UNCHANGED <<evars, row>>

\* The preflight read 500 on a row that some earlier close left open.
ResolveCall(r) ==
  /\ At(r, "resolve")
  /\ Resolve(CloseKey, note[r], "APPLIED")
  /\ IF Resolvable(CloseKey, note[r])
     THEN Goto(r, "store") /\ UNCHANGED <<cur, seen, snap, note>>
     ELSE Leave(r)
  /\ UNCHANGED <<evars, row, faults>>

ResolveFails(r) ==
  /\ At(r, "resolve")
  /\ Fault
  /\ Resolve(CloseKey, note[r], "APPLIED") \/ UNCHANGED lvars
  /\ Leave(r)
  /\ UNCHANGED <<evars, row>>

\* markRakutenOrdersConfirmed: an unconditional patch that leaves the status
\* of the order to fresh RMS evidence.
StoreConfirmed(r) ==
  /\ At(r, "store") /\ cur[r] = ConfirmKey
  /\ row' = [row EXCEPT !.flag = FALSE, !.result = "confirmed"]
  /\ Leave(r)
  /\ UNCHANGED <<lvars, evars, faults>>

\* complete_rakuten_order_close: a compare-and-set on the status and on the
\* close not being completed yet.
StoreClosed(r) ==
  /\ At(r, "store") /\ cur[r] = CloseKey
  /\ row' = IF row.status = snap[r].status /\ ~row.closed
            THEN [row EXCEPT !.status = "COMPLETED", !.prog = "500", !.closed = TRUE]
            ELSE row
  /\ Leave(r)
  /\ UNCHANGED <<lvars, evars, faults>>

-----------------------------------------------------------------------------
(* reconcileRakutenLifecycle: rows first, then RMS, then compare-and-set *)

LifecycleList(r) ==
  /\ At(r, "idle") /\ row.status \in NonTerminal
  /\ snap' = [snap EXCEPT ![r] = View]
  /\ Goto(r, "fetch")
  /\ UNCHANGED <<lvars, evars, row, cur, seen, note, faults>>

\* Nothing is written when neither the status nor the evidence changes.
LifecycleFetch(r) ==
  /\ At(r, "fetch")
  /\ IF <<Target(snap[r].status, rms), rms>> = <<snap[r].status, snap[r].prog>>
     THEN Leave(r)
     ELSE /\ seen' = [seen EXCEPT ![r] = rms]
          /\ snap' = [snap EXCEPT ![r].prog = NoView.prog]
          /\ Goto(r, "cas")
          /\ UNCHANGED <<cur, note>>
  /\ UNCHANGED <<lvars, evars, row, faults>>

LifecycleCas(r) ==
  /\ At(r, "cas")
  /\ row' = IF row.status = snap[r].status
            THEN [row EXCEPT !.status = Target(@, seen[r]), !.prog = seen[r]]
            ELSE row
  /\ Leave(r)
  /\ UNCHANGED <<lvars, evars, faults>>

(* ingestRakutenOrders: RMS first, then rows, then an unconditional patch *)

IngestFetch(r) ==
  /\ At(r, "idle")
  /\ seen' = [seen EXCEPT ![r] = rms]
  /\ Goto(r, "list")
  /\ UNCHANGED <<lvars, evars, row, cur, snap, note, faults>>

\* order_status is in the patch when it changes and does not regress; the
\* evidence always is.  An equivalent row is skipped unless another field of
\* the order differs.
IngestList(r) ==
  LET target == Target(row.status, seen[r])
  IN /\ At(r, "list")
     /\ \/ target # row.status /\ Goto(r, "write") /\ UNCHANGED <<cur, seen, snap, note>>
        \/ target = row.status /\ Goto(r, "evidence") /\ UNCHANGED <<cur, seen, snap, note>>
        \/ <<target, seen[r]>> = <<row.status, row.prog>> /\ Leave(r)
     /\ UNCHANGED <<lvars, evars, row, faults>>

IngestWrite(r) ==
  /\ \/ At(r, "write")
        /\ row' = [row EXCEPT !.status = StatusOf[seen[r]], !.prog = seen[r]]
     \/ At(r, "evidence")
        /\ row' = [row EXCEPT !.prog = seen[r]]
  /\ Leave(r)
  /\ UNCHANGED <<lvars, evars, faults>>

-----------------------------------------------------------------------------
(* What may go wrong in any phase *)

\* A read, a patch or a compare-and-set fails and the phase gives the order up.
StepFails(r) ==
  /\ pc[r] \in {"mark", "reset", "preflight", "store", "fetch", "cas", "list", "write", "evidence"}
  /\ Fault
  /\ Leave(r)
  /\ UNCHANGED <<lvars, evars, row>>

\* The process dies; a call it already made stays with RMS.
Crash(r) ==
  /\ ~At(r, "idle")
  /\ Fault
  /\ accepted' = accepted \ {r}
  /\ Leave(r)
  /\ UNCHANGED <<lvars, live, rms, confirmed, shipped, pending, calls, row>>

-----------------------------------------------------------------------------
(* RMS, the buyer and the seller console *)

\* confirmOrder turns a new order into one that waits for payment or for
\* shipping; updateOrderShipping records the shipment of one that waits for it.
Accepts(k) == IF k = ConfirmKey THEN rms \in Confirmable ELSE rms = "300"

Process(r, k) ==
  /\ <<r, k>> \in pending
  /\ pending' = pending \ {<<r, k>>}
  /\ IF Accepts(k)
     THEN /\ \/ k = ConfirmKey /\ rms = "100" /\ rms' \in {"600", "300"}
             \/ (k = CloseKey \/ rms = "600") /\ UNCHANGED rms
          /\ confirmed' = (confirmed \/ k = ConfirmKey)
          /\ shipped' = (shipped \/ k = CloseKey)
          /\ accepted' = IF At(r, "wait") /\ cur[r] = k THEN accepted \cup {r}
                         ELSE accepted
     ELSE UNCHANGED <<rms, confirmed, shipped, accepted>>
  /\ UNCHANGED <<lvars, live, calls, row, rvars, faults>>

CallLost(r, k) ==
  /\ <<r, k>> \in pending
  /\ Fault
  /\ pending' = pending \ {<<r, k>>}
  /\ UNCHANGED <<lvars, live, rms, confirmed, shipped, accepted, calls, row, rvars>>

\* Payment, cancellation, confirmation or shipping outside this system, and
\* the passage from shipped to 500.
RmsMoves ==
  /\ \E p \in Progress :
       /\ <<rms, p>> \in Moves
       /\ rms' = p
       /\ confirmed' = (confirmed \/ p = "300")
       /\ shipped' = (shipped \/ p = "500")
  /\ UNCHANGED <<lvars, live, pending, accepted, calls, row, rvars, faults>>

-----------------------------------------------------------------------------
(* Operators: a portal request, or a shell on the ledger *)

\* handlePortalConfirm reads the row, then patches it unconditionally.
PortalReads(r) ==
  /\ At(r, "idle") /\ row.prog \in Confirmable /\ row.status \in DOMAIN PortalNext
  /\ snap' = [snap EXCEPT ![r].status = row.status]
  /\ Goto(r, "request")
  /\ UNCHANGED <<lvars, evars, row, cur, seen, note, faults>>

PortalPatches(r) ==
  /\ At(r, "request")
  /\ row' = [row EXCEPT !.status = PortalNext[snap[r].status], !.result = "requested"]
  /\ Leave(r)
  /\ UNCHANGED <<lvars, evars, faults>>

\* scripts/resolve-external-operation.mjs, with evidence from the RMS console
\* that may be stale when the compare-and-set runs.
OperatorReads(r, k, applied) ==
  /\ At(r, "idle") /\ ledger[k].status \in Open
  /\ cur' = [cur EXCEPT ![r] = k]
  /\ note' = [note EXCEPT ![r] = ledger[k].status]
  /\ \/ applied /\ Goto(r, "applied")
     \/ /\ ~applied
        /\ released[k] < MaxReleases[k]
        /\ Goto(r, "notApplied")
  /\ UNCHANGED <<lvars, evars, row, seen, snap, faults>>

OperatorResolves(r) ==
  /\ \/ At(r, "applied") /\ Resolve(cur[r], note[r], "APPLIED")
     \/ At(r, "notApplied") /\ Resolve(cur[r], note[r], "NOT_APPLIED")
  /\ Leave(r)
  /\ UNCHANGED <<evars, row, faults>>

-----------------------------------------------------------------------------
Start(r) ==
  \/ ConfirmFind(r) \/ CloseFind(r) \/ LifecycleList(r) \/ IngestFetch(r)
  \/ PortalReads(r)
  \/ OperatorReads(r, ConfirmKey, confirmed) \/ OperatorReads(r, CloseKey, shipped)

Continue(r) ==
  \/ ResetStuck(r) \/ MarkInProgress(r) \/ ClosePreflight(r)
  \/ ClaimCall(r) \/ Execute(r) \/ RelayOk(r) \/ RelayFails(r) \/ ReadBack(r)
  \/ FinalizeCall(r) \/ ResolveCall(r) \/ StoreConfirmed(r) \/ StoreClosed(r)
  \/ LifecycleFetch(r) \/ IngestList(r) \/ IngestWrite(r)
  \/ PortalPatches(r) \/ OperatorResolves(r)

Failure(r) ==
  \/ ClaimFails(r) \/ FinalizeFails(r) \/ ResolveFails(r) \/ StepFails(r)
  \/ \E k \in Key : CallLost(r, k)

Outside == RmsMoves \/ \E r \in Run, k \in {ConfirmKey, CloseKey} : Process(r, k)

Next ==
  \/ \E r \in Run : Start(r) \/ Continue(r) \/ LifecycleCas(r) \/ Failure(r) \/ Crash(r)
  \/ Outside

Spec == Init /\ [][Next]_vars

-----------------------------------------------------------------------------
(* Properties *)

\* A ledger row that says applied is true at RMS, for a confirmation proved by
\* a later read and for a close reconciled by another invocation alike
\* (runRakutenConfirmOperations, closeRakutenOrders, both resolvers).
AppliedMeansAccepted ==
  /\ ledger[ConfirmKey].status \in Applied => confirmed
  /\ ledger[CloseKey].status \in Applied => shipped

\* A terminal local status is what RMS shows, and rms_close_completed_at is
\* set only on an order RMS shows as 500 whose close the ledger accounts for:
\* no request, stale patch, accepted call or resolution completes or cancels
\* the row ahead of RMS, so a row that disagrees with a finished order is
\* still one lifecycle reconciliation reads (ingestRakutenOrders,
\* reconcile_rakuten_order_status, closeRakutenOrders).
CompletionProven ==
  /\ row.closed => rms = "500" /\ ledger[CloseKey].status \in Applied
  /\ row.status \in {"COMPLETED", "CANCELED"} => row.status = StatusOf[rms]
=============================================================================
