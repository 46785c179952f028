---------------------------- MODULE MercariClose ----------------------------
(***************************************************************************)
(* Closing shipped Mercari orders: invocations of                          *)
(* scripts/close_all_shipped_orders.mjs, each walking its candidates and   *)
(* calling runMercariCloseOperation for one order at a time, against the   *)
(* ledger, the marketplace and the local sales rows.                       *)
(*                                                                         *)
(* Invocations overlap (timer, relay, canary, operator shell), crash, lose *)
(* responses and act on what they read earlier.  An operator resolves      *)
(* ledger rows with evidence read before the write.                        *)
(***************************************************************************)
EXTENDS OperationLedger

CONSTANTS MaxFaults,    \* bound: crashes, failed reads, lost responses
          MaxReleases   \* bound: NOT_APPLIED resolutions per key

ASSUME BoundsAssumption == MaxFaults \in Nat /\ MaxReleases \in Nat

VARIABLES
  market,     \* status of the order transaction at the marketplace
  pending,    \* close calls the marketplace has not yet processed
  accepted,   \* runs whose current close call the marketplace carried out
  calls,      \* calls[k]: close calls made so far
  shopClose,  \* sales_orders.shop_close_status
  pc,         \* where each invocation is
  todo,       \* candidates it has not handled yet
  cur,        \* the order it is handling
  seen,       \* the marketplace status it last read
  note,       \* the status it is about to write, or expects in the ledger
  failed,     \* execute() threw
  op,         \* the operator's pending resolution
  faults      \* faults so far

rvars == <<pc, todo, cur, seen, note, failed>>
mvars == <<market, pending, accepted, calls>>
vars == <<lvars, mvars, shopClose, rvars, op, faults>>

MarketStatus == {"WAITING_FOR_SHIPPING", "COMPLETING", "COMPLETED", "CANCELED"}
Note == {"", "Submitted", "Failed", "Completed", "Not Applicable"}
PC == {"idle", "next", "claim", "resolve", "execute", "wait", "readback",
       "finalize", "complete", "patch"}

NoOp == [on |-> FALSE]
Resolution == [on : {TRUE}, key : Key, expected : Open,
               outcome : {"APPLIED", "NOT_APPLIED"}]

TypeOK ==
  /\ LedgerTypeOK
  /\ market \in [Key -> MarketStatus]
  /\ pending \subseteq Run \X Key
  /\ accepted \subseteq Run
  /\ calls \in [Key -> Nat]
  /\ shopClose \in [Key -> Note]
  /\ pc \in [Run -> PC]
  /\ todo \in [Run -> SUBSET Key]
  /\ cur \in [Run -> Key]
  /\ seen \in [Run -> MarketStatus \cup {""}]
  /\ note \in [Run -> Note \cup Status]
  /\ failed \in [Run -> BOOLEAN]
  /\ op \in Resolution \cup {NoOp}
  /\ faults \in 0..MaxFaults

Init ==
  /\ LedgerInit
  /\ market = [k \in Key |-> "WAITING_FOR_SHIPPING"]
  /\ pending = {}
  /\ accepted = {}
  /\ calls = [k \in Key |-> 0]
  /\ shopClose = [k \in Key |-> ""]
  /\ pc = [r \in Run |-> "idle"]
  /\ todo = [r \in Run |-> {}]
  /\ cur \in [Run -> Key]
  /\ seen = [r \in Run |-> ""]
  /\ note = [r \in Run |-> ""]
  /\ failed = [r \in Run |-> FALSE]
  /\ op = NoOp
  /\ faults = 0

Fault == faults < MaxFaults /\ faults' = faults + 1

At(r, l) == pc[r] = l
Goto(r, l) == pc' = [pc EXCEPT ![r] = l]

\* The variables of one iteration of the loop go out of scope.
Leave(r, l) == /\ Goto(r, l)
               /\ seen' = [seen EXCEPT ![r] = ""]
               /\ note' = [note EXCEPT ![r] = ""]
               /\ failed' = [failed EXCEPT ![r] = FALSE]

-----------------------------------------------------------------------------
(* The invocation *)

\* The sales rows are read once; excludeTerminalSalesCandidates drops orders
\* whose local close is already final.
Start(r) ==
  /\ At(r, "idle")
  /\ todo' = [todo EXCEPT ![r] =
                {k \in Key : shopClose[k] \notin {"Completed", "Not Applicable"}}]
  /\ Goto(r, "next")
  /\ UNCHANGED <<lvars, mvars, shopClose, cur, seen, note, failed, op, faults>>

Finish(r) ==
  /\ At(r, "next") /\ todo[r] = {}
  /\ Goto(r, "idle")
  /\ UNCHANGED <<lvars, mvars, shopClose, todo, cur, seen, note, failed, op, faults>>

\* findOrderTransaction, and what its status decides before the ledger is
\* asked: a canceled order is final locally, a COMPLETING one is only noted.
Preflight(r, k) ==
  /\ At(r, "next") /\ k \in todo[r]
  /\ todo' = [todo EXCEPT ![r] = @ \ {k}]
  /\ cur' = [cur EXCEPT ![r] = k]
  /\ seen' = [seen EXCEPT ![r] = market[k]]
  /\ \/ /\ market[k] \in {"WAITING_FOR_SHIPPING", "COMPLETED"}
        /\ Goto(r, "claim")
        /\ UNCHANGED note
     \/ /\ market[k] = "COMPLETING"
        /\ Goto(r, "patch")
        /\ note' = [note EXCEPT ![r] = "Submitted"]
     \/ /\ market[k] = "CANCELED"
        /\ Goto(r, "patch")
        /\ note' = [note EXCEPT ![r] = "Not Applicable"]
  /\ UNCHANGED <<lvars, mvars, shopClose, failed, op, faults>>

\* The read throws, finds no order, or the order has nothing to ship.
PreflightFails(r, k) ==
  /\ At(r, "next") /\ k \in todo[r]
  /\ Fault
  /\ todo' = [todo EXCEPT ![r] = @ \ {k}]
  /\ UNCHANGED <<lvars, mvars, shopClose, pc, cur, seen, note, failed, op>>

\* Where a successful claim call leads, by what the preflight read said.
ClaimSeenCompletedNoResolve(r) ==                                       \* mutant
  /\ seen[r] = "COMPLETED"
  /\ IF Claimable(cur[r])
     THEN note' = [note EXCEPT ![r] = "ALREADY_APPLIED"] /\ Goto(r, "finalize")
     ELSE note' = [note EXCEPT ![r] = "Failed"] /\ Goto(r, "patch")

ClaimSeenCompleted(r) ==
  /\ seen[r] = "COMPLETED"
  /\ \/ /\ Claimable(cur[r])
        /\ note' = [note EXCEPT ![r] = "ALREADY_APPLIED"]
        /\ Goto(r, "finalize")
     \/ /\ ledger[cur[r]].status \in Open
        /\ note' = [note EXCEPT ![r] = ledger[cur[r]].status]
        /\ Goto(r, "resolve")
     \/ /\ ledger[cur[r]].status \in Applied
        /\ UNCHANGED note
        /\ Goto(r, "complete")

ClaimSeenWaitingTrustsLedger(r) ==                                      \* mutant
  /\ seen[r] = "WAITING_FOR_SHIPPING"
  /\ UNCHANGED note
  /\ IF Claimable(cur[r]) THEN Goto(r, "execute")
     ELSE ledger[cur[r]].status \in Applied /\ Goto(r, "complete")

ClaimSeenWaiting(r) ==
  /\ seen[r] = "WAITING_FOR_SHIPPING"
  /\ \/ /\ Claimable(cur[r])
        /\ UNCHANGED note
        /\ Goto(r, "execute")
     \/ /\ ~Claimable(cur[r])
        /\ note' = [note EXCEPT ![r] = IF ledger[cur[r]].status \in Applied
                                       THEN "Submitted" ELSE "Failed"]
        /\ Goto(r, "patch")

ClaimCall(r) ==
  /\ At(r, "claim")
  /\ Claim(cur[r], r)
  /\ ClaimSeenCompleted(r) \/ ClaimSeenWaiting(r)
  /\ UNCHANGED <<mvars, shopClose, todo, cur, seen, failed, op, faults>>

\* A throw inside runMercariCloseOperation is caught there: the order is
\* reported as operation_failed_closed, which the script stores as Failed.
FailClosed(r) == /\ Goto(r, "patch")
                 /\ note' = [note EXCEPT ![r] = "Failed"]

\* The claim call fails before or after the database committed it.
ClaimFails(r) ==
  /\ At(r, "claim")
  /\ Fault
  /\ Claim(cur[r], r) \/ UNCHANGED lvars
  /\ FailClosed(r)
  /\ UNCHANGED <<mvars, shopClose, todo, cur, seen, failed, op>>

\* execute(): the create-shipping, tracking and complete mutations.
Execute(r) ==
  /\ At(r, "execute")
  /\ calls' = [calls EXCEPT ![cur[r]] = @ + 1]
  /\ pending' = pending \cup {<<r, cur[r]>>}
  /\ Goto(r, "wait")
  /\ UNCHANGED <<lvars, market, accepted, shopClose, todo, cur, seen, note,
                 failed, op, faults>>

ExecuteReturns(r) ==
  /\ At(r, "wait") /\ r \in accepted
  /\ accepted' = accepted \ {r}
  /\ failed' = [failed EXCEPT ![r] = FALSE]
  /\ Goto(r, "readback")
  /\ UNCHANGED <<lvars, market, pending, calls, shopClose, todo, cur, seen,
                 note, op, faults>>

ExecuteThrowsUnnoticed(r) ==                                            \* mutant
  /\ At(r, "wait") /\ r \notin accepted
  /\ failed' = [failed EXCEPT ![r] = FALSE]
  /\ Goto(r, "readback")
  /\ UNCHANGED <<lvars, mvars, shopClose, todo, cur, seen, note, op, faults>>

\* It throws because the marketplace refused the call, or (a fault) because
\* the response was lost while the call is pending or already carried out.
ExecuteThrows(r) ==
  /\ At(r, "wait")
  /\ \/ r \notin accepted /\ <<r, cur[r]>> \notin pending /\ UNCHANGED faults
     \/ (r \in accepted \/ <<r, cur[r]>> \in pending) /\ Fault
  /\ accepted' = accepted \ {r}
  /\ failed' = [failed EXCEPT ![r] = TRUE]
  /\ Goto(r, "readback")
  /\ UNCHANGED <<lvars, market, pending, calls, shopClose, todo, cur, seen,
                 note, op>>

\* readStatus(), and the terminal status that both outcomes decide.
ReadBack(r) ==
  /\ At(r, "readback")
  /\ \E s \in {market[cur[r]], ""} :
       /\ IF s = "" THEN Fault ELSE UNCHANGED faults
       /\ seen' = [seen EXCEPT ![r] = s]
       /\ note' = [note EXCEPT ![r] =
                     IF ~failed[r] THEN "CONFIRMED"
                     ELSE IF s = "COMPLETED" THEN "ALREADY_APPLIED"
                     ELSE "UNKNOWN_RESULT"]
  /\ Goto(r, "finalize")
  /\ UNCHANGED <<lvars, mvars, shopClose, todo, cur, failed, op>>

FinalizeCall(r) ==
  /\ At(r, "finalize")
  /\ Finalize(cur[r], r, note[r])
  /\ \/ /\ Owns(cur[r], r) /\ seen[r] = "COMPLETED"
        /\ Goto(r, "complete")
        /\ UNCHANGED note
     \/ /\ Owns(cur[r], r) /\ seen[r] # "COMPLETED"
        /\ Goto(r, "patch")
        /\ note' = [note EXCEPT ![r] =
                      IF note[r] = "CONFIRMED" THEN "Submitted" ELSE "Failed"]
     \/ ~Owns(cur[r], r) /\ FailClosed(r)
  /\ UNCHANGED <<mvars, shopClose, todo, cur, seen, failed, op, faults>>

FinalizeFails(r) ==
  /\ At(r, "finalize")
  /\ Fault
  /\ Finalize(cur[r], r, note[r]) \/ UNCHANGED lvars
  /\ FailClosed(r)
  /\ UNCHANGED <<mvars, shopClose, todo, cur, seen, failed, op>>

\* The preflight read COMPLETED on a row some earlier invocation left open.
ResolveCall(r) ==
  /\ At(r, "resolve")
  /\ Resolve(cur[r], note[r], "APPLIED")
  /\ IF Resolvable(cur[r], note[r]) THEN Goto(r, "complete") /\ UNCHANGED note
                                    ELSE FailClosed(r)
  /\ UNCHANGED <<mvars, shopClose, todo, cur, seen, failed, op, faults>>

ResolveFails(r) ==
  /\ At(r, "resolve")
  /\ Fault
  /\ Resolve(cur[r], note[r], "APPLIED") \/ UNCHANGED lvars
  /\ FailClosed(r)
  /\ UNCHANGED <<mvars, shopClose, todo, cur, seen, failed, op>>

\* completeMercariClose: one transaction over every line of the order.
Complete(r) ==
  /\ At(r, "complete")
  /\ shopClose' = [shopClose EXCEPT ![cur[r]] = "Completed"]
  /\ Leave(r, "next")
  /\ UNCHANGED <<lvars, mvars, todo, cur, op, faults>>

\* patchSalesRowsCloseOutcome: an unconditional update of the local row, which
\* also clears shop_close_completed_at.
Patch(r) ==
  /\ At(r, "patch")
  /\ shopClose' = [shopClose EXCEPT ![cur[r]] = note[r]]
  /\ Leave(r, "next")
  /\ UNCHANGED <<lvars, mvars, todo, cur, op, faults>>

\* The local write fails; the script moves on to its next candidate.
WriteFails(r) ==
  /\ pc[r] \in {"complete", "patch"}
  /\ Fault
  /\ Leave(r, "next")
  /\ UNCHANGED <<lvars, mvars, shopClose, todo, cur, op>>

\* The process dies; a call it already made stays with the marketplace.
Crash(r) ==
  /\ ~At(r, "idle")
  /\ Fault
  /\ accepted' = accepted \ {r}
  /\ todo' = [todo EXCEPT ![r] = {}]
  /\ Leave(r, "idle")
  /\ UNCHANGED <<lvars, market, pending, calls, shopClose, cur, op>>

-----------------------------------------------------------------------------
(* The marketplace, and the seller or buyer acting on it directly *)

\* A pending close call takes effect on an order that waits for shipping and
\* is refused on any other; it may do so after its caller has given up.
Process(r, k) ==
  /\ <<r, k>> \in pending
  /\ pending' = pending \ {<<r, k>>}
  /\ IF market[k] = "WAITING_FOR_SHIPPING"
     THEN /\ market' = [market EXCEPT ![k] = "COMPLETING"]
          /\ accepted' = IF At(r, "wait") /\ cur[r] = k THEN accepted \cup {r}
                         ELSE accepted
     ELSE UNCHANGED <<market, accepted>>
  /\ UNCHANGED <<lvars, calls, shopClose, rvars, op, faults>>

\* The call never reached the marketplace.
CallLost(r, k) ==
  /\ <<r, k>> \in pending
  /\ Fault
  /\ pending' = pending \ {<<r, k>>}
  /\ UNCHANGED <<lvars, market, accepted, calls, shopClose, rvars, op>>

\* A COMPLETING order becomes COMPLETED; a waiting one may be canceled by the
\* buyer or shipped from the seller console.
MarketMoves(k) ==
  /\ \/ market[k] = "COMPLETING" /\ market' = [market EXCEPT ![k] = "COMPLETED"]
     \/ /\ market[k] = "WAITING_FOR_SHIPPING"
        /\ \E s \in {"CANCELED", "COMPLETING"} : market' = [market EXCEPT ![k] = s]
  /\ UNCHANGED <<lvars, pending, accepted, calls, shopClose, rvars, op, faults>>

-----------------------------------------------------------------------------
(* scripts/resolve-external-operation.mjs in an operator's hands *)

\* The operator reads the row and collects evidence from the marketplace.
Evidence(k) == IF market[k] \in {"COMPLETING", "COMPLETED"}
               THEN "APPLIED" ELSE "NOT_APPLIED"

OperatorReads(k) ==
  /\ op = NoOp
  /\ ledger[k].status \in Open
  /\ Evidence(k) = "NOT_APPLIED" => released[k] < MaxReleases
  /\ op' = [on |-> TRUE, key |-> k, expected |-> ledger[k].status,
            outcome |-> Evidence(k)]
  /\ UNCHANGED <<lvars, mvars, shopClose, rvars, faults>>

\* The compare-and-set runs later, on the status that was read.
OperatorResolves ==
  /\ op # NoOp
  /\ Resolve(op.key, op.expected, op.outcome)
  /\ op' = NoOp
  /\ UNCHANGED <<mvars, shopClose, rvars, faults>>

-----------------------------------------------------------------------------
Step(r) ==
  \/ Start(r) \/ Finish(r) \/ \E k \in Key : Preflight(r, k)
  \/ ClaimCall(r) \/ Execute(r) \/ ExecuteReturns(r) \/ ExecuteThrows(r)
  \/ ReadBack(r) \/ FinalizeCall(r) \/ ResolveCall(r) \/ Complete(r) \/ Patch(r)

Failure(r) ==
  \/ \E k \in Key : PreflightFails(r, k) \/ CallLost(r, k)
  \/ ClaimFails(r) \/ FinalizeFails(r) \/ ResolveFails(r) \/ WriteFails(r)
  \/ Crash(r)

Outside ==
  \/ \E r \in Run, k \in Key : Process(r, k)
  \/ \E k \in Key : MarketMoves(k) \/ OperatorReads(k)
  \/ OperatorResolves

Next == (\E r \in Run : Step(r) \/ Failure(r)) \/ Outside

\* The timer starts the script again and again, a live invocation is
\* scheduled, and the marketplace answers; it need not move an order except
\* out of COMPLETING, and no operator ever has to act.
Fairness ==
  /\ \A r \in Run : WF_vars(Step(r))
  /\ \A r \in Run, k \in Key : WF_vars(Process(r, k))

Spec == Init /\ [][Next]_vars /\ Fairness

-----------------------------------------------------------------------------
(* Properties *)

Bit(b) == IF b THEN 1 ELSE 0

\* Every close call made so far is covered: by the row while it is reserved
\* or settled, or by a recorded NOT_APPLIED resolution.  Crashes, lost
\* responses, stale reads and overlapping invocations never lead to a blind
\* second submission (claim, then execute, in runMercariCloseOperation).
EveryCallAccounted ==
  \A k \in Key : calls[k] <= released[k] + Bit(ledger[k].status \notin Free)

\* A row the ledger calls applied belongs to an order the marketplace really
\* completed or is completing, whoever wrote the status and however stale the
\* evidence (terminalStatus in runMercariCloseOperation, and both resolvers).
AppliedMeansAccepted ==
  \A k \in Key : ledger[k].status \in Applied => market[k] \in {"COMPLETING", "COMPLETED"}

\* The local order is completed only if the marketplace completed it: an
\* accepted call is not enough.
LocalCompletionProven ==
  \A k \in Key : shopClose[k] = "Completed" => market[k] = "COMPLETED"

\* Local rows catch up for good: once the marketplace has completed the order
\* and faults are over, some invocation stores Completed and no stale one
\* keeps overwriting it.
CompletionReachesLocal ==
  \A k \in Key : (market[k] = "COMPLETED") ~> [](shopClose[k] = "Completed")

\* The invocations holding a won claim they have not acted on yet.
Holders(k) == {r \in Run : pc[r] = "execute" /\ cur[r] = k}

Permits == INSTANCE SubmissionPermits
  WITH permits <- [k \in Key |-> Cardinality(Holders(k)) + Bit(ledger[k].status \in Free)],
       granted <- released,
       calls <- calls

\* Refinement: the ledger protocol grants calls exactly as SubmissionPermits
\* does, one at first and one per operator release.
ImplementsPermits == Permits!PSpec
=============================================================================
