---------------------------- MODULE GigaOutbound ----------------------------
(***************************************************************************)
(* The Rakuten order on its way to the supplier: the projector that keeps  *)
(* the shipment row in step with the sales row, and runSync, which pushes  *)
(* the shipment row to GIGA.  Both run beside everything in RakutenOrder;  *)
(* lifecycle reconciliation invalidates the shipment row of a canceled     *)
(* order.                                                                  *)
(*                                                                         *)
(* The operation key of a push contains the hash of its payload, so a      *)
(* payload is represented by its key.                                      *)
(***************************************************************************)
EXTENDS RakutenOrder

CONSTANTS GigaKey,      \* operation keys of giga_create_order, one per payload
          Edits         \* pairs of payloads an edit of the order may lead between

ASSUME GigaKeyAssumption ==
  /\ GigaKey \subseteq Key \ {ConfirmKey, CloseKey}
  /\ "" \notin GigaKey
ASSUME EditsAssumption == Edits \subseteq GigaKey \X GigaKey

VARIABLES
  source,     \* the payload the sales row stands for now
  proj,       \* the shipment row: its giga_sync_status and its payload
  giga,       \* payload of the order GIGA holds, or "" for none
  dup         \* runs whose create call GIGA answered with "already exists"

gvars == <<source, proj, giga, dup>>
allvars == <<vars, gvars>>

Pushed == {"SYNCED", "ALREADY_EXISTS"}
SyncStatus == Pushed \cup {"PENDING", "ATTEMPTED", "ERROR", "INVALID"}

GTypeOK ==
  /\ TypeOK
  /\ source \in GigaKey
  /\ proj \in [status : SyncStatus, payload : GigaKey]
  /\ giga \in GigaKey \cup {""}
  /\ dup \subseteq Run

GInit ==
  /\ Init
  /\ source \in GigaKey \ {e[2] : e \in Edits}
  /\ proj = [status |-> "PENDING", payload |-> source]
  /\ giga = ""
  /\ dup = {}

PushLive == live \cap GigaKey # {}
ShipmentReady == row.prog = "300"
Ready == row.status = "RMS_CONFIRMED" /\ ShipmentReady

-----------------------------------------------------------------------------
(* The shipment row *)

\* An operator or the next ingest changes what the row stands for.
Edit ==
  /\ PushLive
  /\ \E p \in GigaKey : <<source, p>> \in Edits /\ source' = p
  /\ UNCHANGED <<vars, proj, giga, dup>>

\* projectRakutenSalesOrdersToShipment reads both rows, then patches the
\* payload; the sync status is not its to write.
ProjectorReads(r) ==
  /\ At(r, "idle") /\ PushLive /\ Ready /\ proj.payload # source
  /\ cur' = [cur EXCEPT ![r] = source]
  /\ Goto(r, "project")
  /\ UNCHANGED <<lvars, evars, row, seen, snap, note, faults, gvars>>

Project(r) ==
  /\ At(r, "project")
  /\ proj' = [proj EXCEPT !.payload = cur[r]]
  /\ Leave(r)
  /\ UNCHANGED <<lvars, evars, row, faults, source, giga, dup>>

\* The part of reconcile_rakuten_order_status that follows a cancellation.
InvalidateOnCancel(r) ==
  proj' = IF /\ row.status = snap[r].status /\ StatusOf[seen[r]] = "CANCELED"
             /\ proj.status \notin Pushed
          THEN [proj EXCEPT !.status = "INVALID"] ELSE proj

-----------------------------------------------------------------------------
(* runSync, one order *)

\* collectScopedGroups.  A row being attempted is taken again after 30
\* minutes, which a stalled run may exceed, and a run scoped to the order takes
\* the row whatever its sync status, so a pushed one as well.
Collect(r) ==
  /\ At(r, "idle") /\ PushLive /\ Ready
  /\ cur' = [cur EXCEPT ![r] = proj.payload]
  /\ Goto(r, "recheck")
  /\ UNCHANGED <<lvars, evars, row, seen, snap, note, faults, gvars>>

\* recheckOutboundEligibility looks at the progress only; after it the payload
\* is validated, and one that is incomplete is marked and not claimed.
Recheck(r) ==
  /\ At(r, "recheck")
  /\ \/ /\ ShipmentReady
        /\ Goto(r, "gclaim") \/ Goto(r, "invalid")
        /\ UNCHANGED <<cur, seen, snap, note>>
     \/ ~ShipmentReady /\ Leave(r)
  /\ UNCHANGED <<lvars, evars, row, faults, gvars>>

PushClaimedResendsFailed(r) ==                                          \* mutant
  IF ledger[cur[r]].status \in Applied THEN Goto(r, "exists") /\ UNCHANGED <<cur, seen, snap, note>>
  ELSE Goto(r, "attempt") /\ UNCHANGED <<cur, seen, snap, note>>

PushClaimed(r) ==
  \/ Claimable(cur[r]) /\ Goto(r, "attempt") /\ UNCHANGED <<cur, seen, snap, note>>
  \/ ledger[cur[r]].status \in Applied /\ Goto(r, "exists") /\ UNCHANGED <<cur, seen, snap, note>>
  \/ ledger[cur[r]].status \in Open /\ Leave(r)

PushClaim(r) ==
  /\ At(r, "gclaim")
  /\ Claim(cur[r], r)
  /\ PushClaimed(r)
  /\ UNCHANGED <<evars, row, faults, gvars>>

PushClaimFails(r) ==
  /\ At(r, "gclaim")
  /\ Fault
  /\ Claim(cur[r], r) \/ UNCHANGED lvars
  /\ Leave(r)
  /\ UNCHANGED <<evars, row, gvars>>

Attempt(r) ==
  /\ At(r, "attempt")
  /\ proj' = [proj EXCEPT !.status = "ATTEMPTED"]
  /\ Goto(r, "create")
  /\ UNCHANGED <<lvars, evars, row, cur, seen, snap, note, faults, source, giga, dup>>

\* Without the attempt on record the order is not sent.
AttemptFails(r) ==
  /\ At(r, "attempt")
  /\ Fault
  /\ UNCHANGED proj \/ proj' = [proj EXCEPT !.status = "ATTEMPTED"]
  /\ note' = [note EXCEPT ![r] = "DEFINITIVE_FAILURE"]
  /\ Goto(r, "gabort")
  /\ UNCHANGED <<lvars, evars, row, cur, seen, snap, source, giga, dup>>

AbortPush(r) ==
  /\ At(r, "gabort")
  /\ Finalize(cur[r], r, note[r])
  /\ Leave(r)
  /\ UNCHANGED <<evars, row, faults, gvars>>

\* giga.createOrder, which is never retried.
Create(r) ==
  /\ At(r, "create")
  /\ calls' = [calls EXCEPT ![cur[r]] = @ + 1]
  /\ pending' = pending \cup {<<r, cur[r]>>}
  /\ Goto(r, "response")
  /\ UNCHANGED <<lvars, live, rms, confirmed, shipped, accepted, row, cur, seen,
                 snap, note, faults, gvars>>

Answered(r) == <<r, cur[r]>> \notin pending

\* What the response says of the push.
Outcome(r) == IF r \in accepted THEN "CONFIRMED"
              ELSE IF r \in dup THEN "ALREADY_APPLIED" ELSE "DEFINITIVE_FAILURE"

\* 5xx, transport and parse errors are taken to say nothing; everything else
\* that throws is definitive, a body lost on its way among it, although GIGA
\* may have accepted by then.
Response(r) ==
  /\ At(r, "response")
  /\ \/ Answered(r) /\ note' = [note EXCEPT ![r] = Outcome(r)] /\ UNCHANGED faults
     \/ Fault /\ note' = [note EXCEPT ![r] = "UNKNOWN_RESULT"]
     \/ Fault /\ Answered(r) /\ note' = [note EXCEPT ![r] = "DEFINITIVE_FAILURE"]
  /\ accepted' = accepted \ {r}
  /\ dup' = dup \ {r}
  /\ Goto(r, "gfinalize")
  /\ UNCHANGED <<lvars, live, rms, confirmed, shipped, pending, calls, row, cur,
                 seen, snap, source, proj, giga>>

\* The branch an outcome takes once it is in the ledger.
AfterFinalize == [s \in Terminal |-> CASE s = "CONFIRMED" -> "synced"
                                       [] s = "ALREADY_APPLIED" -> "exists"
                                       [] OTHER -> "error"]

PushFinalize(r) ==
  /\ At(r, "gfinalize")
  /\ Finalize(cur[r], r, note[r])
  /\ \/ Owns(cur[r], r) /\ Goto(r, AfterFinalize[note[r]]) /\ UNCHANGED <<cur, seen, snap, note>>
     \/ ~Owns(cur[r], r) /\ note[r] # "ALREADY_APPLIED" /\ Goto(r, "error")
        /\ UNCHANGED <<cur, seen, snap, note>>
     \/ ~Owns(cur[r], r) /\ note[r] = "ALREADY_APPLIED" /\ Leave(r)
  /\ UNCHANGED <<evars, row, faults, gvars>>

\* A finalize that throws after GIGA accepted is caught, and an unknown result
\* is recorded instead; one that throws on "already exists" ends the phase.
PushFinalizeFails(r) ==
  /\ At(r, "gfinalize")
  /\ Fault
  /\ Finalize(cur[r], r, note[r]) \/ UNCHANGED lvars
  /\ \/ /\ note[r] = "CONFIRMED"
        /\ note' = [note EXCEPT ![r] = "UNKNOWN_RESULT"]
        /\ UNCHANGED <<pc, cur, seen, snap>>
     \/ note[r] = "ALREADY_APPLIED" /\ Leave(r)
     \/ /\ note[r] \in {"UNKNOWN_RESULT", "DEFINITIVE_FAILURE"}
        /\ Goto(r, "error") /\ UNCHANGED <<cur, seen, snap, note>>
  /\ UNCHANGED <<evars, row, gvars>>

Label == [l \in {"synced", "exists", "error", "invalid"} |->
            CASE l = "synced" -> "SYNCED" [] l = "exists" -> "ALREADY_EXISTS"
              [] l = "error" -> "ERROR" [] l = "invalid" -> "INVALID"]

\* updateRowsProgress: an unconditional patch of the shipment row.
Progressed(r) ==
  /\ pc[r] \in DOMAIN Label
  /\ proj' = [proj EXCEPT !.status = Label[pc[r]]]
  /\ Leave(r)
  /\ UNCHANGED <<lvars, evars, row, faults, source, giga, dup>>

\* A patch that throws on the way to SYNCED lands in the catch block too.
ProgressFails(r) ==
  /\ pc[r] \in DOMAIN Label \cup {"recheck", "gabort", "project"}
  /\ Fault
  /\ IF At(r, "synced") THEN Goto(r, "error") /\ UNCHANGED <<cur, seen, snap, note>>
                        ELSE Leave(r)
  /\ UNCHANGED <<lvars, evars, row, gvars>>

-----------------------------------------------------------------------------
(* GIGA keeps one order per order number, whatever the payload *)

GigaProcess(r, k) ==
  /\ <<r, k>> \in pending
  /\ pending' = pending \ {<<r, k>>}
  /\ LET waits == At(r, "response") /\ cur[r] = k
     IN \/ /\ giga = ""
           /\ giga' = k
           /\ accepted' = IF waits THEN accepted \cup {r} ELSE accepted
           /\ UNCHANGED dup
        \/ /\ giga # ""
           /\ dup' = IF waits THEN dup \cup {r} ELSE dup
           /\ UNCHANGED <<giga, accepted>>
        \/ giga = "" /\ UNCHANGED <<giga, dup, accepted>>
  /\ UNCHANGED <<lvars, live, rms, confirmed, shipped, calls, row, rvars, faults,
                 source, proj>>

-----------------------------------------------------------------------------
Push(r) ==
  \/ ProjectorReads(r) \/ Project(r)
  \/ Collect(r) \/ Recheck(r) \/ PushClaim(r) \/ Attempt(r) \/ AbortPush(r)
  \/ Create(r) \/ Response(r) \/ PushFinalize(r) \/ Progressed(r)
  \/ PushClaimFails(r) \/ AttemptFails(r) \/ PushFinalizeFails(r) \/ ProgressFails(r)

\* A crash of the caller also loses GIGA's answer.
GNext ==
  \/ \E r \in Run :
       \/ Push(r)
       \/ LifecycleCas(r) /\ InvalidateOnCancel(r) /\ UNCHANGED <<source, giga, dup>>
       \/ Crash(r) /\ dup' = dup \ {r} /\ UNCHANGED <<source, proj, giga>>
       \/ (Start(r) \/ Continue(r) \/ Failure(r)) /\ UNCHANGED gvars
       \/ \E k \in GigaKey :
            \/ GigaProcess(r, k)
            \/ OperatorReads(r, k, giga # "") /\ UNCHANGED gvars
  \/ Edit
  \/ Outside /\ UNCHANGED gvars

GSpec == GInit /\ [][GNext]_allvars

-----------------------------------------------------------------------------
(* Properties *)

\* A shipment row counts as pushed, and a push as applied in the ledger, only
\* if GIGA holds the order: no lost response, second run or operator marks an
\* order shipped that the supplier never received (runSync).
PushedMeansOrdered ==
  /\ proj.status \in Pushed => giga # ""
  /\ \A k \in GigaKey : ledger[k].status \in Applied => giga # ""

\* What is recorded as confirmed, shipped or pushed happened at RMS or GIGA.
AppliedIsTrue == AppliedMeansAccepted /\ PushedMeansOrdered

Bit(b) == IF b THEN 1 ELSE 0

\* Every confirmation, push and close call made so far is covered, by its row
\* while that is reserved or settled or by a recorded NOT_APPLIED resolution:
\* no crash, stuck flag, stale read or second invocation submits one again.
\* For a push that is per payload, so a changed payload may be sent again.
EveryCallAccounted ==
  \A k \in Key : calls[k] <= released[k] + Bit(ledger[k].status \notin Free)
=============================================================================
