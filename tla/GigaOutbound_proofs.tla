------------------------- MODULE GigaOutbound_proofs -------------------------
(***************************************************************************)
(* Proofs about GigaOutbound, and through it RakutenOrder, for every set   *)
(* of operation keys and payloads, every finite set of invocations, every  *)
(* way RMS may move an order and every bound on faults and releases:       *)
(*   - type correctness;                                                   *)
(*   - AppliedIsTrue and CompletionProven, from an invariant that says     *)
(*     what each remembered progress, outcome and answer still implies;    *)
(*   - refinement of SubmissionPermits, and from it EveryCallAccounted.    *)
(***************************************************************************)
EXTENDS GigaOutbound, TLAPS, FiniteSetTheorems

Handled == {ConfirmKey, CloseKey} \cup GigaKey
OrderPC == {"preflight", "claim", "execute", "wait", "readback", "finalize", "resolve", "store"}

\* What type correctness rests on: each phase works on a key of its own kind,
\* and on a progress, a status or an outcome it has really read.
RunType(r) ==
  /\ pc[r] \in PC
  /\ cur[r] \in Handled
  /\ seen[r] \in Progress \cup {""}
  /\ snap[r] \in RowView
  /\ note[r] \in Status \cup {""}
  /\ pc[r] \in {"cas", "list", "write", "evidence"} => seen[r] \in Progress
  /\ pc[r] = "request" => snap[r].status \in DOMAIN PortalNext
  /\ pc[r] \in GigaPC => cur[r] \in GigaKey
  /\ pc[r] \in OrderPC => cur[r] \in {ConfirmKey, CloseKey}
  /\ pc[r] = "gfinalize" => note[r] \in Terminal
  /\ pc[r] \in {"idle", "mark"} => cur[r] = ConfirmKey

TypeInv == GTypeOK /\ \A r \in Run : RunType(r)

\* An invocation acts; Outside, GigaProcess and Edit move no invocation.
Mine(r) == \/ Start(r) \/ Continue(r) \/ Failure(r) \/ LifecycleCas(r) \/ Crash(r)
           \/ Push(r) \/ \E k \in GigaKey : OperatorReads(r, k, giga # "")

Moved(r) == /\ pc' = [pc EXCEPT ![r] = pc'[r]]
            /\ cur' = [cur EXCEPT ![r] = cur'[r]]
            /\ seen' = [seen EXCEPT ![r] = seen'[r]]
            /\ snap' = [snap EXCEPT ![r] = snap'[r]]
            /\ note' = [note EXCEPT ![r] = note'[r]]

LEMMA ProgressFacts ==
  /\ Progress = {"100", "600", "700", "300", "500", "900"}
  /\ StatusOf["100"] = "PENDING_CONFIRMATION"
  /\ StatusOf["600"] = "WAITING_FOR_PAYMENT"
  /\ StatusOf["700"] = "CONFIRMED"
  /\ StatusOf["300"] = "RMS_CONFIRMED"
  /\ StatusOf["500"] = "COMPLETED"
  /\ StatusOf["900"] = "CANCELED"
  /\ OrderStatus = {"PENDING_CONFIRMATION", "WAITING_FOR_PAYMENT", "CONFIRMED",
                    "RMS_CONFIRMED", "COMPLETED", "CANCELED"}
<1>1. Progress = {"100", "600", "700", "300", "500", "900"}
  BY DEF Progress, StatusOf
<1>2. /\ StatusOf["100"] = "PENDING_CONFIRMATION"
      /\ StatusOf["600"] = "WAITING_FOR_PAYMENT"
      /\ StatusOf["700"] = "CONFIRMED"
      /\ StatusOf["300"] = "RMS_CONFIRMED"
      /\ StatusOf["500"] = "COMPLETED"
      /\ StatusOf["900"] = "CANCELED"
  BY DEF StatusOf
<1>3. OrderStatus = {StatusOf["100"], StatusOf["600"], StatusOf["700"],
                     StatusOf["300"], StatusOf["500"], StatusOf["900"]}
  BY <1>1 DEF OrderStatus
<1> QED BY <1>1, <1>2, <1>3

LEMMA PortalFacts ==
  /\ DOMAIN PortalNext = {"WAITING_FOR_PAYMENT", "PENDING_CONFIRMATION"}
  /\ PortalNext["WAITING_FOR_PAYMENT"] = "WAITING_FOR_PAYMENT"
  /\ PortalNext["PENDING_CONFIRMATION"] = "CONFIRMED"
BY DEF PortalNext

LEMMA KeyFacts ==
  /\ Handled \subseteq Key /\ ConfirmKey \in Handled /\ CloseKey \in Handled
  /\ GigaKey \subseteq Handled /\ ConfirmKey \notin GigaKey /\ CloseKey \notin GigaKey
  /\ ConfirmKey # CloseKey /\ "" \notin GigaKey
BY KeyAssumption, GigaKeyAssumption DEF Handled

\* Leave puts an invocation back where it started.
LEMMA Left ==
  ASSUME TypeInv, NEW r \in Run, Leave(r)
  PROVE  /\ Moved(r)
         /\ pc'[r] = "idle" /\ cur'[r] = ConfirmKey /\ seen'[r] = ""
         /\ snap'[r] = NoView /\ note'[r] = ""
BY DEF Leave, Goto, Moved, TypeInv, GTypeOK, TypeOK

LEMMA Stayed ==
  ASSUME TypeInv, NEW r \in Run, UNCHANGED rvars
  PROVE  Moved(r)
BY DEF Moved, rvars, TypeInv, GTypeOK, TypeOK

\* Goto moves one invocation; what is UNCHANGED stays with it.
LEMMA Went ==
  ASSUME TypeInv, NEW r \in Run, NEW l, Goto(r, l)
  PROVE  pc'[r] = l
BY DEF Goto, TypeInv, GTypeOK, TypeOK

LEMMA MovedStart == ASSUME TypeInv, NEW r \in Run, Start(r) PROVE Moved(r)
<1> USE DEF Moved, Goto, TypeInv, GTypeOK, TypeOK
<1>1. CASE ConfirmFind(r)
  BY <1>1 DEF ConfirmFind
<1>2. CASE CloseFind(r)
  BY <1>2 DEF CloseFind
<1>3. CASE LifecycleList(r)
  BY <1>3 DEF LifecycleList
<1>4. CASE IngestFetch(r)
  BY <1>4 DEF IngestFetch
<1>5. CASE PortalReads(r)
  BY <1>5 DEF PortalReads
<1>6. CASE OperatorReads(r, ConfirmKey, confirmed) \/ OperatorReads(r, CloseKey, shipped)
  BY <1>6 DEF OperatorReads
<1> QED BY <1>1, <1>2, <1>3, <1>4, <1>5, <1>6 DEF Start

LEMMA MovedContinue == ASSUME TypeInv, NEW r \in Run, Continue(r) PROVE Moved(r)
<1> USE DEF Moved, Goto, TypeInv, GTypeOK, TypeOK
<1>0. Leave(r) => Moved(r)
  BY Left
<1>1. CASE ResetStuck(r) \/ StoreConfirmed(r) \/ StoreClosed(r) \/ IngestWrite(r)
           \/ PortalPatches(r) \/ OperatorResolves(r)
  BY <1>0, <1>1 DEF ResetStuck, StoreConfirmed, StoreClosed, IngestWrite,
                    PortalPatches, OperatorResolves
<1>2. CASE MarkInProgress(r)
  BY <1>2 DEF MarkInProgress
<1>3. CASE ClosePreflight(r)
  BY <1>0, <1>3 DEF ClosePreflight
<1>4. CASE ClaimCall(r)
  <2>1. ConfirmClaimed(r) \/ CloseClaimed(r)
    BY <1>4 DEF ClaimCall
  <2>2. CASE ConfirmClaimed(r)
    BY <1>0, <2>2 DEF ConfirmClaimed
  <2>3. CASE CloseClaimed(r)
    BY <1>0, <2>3 DEF CloseClaimed
  <2> QED BY <2>1, <2>2, <2>3
<1>5. CASE Execute(r) \/ RelayOk(r)
  BY <1>5 DEF Execute, RelayOk
<1>6. CASE RelayFails(r)
  BY <1>6 DEF RelayFails
<1>7. CASE ReadBack(r)
  BY <1>7 DEF ReadBack
<1>8. CASE FinalizeCall(r) \/ ResolveCall(r)
  BY <1>0, <1>8 DEF FinalizeCall, ResolveCall
<1>9. CASE LifecycleFetch(r)
  BY <1>0, <1>9 DEF LifecycleFetch
<1>10. CASE IngestList(r)
  BY <1>0, <1>10 DEF IngestList
<1> QED BY <1>1, <1>2, <1>3, <1>4, <1>5, <1>6, <1>7, <1>8, <1>9, <1>10 DEF Continue

LEMMA MovedPush == ASSUME TypeInv, NEW r \in Run, Push(r) PROVE Moved(r)
<1> USE DEF Moved, Goto, TypeInv, GTypeOK, TypeOK
<1>0. Leave(r) => Moved(r)
  BY Left
<1>w. ASSUME NEW l, NEW k, Goto(r, l), cur' = [cur EXCEPT ![r] = k],
             UNCHANGED <<seen, snap, note>>
      PROVE  Moved(r)
  BY <1>w
<1>1. CASE ProjectorReads(r) \/ Collect(r)
  <2> HIDE DEF Moved, Goto, TypeInv, GTypeOK, TypeOK
  <2> QED BY <1>w, <1>1 DEF ProjectorReads, Collect
<1>2. CASE Project(r) \/ AbortPush(r) \/ Progressed(r) \/ PushClaimFails(r)
  BY <1>0, <1>2 DEF Project, AbortPush, Progressed, PushClaimFails
<1>3. CASE Recheck(r)
  BY <1>0, <1>3 DEF Recheck
<1>4. CASE PushClaim(r)
  BY <1>0, <1>4 DEF PushClaim, PushClaimed
<1>5. CASE Attempt(r) \/ Create(r)
  BY <1>5 DEF Attempt, Create
<1>6. CASE AttemptFails(r)
  BY <1>6 DEF AttemptFails
<1>7. CASE Response(r)
  BY <1>7 DEF Response
<1>8. CASE PushFinalize(r)
  BY <1>0, <1>8 DEF PushFinalize
<1>9. CASE PushFinalizeFails(r)
  BY <1>0, <1>9 DEF PushFinalizeFails
<1>10. CASE ProgressFails(r)
  BY <1>0, <1>10 DEF ProgressFails
<1> QED BY <1>1, <1>2, <1>3, <1>4, <1>5, <1>6, <1>7, <1>8, <1>9, <1>10 DEF Push

\* A step of one invocation leaves the others where they were.
LEMMA MineMoved == ASSUME TypeInv, NEW r \in Run, Mine(r) PROVE Moved(r)
<1>0. Leave(r) => Moved(r)
  BY Left
<1>1. CASE Failure(r)
  <2>1. CASE \E k \in Key : CallLost(r, k)
    BY <2>1, Stayed DEF CallLost
  <2> QED BY <1>0, <1>1, <2>1 DEF Failure, ClaimFails, FinalizeFails, ResolveFails, StepFails
<1>2. CASE LifecycleCas(r) \/ Crash(r)
  BY <1>0, <1>2 DEF LifecycleCas, Crash
<1>3. ASSUME NEW k \in GigaKey, OperatorReads(r, k, giga # "") PROVE Moved(r)
  BY <1>3 DEF OperatorReads, Moved, Goto, TypeInv, GTypeOK, TypeOK
<1> QED BY <1>1, <1>2, <1>3, MovedStart, MovedContinue, MovedPush DEF Mine

-----------------------------------------------------------------------------
(* Type correctness *)

LEMMA LeftTyped ==
  ASSUME TypeInv, NEW r \in Run, Leave(r)
  PROVE  RunType(r)'
<1>1. NoView \in RowView
  BY ProgressFacts DEF NoView, RowView
<1> QED BY <1>1, Left, KeyFacts DEF RunType, PC, GigaPC, OrderPC

LEMMA TypedReads ==
  ASSUME TypeInv, NEW r \in Run, NEW k \in Handled, NEW b, OperatorReads(r, k, b)
  PROVE  RunType(r)'
<1>1. /\ pc'[r] \in {"applied", "notApplied"} /\ cur'[r] = k
      /\ note'[r] = ledger[k].status /\ UNCHANGED <<seen[r], snap[r]>>
  BY DEF OperatorReads, Goto, TypeInv, GTypeOK, TypeOK
<1>2. ledger[k].status \in Status
  BY KeyFacts DEF LedgerTypeOK, Row, TypeInv, GTypeOK, TypeOK
<1> QED BY <1>1, <1>2 DEF TypeInv, RunType, PC, GigaPC, OrderPC

LEMMA TypedStart == ASSUME TypeInv, NEW r \in Run, Start(r) PROVE RunType(r)'
<1> USE KeyFacts DEF RunType, Goto, TypeInv, GTypeOK, TypeOK, PC, GigaPC, OrderPC
<1>r. row.status \in OrderStatus /\ row.prog \in Progress
  BY DEF SalesRow
<1>s. snap[r] \in RowView => snap[r].status \in OrderStatus /\ snap[r].prog \in Progress
  BY DEF RowView
<1>1. CASE ConfirmFind(r)
  BY <1>1 DEF ConfirmFind, At
<1>2. CASE CloseFind(r)
  <2>1. snap'[r] \in RowView
    BY <1>2, <1>r DEF CloseFind, RowView
  <2> QED BY <1>2, <2>1 DEF CloseFind
<1>3. CASE LifecycleList(r)
  BY <1>3, <1>r DEF LifecycleList, View, RowView
<1>4. CASE IngestFetch(r)
  BY <1>4 DEF IngestFetch
<1>5. CASE PortalReads(r)
  <2>1. snap'[r] \in RowView /\ snap'[r].status = row.status
    BY <1>5, <1>r DEF PortalReads, RowView
  <2> QED BY <1>5, <2>1 DEF PortalReads
<1>6. CASE OperatorReads(r, ConfirmKey, confirmed) \/ OperatorReads(r, CloseKey, shipped)
  <2>1. PICK k \in {ConfirmKey, CloseKey}, b \in BOOLEAN : OperatorReads(r, k, b)
    BY <1>6
  <2> QED BY <2>1, TypedReads
<1> QED BY <1>1, <1>2, <1>3, <1>4, <1>5, <1>6 DEF Start

LEMMA TypedContinue == ASSUME TypeInv, NEW r \in Run, Continue(r) PROVE RunType(r)'
<1>0. Leave(r) => RunType(r)'
  BY LeftTyped
<1>t. RunType(r)
  BY DEF TypeInv
<1>g. ASSUME NEW l, Goto(r, l), UNCHANGED <<cur, seen, snap, note>>
      PROVE  pc'[r] = l /\ UNCHANGED <<cur[r], seen[r], snap[r], note[r]>>
  BY <1>g, Went
<1>n. ASSUME NEW l, NEW n, Goto(r, l), note' = [note EXCEPT ![r] = n],
             UNCHANGED <<cur, seen, snap>>
      PROVE  pc'[r] = l /\ note'[r] = n /\ UNCHANGED <<cur[r], seen[r], snap[r]>>
  BY <1>n, Went DEF TypeInv, GTypeOK, TypeOK
<1> USE KeyFacts DEF RunType, PC, GigaPC, OrderPC
<1>1. CASE ResetStuck(r) \/ StoreConfirmed(r) \/ StoreClosed(r) \/ IngestWrite(r)
           \/ PortalPatches(r) \/ OperatorResolves(r)
  BY <1>0, <1>1 DEF ResetStuck, StoreConfirmed, StoreClosed, IngestWrite,
                    PortalPatches, OperatorResolves
<1>2. CASE MarkInProgress(r)
  <2>1. pc[r] = "mark" /\ cur[r] = ConfirmKey
    BY <1>2, <1>t DEF MarkInProgress, At
  <2>2. pc'[r] = "claim" /\ UNCHANGED <<cur[r], seen[r], snap[r], note[r]>>
    BY <1>2, <1>g DEF MarkInProgress
  <2> QED BY <1>t, <2>1, <2>2
<1>3. CASE ClosePreflight(r)
  <2>1. CASE Leave(r)
    BY <1>0, <2>1
  <2>2. CASE /\ seen' = [seen EXCEPT ![r] = rms]
             /\ Goto(r, "claim")
             /\ UNCHANGED <<cur, snap, note>>
    <3>1. /\ pc'[r] = "claim" /\ seen'[r] = rms /\ rms \in Progress
          /\ UNCHANGED <<cur[r], snap[r], note[r]>>
      BY <2>2, Went DEF TypeInv, GTypeOK, TypeOK
    <3> QED BY <1>3, <1>t, <3>1 DEF ClosePreflight, At
  <2> QED BY <1>3, <2>1, <2>2 DEF ClosePreflight
<1>4. CASE ClaimCall(r)
  <2>1. ConfirmClaimed(r) \/ CloseClaimed(r)
    BY <1>4 DEF ClaimCall
  <2>2. pc[r] = "claim"
    BY <1>4 DEF ClaimCall, At
  <2>3. CASE Leave(r)
    BY <1>0, <2>3
  <2>4. ASSUME NEW l \in {"execute", "store"}, Goto(r, l),
               UNCHANGED <<cur, seen, snap, note>>
        PROVE  RunType(r)'
    <3>1. pc'[r] = l /\ UNCHANGED <<cur[r], seen[r], snap[r], note[r]>>
      BY <1>g, <2>4
    <3> QED BY <1>t, <2>2, <3>1
  <2>5. ASSUME NEW l \in {"execute", "store", "finalize", "resolve"},
               NEW n \in Status \cup {""}, Goto(r, l),
               note' = [note EXCEPT ![r] = n], UNCHANGED <<cur, seen, snap>>
        PROVE  RunType(r)'
    <3>1. pc'[r] = l /\ note'[r] = n /\ UNCHANGED <<cur[r], seen[r], snap[r]>>
      BY <1>n, <2>5
    <3>2. pc'[r] = "resolve" => cur[r] \in {ConfirmKey, CloseKey}
      BY <1>t, <2>2
    <3> QED BY <1>t, <2>2, <3>1, <3>2
  <2>6. CASE ConfirmClaimed(r)
    BY <2>3, <2>4, <2>6 DEF ConfirmClaimed
  <2>7. CASE CloseClaimed(r)
    <3>1. ledger[CloseKey].status \in Status
      BY DEF LedgerTypeOK, Row, TypeInv, GTypeOK, TypeOK
    <3>2. "ALREADY_APPLIED" \in Status
      BY DEF Status, Applied
    <3> QED BY <2>3, <2>5, <2>7, <3>1, <3>2 DEF CloseClaimed
  <2> QED BY <2>1, <2>6, <2>7
<1>5. CASE Execute(r)
  <2>1. Goto(r, "wait") /\ pc[r] = "execute" /\ UNCHANGED <<cur, seen, snap, note>>
    BY <1>5 DEF Execute, At
  <2>2. pc'[r] = "wait" /\ UNCHANGED <<cur[r], seen[r], snap[r], note[r]>>
    BY <1>g, <2>1
  <2> QED BY <1>t, <2>1, <2>2
<1>6. CASE RelayOk(r) \/ RelayFails(r)
  <2>1. PICK l \in {"finalize", "readback"}, n \in {"CONFIRMED", "UNKNOWN_RESULT"} :
           /\ Goto(r, l) /\ note' = [note EXCEPT ![r] = n]
           /\ pc[r] = "wait" /\ UNCHANGED <<cur, seen, snap>>
    BY <1>6 DEF RelayOk, RelayFails, At
  <2>2. n \in Status
    BY DEF Status, Applied, Open
  <2> QED BY <1>n, <1>t, <2>1, <2>2
<1>7. CASE ReadBack(r)
  <2>1. PICK s \in {rms, ""} :
           /\ seen' = [seen EXCEPT ![r] = IF cur[r] = CloseKey THEN s ELSE ""]
           /\ note' = [note EXCEPT ![r] =
                         IF @ = "UNKNOWN_RESULT" /\ s \in Proof(cur[r])
                         THEN "ALREADY_APPLIED" ELSE @]
    BY <1>7 DEF ReadBack
  <2>2. /\ seen'[r] \in {s, ""} /\ s \in Progress \cup {""}
        /\ note'[r] \in {note[r], "ALREADY_APPLIED"}
    BY <2>1 DEF TypeInv, GTypeOK, TypeOK
  <2>3. /\ pc[r] = "readback" /\ pc'[r] = "finalize"
        /\ UNCHANGED <<cur[r], snap[r]>>
    BY <1>7, Went DEF ReadBack, At
  <2>4. "ALREADY_APPLIED" \in Status
    BY DEF Status, Applied
  <2> QED BY <1>t, <2>2, <2>3, <2>4
<1>8. CASE FinalizeCall(r) \/ ResolveCall(r)
  <2>1. CASE Leave(r)
    BY <1>0, <2>1
  <2>2. CASE Goto(r, "store") /\ UNCHANGED <<cur, seen, snap, note>>
    <3>1. pc[r] \in {"finalize", "resolve"}
      BY <1>8 DEF FinalizeCall, ResolveCall, At
    <3>2. pc'[r] = "store" /\ UNCHANGED <<cur[r], seen[r], snap[r], note[r]>>
      BY <1>g, <2>2
    <3> QED BY <1>t, <3>1, <3>2
  <2> QED BY <1>8, <2>1, <2>2 DEF FinalizeCall, ResolveCall
<1>10. CASE LifecycleFetch(r)
  <2>1. CASE Leave(r)
    BY <1>0, <2>1
  <2>2. CASE /\ seen' = [seen EXCEPT ![r] = rms]
             /\ snap' = [snap EXCEPT ![r].prog = NoView.prog]
             /\ Goto(r, "cas")
             /\ UNCHANGED <<cur, note>>
    <3>1. /\ pc'[r] = "cas" /\ seen'[r] = rms /\ rms \in Progress
          /\ UNCHANGED <<cur[r], note[r]>>
      BY <2>2, Went DEF TypeInv, GTypeOK, TypeOK
    <3>2. snap'[r] = [snap[r] EXCEPT !.prog = NoView.prog] /\ snap[r] \in RowView
      BY <2>2 DEF TypeInv, GTypeOK, TypeOK
    <3>3. snap'[r] \in RowView
      BY <3>2, ProgressFacts DEF NoView, RowView
    <3> QED BY <1>t, <3>1, <3>3
  <2> QED BY <1>10, <2>1, <2>2 DEF LifecycleFetch
<1>11. CASE IngestList(r)
  <2>1. CASE Leave(r)
    BY <1>0, <2>1
  <2>2. ASSUME NEW l \in {"write", "evidence"}, Goto(r, l),
               UNCHANGED <<cur, seen, snap, note>>
        PROVE  RunType(r)'
    <3>1. pc[r] = "list"
      BY <1>11 DEF IngestList, At
    <3>2. pc'[r] = l /\ UNCHANGED <<cur[r], seen[r], snap[r], note[r]>>
      BY <1>g, <2>2
    <3> QED BY <1>t, <3>1, <3>2
  <2> QED BY <1>11, <2>1, <2>2 DEF IngestList
<1> QED BY <1>1, <1>2, <1>3, <1>4, <1>5, <1>6, <1>7, <1>8, <1>10, <1>11 DEF Continue

LEMMA TypedPush == ASSUME TypeInv, NEW r \in Run, Push(r) PROVE RunType(r)'
<1>p. ASSUME ProjectorReads(r) \/ Collect(r)
      PROVE  /\ pc'[r] \in {"project", "recheck"} /\ cur'[r] \in GigaKey
             /\ seen' = seen /\ snap' = snap /\ note' = note
  BY <1>p DEF ProjectorReads, Collect, Goto, TypeInv, GTypeOK, TypeOK
<1> USE KeyFacts DEF RunType, Goto, TypeInv, GTypeOK, TypeOK, PC, GigaPC, OrderPC
<1>0. Leave(r) => RunType(r)'
  BY LeftTyped
<1>1. CASE ProjectorReads(r) \/ Collect(r)
  BY <1>1, <1>p
<1>2. CASE Project(r) \/ AbortPush(r) \/ Progressed(r) \/ PushClaimFails(r)
  BY <1>0, <1>2 DEF Project, AbortPush, Progressed, PushClaimFails
<1>3. CASE Recheck(r)
  BY <1>0, <1>3 DEF Recheck, At
<1>4. CASE PushClaim(r)
  BY <1>0, <1>4 DEF PushClaim, PushClaimed, At
<1>5. CASE Attempt(r) \/ Create(r)
  <2>1. /\ pc[r] \in {"attempt", "create"} /\ pc'[r] \in {"create", "response"}
        /\ UNCHANGED <<cur, seen, snap, note>>
    BY <1>5, Went DEF Attempt, Create, At
  <2> HIDE DEF TypeInv, GTypeOK, TypeOK, Goto
  <2>2. RunType(r)
    BY DEF TypeInv
  <2> QED BY <2>1, <2>2
<1>6. CASE AttemptFails(r)
  BY <1>6 DEF AttemptFails, At, Status, Open
<1>7. CASE Response(r)
  BY <1>7 DEF Response, At, Outcome, Status, Terminal, Applied, Open
<1>8. CASE PushFinalize(r)
  <2>1. At(r, "gfinalize") => AfterFinalize[note[r]] \in {"synced", "exists", "error"}
    BY DEF At, AfterFinalize
  <2> QED BY <1>0, <1>8, <2>1 DEF PushFinalize, At
<1>9. CASE PushFinalizeFails(r)
  BY <1>0, <1>9 DEF PushFinalizeFails, At, Status, Terminal, Open
<1>10. CASE ProgressFails(r)
  BY <1>0, <1>10 DEF ProgressFails, At
<1> QED BY <1>1, <1>2, <1>3, <1>4, <1>5, <1>6, <1>7, <1>8, <1>9, <1>10 DEF Push

LEMMA TypedMine == ASSUME TypeInv, NEW r \in Run, Mine(r) PROVE RunType(r)'
<1>0. Leave(r) => RunType(r)'
  BY LeftTyped
<1>1. CASE Failure(r)
  <2>1. CASE \E k \in Key : CallLost(r, k)
    BY <2>1 DEF CallLost, rvars, RunType, TypeInv
  <2> QED BY <1>0, <1>1, <2>1 DEF Failure, ClaimFails, FinalizeFails, ResolveFails, StepFails
<1>2. CASE LifecycleCas(r) \/ Crash(r)
  BY <1>0, <1>2 DEF LifecycleCas, Crash
<1>3. ASSUME NEW k \in GigaKey, OperatorReads(r, k, giga # "") PROVE RunType(r)'
  BY <1>3, KeyFacts, TypedReads
<1> QED BY <1>1, <1>2, <1>3, TypedStart, TypedContinue, TypedPush DEF Mine

LEMMA Others ==
  ASSUME TypeInv, NEW r \in Run, Moved(r), NEW q \in Run \ {r}
  PROVE  UNCHANGED <<pc[q], cur[q], seen[q], snap[q], note[q]>>
<1>1. /\ pc \in [Run -> PC] /\ cur \in [Run -> Key] /\ snap \in [Run -> RowView]
      /\ seen \in [Run -> Progress \cup {""}] /\ note \in [Run -> Status \cup {""}]
  BY DEF TypeInv, GTypeOK, TypeOK
<1>2. q \in Run /\ q # r
  OBVIOUS
<1> QED BY <1>1, <1>2 DEF Moved

LEMMA TypedRuns ==
  ASSUME TypeInv, NEW r \in Run, Mine(r), NEW q \in Run
  PROVE  RunType(q)'
<1>1. CASE q = r
  BY <1>1, TypedMine
<1>2. CASE q # r
  <2>1. UNCHANGED <<pc[q], cur[q], seen[q], snap[q], note[q]>>
    BY <1>2, MineMoved, Others
  <2> QED BY <2>1 DEF TypeInv, RunType
<1> QED BY <1>1, <1>2

\* The only ledger statements an invocation makes, and where it is then.
LEMMA LedgerStep ==
  ASSUME TypeInv, NEW r \in Run, Mine(r)
  PROVE  \/ UNCHANGED lvars
         \/ pc[r] \in {"claim", "gclaim"} /\ Claim(cur[r], r)
         \/ pc[r] \in {"finalize", "gfinalize", "gabort"} /\ Finalize(cur[r], r, note[r])
         \/ pc[r] = "resolve" /\ Resolve(CloseKey, note[r], "APPLIED")
         \/ pc[r] = "applied" /\ Resolve(cur[r], note[r], "APPLIED")
         \/ pc[r] = "notApplied" /\ Resolve(cur[r], note[r], "NOT_APPLIED")
<1> USE DEF At
<1>1. CASE Start(r) \/ (\E k \in GigaKey : OperatorReads(r, k, giga # ""))
  BY <1>1 DEF Start, ConfirmFind, CloseFind, LifecycleList, IngestFetch, PortalReads,
              OperatorReads
<1>2. CASE Continue(r)
  <2>1. CASE ClaimCall(r)
    BY <2>1 DEF ClaimCall
  <2>2. CASE FinalizeCall(r) \/ ResolveCall(r)
    BY <2>2 DEF FinalizeCall, ResolveCall
  <2>3. CASE OperatorResolves(r)
    BY <2>3 DEF OperatorResolves
  <2>4. CASE ResetStuck(r) \/ MarkInProgress(r) \/ ClosePreflight(r) \/ Execute(r)
             \/ RelayOk(r) \/ RelayFails(r) \/ ReadBack(r) \/ LifecycleFetch(r)
    BY <2>4 DEF ResetStuck, MarkInProgress, ClosePreflight, Execute, RelayOk,
                RelayFails, ReadBack, LifecycleFetch
  <2>5. CASE StoreConfirmed(r) \/ StoreClosed(r) \/ IngestList(r) \/ IngestWrite(r)
             \/ PortalPatches(r)
    BY <2>5 DEF StoreConfirmed, StoreClosed, IngestList, IngestWrite, PortalPatches
  <2> QED BY <1>2, <2>1, <2>2, <2>3, <2>4, <2>5 DEF Continue
<1>3. CASE Failure(r) \/ LifecycleCas(r) \/ Crash(r)
  BY <1>3 DEF Failure, ClaimFails, FinalizeFails, ResolveFails, StepFails, CallLost,
              LifecycleCas, Crash
<1>4. CASE Push(r)
  <2>1. CASE PushClaim(r) \/ PushClaimFails(r)
    BY <2>1 DEF PushClaim, PushClaimFails
  <2>2. CASE PushFinalize(r) \/ PushFinalizeFails(r) \/ AbortPush(r)
    BY <2>2 DEF PushFinalize, PushFinalizeFails, AbortPush
  <2>3. CASE ProjectorReads(r) \/ Project(r) \/ Collect(r) \/ Recheck(r) \/ Attempt(r)
             \/ Create(r) \/ Response(r) \/ Progressed(r) \/ AttemptFails(r)
             \/ ProgressFails(r)
    BY <2>3 DEF ProjectorReads, Project, Collect, Recheck, Attempt, Create, Response,
                Progressed, AttemptFails, ProgressFails
  <2> QED BY <1>4, <2>1, <2>2, <2>3 DEF Push
<1> QED BY <1>1, <1>2, <1>3, <1>4 DEF Mine

\* What an invocation cannot do: move the order at RMS.  Calls, calls under
\* way and answers it touches for itself only.
LEMMA EnvStep ==
  ASSUME TypeInv, NEW r \in Run, Mine(r)
  PROVE  /\ UNCHANGED <<live, rms, confirmed, shipped>>
         /\ \/ calls' = calls /\ pending' \subseteq pending
            \/ /\ pc[r] \in {"execute", "create"} /\ pc'[r] \in {"wait", "response"}
               /\ calls' = [calls EXCEPT ![cur[r]] = @ + 1]
               /\ pending' = pending \cup {<<r, cur[r]>>}
         /\ accepted' \in {accepted, accepted \ {r}}
         /\ Fault \/ UNCHANGED faults
<1> USE DEF At, evars
<1>1. CASE Start(r) \/ (\E k \in GigaKey : OperatorReads(r, k, giga # ""))
  BY <1>1 DEF Start, ConfirmFind, CloseFind, LifecycleList, IngestFetch, PortalReads,
              OperatorReads
<1>2. CASE Continue(r)
  <2>1. CASE ClaimCall(r) \/ FinalizeCall(r) \/ ResolveCall(r) \/ OperatorResolves(r)
    BY <2>1 DEF ClaimCall, FinalizeCall, ResolveCall, OperatorResolves
  <2>2. CASE Execute(r)
    <3>1. pc'[r] = "wait"
      BY <2>2, Went DEF Execute
    <3> QED BY <2>2, <3>1 DEF Execute
  <2>3. CASE ResetStuck(r) \/ MarkInProgress(r) \/ ClosePreflight(r) \/ LifecycleFetch(r)
    BY <2>3 DEF ResetStuck, MarkInProgress, ClosePreflight, LifecycleFetch
  <2>4. CASE RelayOk(r) \/ RelayFails(r) \/ ReadBack(r)
    BY <2>4 DEF RelayOk, RelayFails, ReadBack
  <2>5. CASE StoreConfirmed(r) \/ StoreClosed(r) \/ IngestList(r) \/ IngestWrite(r)
             \/ PortalPatches(r)
    BY <2>5 DEF StoreConfirmed, StoreClosed, IngestList, IngestWrite, PortalPatches
  <2> QED BY <1>2, <2>1, <2>2, <2>3, <2>4, <2>5 DEF Continue
<1>3. CASE Failure(r) \/ LifecycleCas(r) \/ Crash(r)
  BY <1>3 DEF Failure, ClaimFails, FinalizeFails, ResolveFails, StepFails, CallLost,
              LifecycleCas, Crash
<1>4. CASE Push(r)
  <2>1. CASE PushClaim(r) \/ PushClaimFails(r) \/ PushFinalize(r)
             \/ PushFinalizeFails(r) \/ AbortPush(r)
    BY <2>1 DEF PushClaim, PushClaimFails, PushFinalize, PushFinalizeFails, AbortPush
  <2>2. CASE Create(r)
    <3>1. pc'[r] = "response"
      BY <2>2, Went DEF Create
    <3> QED BY <2>2, <3>1 DEF Create
  <2>3. CASE ProjectorReads(r) \/ Project(r) \/ Collect(r) \/ Recheck(r) \/ Attempt(r)
             \/ Response(r) \/ Progressed(r) \/ AttemptFails(r) \/ ProgressFails(r)
    BY <2>3 DEF ProjectorReads, Project, Collect, Recheck, Attempt, Response,
                Progressed, AttemptFails, ProgressFails
  <2> QED BY <1>4, <2>1, <2>2, <2>3 DEF Push
<1> QED BY <1>1, <1>2, <1>3, <1>4 DEF Mine

\* What one invocation may write to the sales row.
RowStep(r) ==
  \/ row' = row
  \/ \E f \in BOOLEAN, s \in {row.result, "confirmed"} :
        row' = [row EXCEPT !.flag = f, !.result = s]
  \/ /\ pc[r] = "store" /\ cur[r] = CloseKey
     /\ row' = [row EXCEPT !.status = "COMPLETED", !.prog = "500", !.closed = TRUE]
  \/ /\ pc[r] \in {"cas", "write", "evidence"}
     /\ \E s \in {row.status, StatusOf[seen[r]]} :
          row' = [row EXCEPT !.status = s, !.prog = seen[r]]
  \/ /\ pc[r] = "request"
     /\ row' = [row EXCEPT !.status = PortalNext[snap[r].status], !.result = "requested"]

LEMMA RowMoves == ASSUME TypeInv, NEW r \in Run, Mine(r) PROVE RowStep(r)
<1> USE DEF RowStep, At
<1>0. row \in [status : OrderStatus, prog : Progress, flag : BOOLEAN,
               result : {"", "requested", "confirmed"}, closed : BOOLEAN]
  BY DEF TypeInv, GTypeOK, TypeOK, SalesRow
<1>1. CASE Start(r) \/ (\E k \in GigaKey : OperatorReads(r, k, giga # ""))
  BY <1>1 DEF Start, ConfirmFind, CloseFind, LifecycleList, IngestFetch, PortalReads,
              OperatorReads
<1>2. CASE Continue(r)
  <2>1. CASE ClaimCall(r) \/ FinalizeCall(r) \/ ResolveCall(r) \/ OperatorResolves(r)
             \/ Execute(r) \/ RelayOk(r) \/ RelayFails(r) \/ ReadBack(r)
             \/ ClosePreflight(r) \/ LifecycleFetch(r) \/ IngestList(r)
    BY <2>1 DEF ClaimCall, FinalizeCall, ResolveCall, OperatorResolves, Execute,
       RelayOk, RelayFails, ReadBack, ClosePreflight, LifecycleFetch, IngestList
  <2>2. CASE ResetStuck(r) \/ MarkInProgress(r)
    <3>1. PICK f \in BOOLEAN : row' = [row EXCEPT !.flag = f]
      BY <2>2 DEF ResetStuck, MarkInProgress
    <3>2. row' = [row EXCEPT !.flag = f, !.result = row.result]
      BY <1>0, <3>1
    <3> QED BY <3>2
  <2>3. CASE StoreConfirmed(r)
    BY <2>3 DEF StoreConfirmed
  <2>4. CASE StoreClosed(r)
    BY <2>4 DEF StoreClosed
  <2>5. CASE IngestWrite(r)
    <3>1. \/ pc[r] = "write"
             /\ row' = [row EXCEPT !.status = StatusOf[seen[r]], !.prog = seen[r]]
          \/ pc[r] = "evidence" /\ row' = [row EXCEPT !.prog = seen[r]]
      BY <2>5 DEF IngestWrite
    <3>2. [row EXCEPT !.prog = seen[r]] = [row EXCEPT !.status = row.status, !.prog = seen[r]]
      BY <1>0
    <3> QED BY <3>1, <3>2
  <2>6. CASE PortalPatches(r)
    BY <2>6 DEF PortalPatches
  <2> QED BY <1>2, <2>1, <2>2, <2>3, <2>4, <2>5, <2>6 DEF Continue
<1>3. CASE LifecycleCas(r)
  BY <1>3 DEF LifecycleCas, Target
<1>4. CASE Failure(r) \/ Crash(r)
  BY <1>4 DEF Failure, ClaimFails, FinalizeFails, ResolveFails, StepFails, CallLost, Crash
<1>5. CASE Push(r)
  BY <1>5 DEF Push, ProjectorReads, Project, Collect, Recheck, PushClaim, Attempt,
     AbortPush, Create, Response, PushFinalize, Progressed, PushClaimFails,
     AttemptFails, PushFinalizeFails, ProgressFails
<1> QED BY <1>1, <1>2, <1>3, <1>4, <1>5 DEF Mine

LEMMA RowTyped ==
  ASSUME TypeInv, NEW r \in Run, RowStep(r)
  PROVE  row' \in SalesRow
<1>0. row \in SalesRow /\ RunType(r)
  BY DEF TypeInv, GTypeOK, TypeOK
<1>1. ASSUME NEW s \in OrderStatus, NEW p \in Progress, NEW f \in BOOLEAN,
             NEW e \in {"", "requested", "confirmed"}
      PROVE  /\ [row EXCEPT !.flag = f, !.result = e] \in SalesRow
             /\ [row EXCEPT !.status = s, !.prog = p] \in SalesRow
             /\ [row EXCEPT !.status = s, !.result = e] \in SalesRow
             /\ [row EXCEPT !.status = s, !.prog = p, !.closed = TRUE] \in SalesRow
  BY <1>0, <1>1 DEF SalesRow
<1>2. row.status \in OrderStatus /\ row.result \in {"", "requested", "confirmed"}
  BY <1>0 DEF SalesRow
<1>f. TRUE \in BOOLEAN /\ "" \in {"", "requested", "confirmed"} /\ "500" \in Progress
  BY ProgressFacts
<1>3. CASE /\ pc[r] \in {"cas", "write", "evidence"}
           /\ \E s \in {row.status, StatusOf[seen[r]]} :
                row' = [row EXCEPT !.status = s, !.prog = seen[r]]
  <2>1. seen[r] \in Progress
    BY <1>0, <1>3 DEF RunType
  <2>2. StatusOf[seen[r]] \in OrderStatus
    BY <2>1 DEF OrderStatus
  <2>3. PICK s \in OrderStatus, p \in Progress : row' = [row EXCEPT !.status = s, !.prog = p]
    BY <1>2, <1>3, <2>1, <2>2
  <2> QED BY <1>1, <1>f, <2>3
<1>4. CASE /\ pc[r] = "request"
           /\ row' = [row EXCEPT !.status = PortalNext[snap[r].status], !.result = "requested"]
  <2>1. PortalNext[snap[r].status] \in OrderStatus
    BY <1>0, <1>4, PortalFacts, ProgressFacts DEF RunType
  <2>2. PICK s \in OrderStatus, e \in {"", "requested", "confirmed"} :
           row' = [row EXCEPT !.status = s, !.result = e]
    BY <1>4, <2>1
  <2> QED BY <1>1, <1>f, <2>2
<1>5. "COMPLETED" \in OrderStatus /\ "500" \in Progress
  BY ProgressFacts
<1>6. CASE \E f \in BOOLEAN, s \in {row.result, "confirmed"} :
              row' = [row EXCEPT !.flag = f, !.result = s]
  BY <1>1, <1>2, <1>5, <1>6
<1>7. CASE row' = [row EXCEPT !.status = "COMPLETED", !.prog = "500", !.closed = TRUE]
  BY <1>1, <1>5, <1>7
<1> QED BY <1>0, <1>3, <1>4, <1>6, <1>7 DEF RowStep

LEMMA LedgerTyped ==
  ASSUME LedgerTypeOK, NEW k \in Key, NEW r \in Run \cup {NoRun}
  PROVE  /\ Claim(k, r) => LedgerTypeOK'
         /\ \A s : Finalize(k, r, s) => LedgerTypeOK'
         /\ \A e, o : Resolve(k, e, o) => LedgerTypeOK'
         /\ UNCHANGED lvars => LedgerTypeOK'
<1>1. ASSUME Claim(k, r) PROVE LedgerTypeOK'
  BY <1>1 DEF Claim, LedgerTypeOK, Row, Status, Open
<1>2. ASSUME NEW s, Finalize(k, r, s) PROVE LedgerTypeOK'
  BY <1>2 DEF Finalize, LedgerTypeOK, Row, Status, Terminal, Open
<1>3. ASSUME NEW e, NEW o, Resolve(k, e, o) PROVE LedgerTypeOK'
  BY <1>3 DEF Resolve, LedgerTypeOK, lvars, Row, Status, Applied, Free
<1>4. ASSUME UNCHANGED lvars PROVE LedgerTypeOK'
  BY <1>4 DEF LedgerTypeOK, lvars
<1> QED BY <1>1, <1>2, <1>3, <1>4

LEMMA FaultTyped ==
  ASSUME faults \in 0..MaxFaults, Fault \/ UNCHANGED faults
  PROVE  faults' \in 0..MaxFaults
BY BoundsAssumption DEF Fault

\* The variables of RakutenOrder, after a step of one invocation.
LEMMA TypedOrder == ASSUME TypeInv, NEW r \in Run, Mine(r) PROVE TypeOK'
<1>t. TypeOK /\ RunType(r)
  BY DEF TypeInv, GTypeOK
<1>1. LedgerTypeOK'
  BY <1>t, LedgerStep, LedgerTyped, KeyFacts DEF TypeOK
<1>2. row' \in SalesRow
  BY RowMoves, RowTyped
<1>3. /\ live' \subseteq Key /\ rms' \in Progress
      /\ confirmed' \in BOOLEAN /\ shipped' \in BOOLEAN
  BY <1>t, EnvStep DEF TypeOK
<1>4. pending' \subseteq Run \X Key /\ accepted' \subseteq Run /\ calls' \in [Key -> Nat]
  <2>1. cur[r] \in Key
    BY <1>t DEF TypeOK
  <2>2. pending \subseteq Run \X Key /\ accepted \subseteq Run /\ calls \in [Key -> Nat]
    BY <1>t DEF TypeOK
  <2> DEFINE k == cur[r]
  <2>3. /\ \/ calls' = calls /\ pending' \subseteq pending
           \/ calls' = [calls EXCEPT ![k] = @ + 1] /\ pending' = pending \cup {<<r, k>>}
        /\ accepted' \in {accepted, accepted \ {r}}
    BY EnvStep
  <2>4. k \in Key
    BY <2>1
  <2> HIDE DEF k
  <2>5. calls' \in [Key -> Nat]
    BY <2>2, <2>3, <2>4
  <2>6. pending' \subseteq Run \X Key
    BY <2>2, <2>3, <2>4
  <2> QED BY <2>2, <2>3, <2>5, <2>6
<1>5. faults' \in 0..MaxFaults
  BY <1>t, EnvStep, FaultTyped DEF TypeOK
<1>6. /\ pc' \in [Run -> PC] /\ cur' \in [Run -> Key] /\ snap' \in [Run -> RowView]
      /\ seen' \in [Run -> Progress \cup {""}] /\ note' \in [Run -> Status \cup {""}]
  <2>1. Moved(r) /\ RunType(r)'
    BY MineMoved, TypedMine
  <2>2. /\ pc'[r] \in PC /\ cur'[r] \in Key /\ snap'[r] \in RowView
        /\ seen'[r] \in Progress \cup {""} /\ note'[r] \in Status \cup {""}
    BY <2>1, KeyFacts DEF RunType
  <2>3. /\ pc \in [Run -> PC] /\ cur \in [Run -> Key] /\ snap \in [Run -> RowView]
        /\ seen \in [Run -> Progress \cup {""}] /\ note \in [Run -> Status \cup {""}]
    BY <1>t DEF TypeOK
  <2>4. pc' \in [Run -> PC]
    BY <2>1, <2>2, <2>3 DEF Moved
  <2>5. cur' \in [Run -> Key]
    BY <2>1, <2>2, <2>3 DEF Moved
  <2>6. snap' \in [Run -> RowView]
    BY <2>1, <2>2, <2>3 DEF Moved
  <2>7. seen' \in [Run -> Progress \cup {""}]
    BY <2>1, <2>2, <2>3 DEF Moved
  <2>8. note' \in [Run -> Status \cup {""}]
    BY <2>1, <2>2, <2>3 DEF Moved
  <2> QED BY <2>4, <2>5, <2>6, <2>7, <2>8
<1> QED BY <1>1, <1>2, <1>3, <1>4, <1>5, <1>6 DEF TypeOK

\* An invocation's step, with what it does to the variables of GigaOutbound.
GMine(r) ==
  \/ Push(r)
  \/ LifecycleCas(r) /\ InvalidateOnCancel(r) /\ UNCHANGED <<source, giga, dup>>
  \/ Crash(r) /\ dup' = dup \ {r} /\ UNCHANGED <<source, proj, giga>>
  \/ (Start(r) \/ Continue(r) \/ Failure(r)) /\ UNCHANGED gvars
  \/ \E k \in GigaKey : OperatorReads(r, k, giga # "") /\ UNCHANGED gvars

LEMMA GMineMine == ASSUME NEW r, GMine(r) PROVE Mine(r)
BY DEF GMine, Mine

LEMMA GNextCases ==
  GNext <=> \/ \E r \in Run : GMine(r)
            \/ \E r \in Run, k \in GigaKey : GigaProcess(r, k)
            \/ Edit
            \/ Outside /\ UNCHANGED gvars
BY DEF GNext, GMine

\* Only updateRowsProgress marks a shipment row as pushed, after an answer.
LEMMA ProjStep ==
  ASSUME TypeInv, NEW r \in Run, GMine(r)
  PROVE  /\ UNCHANGED <<source, giga>> /\ dup' \in {dup, dup \ {r}}
         /\ \/ proj' = proj
            \/ \E s \in {"INVALID", "ATTEMPTED", "ERROR"} : proj' = [proj EXCEPT !.status = s]
            \/ /\ pc[r] \in {"synced", "exists"}
               /\ \E s \in Pushed : proj' = [proj EXCEPT !.status = s]
            \/ pc[r] = "project" /\ proj' = [proj EXCEPT !.payload = cur[r]]
<1> USE DEF At, gvars
<1>1. CASE Push(r)
  <2>1. CASE Progressed(r)
    BY <2>1 DEF Progressed, Label, Pushed
  <2>2. CASE Attempt(r) \/ AttemptFails(r)
    BY <2>2 DEF Attempt, AttemptFails
  <2>3. CASE Project(r)
    BY <2>3 DEF Project
  <2>4. CASE ProjectorReads(r) \/ Collect(r) \/ Recheck(r) \/ PushClaim(r) \/ AbortPush(r)
             \/ Create(r) \/ Response(r) \/ PushFinalize(r) \/ PushClaimFails(r)
             \/ PushFinalizeFails(r) \/ ProgressFails(r)
    BY <2>4 DEF ProjectorReads, Collect, Recheck, PushClaim, AbortPush, Create, Response,
                PushFinalize, PushClaimFails, PushFinalizeFails, ProgressFails
  <2> QED BY <1>1, <2>1, <2>2, <2>3, <2>4 DEF Push
<1>2. CASE LifecycleCas(r) /\ InvalidateOnCancel(r) /\ UNCHANGED <<source, giga, dup>>
  BY <1>2 DEF InvalidateOnCancel
<1> QED BY <1>1, <1>2 DEF GMine

LEMMA TypedShipment ==
  ASSUME TypeInv, NEW r \in Run, GMine(r)
  PROVE  /\ source' \in GigaKey /\ giga' \in GigaKey \cup {""} /\ dup' \subseteq Run
         /\ proj' \in [status : SyncStatus, payload : GigaKey]
<1>t. /\ GTypeOK /\ RunType(r)
      /\ proj \in [status : SyncStatus, payload : GigaKey]
  BY DEF TypeInv, GTypeOK
<1>1. ASSUME NEW s \in SyncStatus, NEW k \in GigaKey
      PROVE  /\ [proj EXCEPT !.status = s] \in [status : SyncStatus, payload : GigaKey]
             /\ [proj EXCEPT !.payload = k] \in [status : SyncStatus, payload : GigaKey]
  BY <1>t
<1>2. pc[r] = "project" => cur[r] \in GigaKey
  BY <1>t DEF RunType, GigaPC
<1>3. Pushed \subseteq SyncStatus /\ {"INVALID", "ATTEMPTED", "ERROR"} \subseteq SyncStatus
  BY DEF SyncStatus
<1> QED BY <1>t, <1>1, <1>2, <1>3, ProjStep DEF GTypeOK

LEMMA TypedElsewhere ==
  ASSUME TypeInv,
         \/ \E r \in Run, k \in GigaKey : GigaProcess(r, k)
         \/ Edit
         \/ Outside /\ UNCHANGED gvars
  PROVE  TypeInv'
<1>t. TypeOK /\ GTypeOK /\ \A r \in Run : RunType(r)
  BY DEF TypeInv, GTypeOK
<1>v. UNCHANGED rvars => \A r \in Run : RunType(r)'
  BY <1>t DEF rvars, RunType
<1>o. ASSUME UNCHANGED <<lvars, live, calls, row, rvars, faults>>,
             rms' \in Progress, confirmed' \in BOOLEAN, shipped' \in BOOLEAN,
             pending' \subseteq pending, accepted' \subseteq Run
      PROVE  TypeOK'
  BY <1>t, <1>o DEF TypeOK, LedgerTypeOK, lvars, rvars
<1>1. ASSUME NEW r \in Run, NEW k \in GigaKey, GigaProcess(r, k) PROVE TypeInv'
  <2>1. /\ giga' \in GigaKey \cup {""} /\ dup' \subseteq Run /\ accepted' \subseteq Run
        /\ pending' \subseteq pending
    BY <1>t, <1>1 DEF GigaProcess, GTypeOK, TypeOK
  <2>2. UNCHANGED <<lvars, live, rms, confirmed, shipped, calls, row, rvars, faults,
                    source, proj>>
    BY <1>1 DEF GigaProcess
  <2>3. TypeOK'
    BY <1>t, <1>o, <2>1, <2>2 DEF TypeOK
  <2> QED BY <1>t, <1>v, <2>1, <2>2, <2>3 DEF TypeInv, GTypeOK
<1>2. CASE Edit
  <2>1. source' \in GigaKey /\ UNCHANGED <<vars, proj, giga, dup>>
    BY <1>2 DEF Edit
  <2>2. TypeOK'
    BY <1>t, <1>o, <2>1 DEF TypeOK, vars, evars
  <2> QED BY <1>t, <1>v, <2>1, <2>2 DEF TypeInv, GTypeOK, vars
<1>3. CASE Outside /\ UNCHANGED gvars
  <2>1. ASSUME NEW r \in Run, NEW k \in {ConfirmKey, CloseKey}, Process(r, k)
        PROVE  TypeOK'
    <3>1. /\ rms' \in Progress /\ confirmed' \in BOOLEAN /\ shipped' \in BOOLEAN
          /\ pending' \subseteq pending /\ accepted' \subseteq Run
      BY <1>t, <2>1, ProgressFacts DEF Process, TypeOK
    <3> QED BY <1>o, <2>1, <3>1 DEF Process
  <2>2. ASSUME RmsMoves PROVE TypeOK' /\ UNCHANGED rvars
    <3>1. rms' \in Progress /\ confirmed' \in BOOLEAN /\ shipped' \in BOOLEAN
      BY <1>t, <2>2 DEF RmsMoves, TypeOK
    <3>2. UNCHANGED <<lvars, live, pending, accepted, calls, row, rvars, faults>>
      BY <2>2 DEF RmsMoves
    <3>3. pending' \subseteq pending /\ accepted' \subseteq Run
      BY <1>t, <3>2 DEF TypeOK
    <3> QED BY <1>o, <3>1, <3>2, <3>3
  <2>3. TypeOK' /\ UNCHANGED rvars
    <3>1. ASSUME NEW r \in Run, NEW k \in {ConfirmKey, CloseKey}, Process(r, k)
          PROVE  UNCHANGED rvars
      BY <3>1 DEF Process
    <3> QED BY <1>3, <2>1, <2>2, <3>1 DEF Outside
  <2> QED BY <1>t, <1>v, <1>3, <2>3 DEF TypeInv, GTypeOK, gvars
<1> QED BY <1>1, <1>2, <1>3

LEMMA NoFaults == 0 \in 0..MaxFaults
<1>1. MaxFaults \in Nat
  BY BoundsAssumption
<1> QED BY <1>1

LEMMA TypeInit == GInit => TypeInv
<1> SUFFICES ASSUME GInit PROVE TypeInv
  OBVIOUS
<1> USE KeyFacts, ProgressFacts
<1>0. Init
  BY DEF GInit
<1>1. LedgerTypeOK
  BY <1>0 DEF Init, LedgerInit, LedgerTypeOK, Row, Status, Free
<1>2. PICK s \in Starts : live = s.live /\ rms = s.rms
  BY <1>0 DEF Init
<1>3. live \subseteq Key /\ rms \in Progress
  BY <1>2, StartsAssumption
<1>4. /\ pending \subseteq Run \X Key /\ accepted \subseteq Run
      /\ calls \in [Key -> Nat] /\ confirmed \in BOOLEAN /\ shipped \in BOOLEAN
  BY <1>0 DEF Init
<1>5. row \in SalesRow
  <2>1. StatusOf[rms] \in OrderStatus
    BY <1>3
  <2> QED BY <1>0, <1>3, <2>1 DEF Init, SalesRow
<1>6. NoView \in RowView
  BY DEF NoView, RowView
<1>7. /\ pc \in [Run -> PC] /\ cur \in [Run -> Key] /\ snap \in [Run -> RowView]
      /\ seen \in [Run -> Progress \cup {""}] /\ note \in [Run -> Status \cup {""}]
  BY <1>0, <1>6 DEF Init, PC
<1>8. faults \in 0..MaxFaults
  <2>1. faults = 0
    BY <1>0 DEF Init
  <2> QED BY <2>1, NoFaults
<1>9. ASSUME NEW r \in Run PROVE RunType(r)
  BY <1>0, <1>6 DEF Init, RunType, PC, GigaPC, OrderPC
<1>10. /\ source \in GigaKey /\ giga \in GigaKey \cup {""} /\ dup \subseteq Run
       /\ proj \in [status : SyncStatus, payload : GigaKey]
  BY DEF GInit, SyncStatus
<1> QED BY <1>1, <1>3, <1>4, <1>5, <1>7, <1>8, <1>9, <1>10 DEF TypeInv, GTypeOK, TypeOK

LEMMA TypeNext == TypeInv /\ [GNext]_allvars => TypeInv'
<1> SUFFICES ASSUME TypeInv, [GNext]_allvars PROVE TypeInv'
  OBVIOUS
<1>1. ASSUME NEW r \in Run, GMine(r) PROVE TypeInv'
  BY <1>1, GMineMine, TypedOrder, TypedShipment, TypedRuns DEF TypeInv, GTypeOK
<1>2. CASE UNCHANGED allvars
  <2>1. UNCHANGED <<ledger, released, live, rms, confirmed, shipped, pending, accepted,
                    calls, row, pc, cur, seen, snap, note, faults, source, proj, giga, dup>>
    BY <1>2 DEF allvars, gvars, vars, lvars, evars, rvars
  <2>2. \A q \in Run : RunType(q)'
    BY <2>1 DEF TypeInv, RunType
  <2> QED BY <2>1, <2>2 DEF TypeInv, GTypeOK, TypeOK, LedgerTypeOK
<1> QED BY <1>1, <1>2, GNextCases, TypedElsewhere

LEMMA TypeInvariant == GSpec => []TypeInv
<1> QED BY TypeInit, TypeNext, PTL DEF GSpec

\* Every variable keeps its type: no phase of any invocation writes a status,
\* a progress or a ledger outcome it has not read or been given, whatever
\* fails in between (handlers of RakutenOrder and GigaOutbound).
THEOREM TypeCorrect == GSpec => []GTypeOK
<1>1. TypeInv => GTypeOK
  BY DEF TypeInv
<1> QED BY <1>1, TypeInvariant, PTL

-----------------------------------------------------------------------------
(* What an invocation remembers of RMS, GIGA and the ledger stays true.    *)

Done(k) == IF k = ConfirmKey THEN confirmed
           ELSE IF k = CloseKey THEN shipped ELSE giga # ""

\* What invocation r relies on at each point of its phase.
RunInv(r) ==
  /\ seen[r] \in {"500", "900"} => rms = seen[r]
  /\ r \in accepted => pc[r] \in {"wait", "response"} /\ Done(cur[r])
  /\ r \in dup => giga # ""
  /\ pc[r] = "readback" => note[r] \in {"CONFIRMED", "UNKNOWN_RESULT"}
  /\ pc[r] \in {"readback", "finalize", "gfinalize"} /\ note[r] \in Applied
        => Done(cur[r])
  /\ pc[r] = "finalize" /\ cur[r] = CloseKey /\ seen[r] = "500" => note[r] \in Applied
  /\ pc[r] = "gabort" => note[r] = "DEFINITIVE_FAILURE"
  /\ pc[r] = "resolve" => seen[r] = "500"
  /\ pc[r] = "store" /\ cur[r] = CloseKey
        => seen[r] = "500" /\ ledger[CloseKey].status \in Applied
  /\ pc[r] = "applied" => Done(cur[r])
  /\ pc[r] \in {"synced", "exists"} => giga # ""

\* What the progress RMS shows says about the past of the order.
RmsInv == /\ rms = "300" => confirmed
          /\ rms = "500" => confirmed /\ shipped

LedgerTrue == \A k \in Handled : ledger[k].status \in Applied => Done(k)

TruthInv == /\ RmsInv
            /\ LedgerTrue
            /\ proj.status \in Pushed => giga # ""
            /\ CompletionProven
            /\ \A r \in Run : RunInv(r)

LEMMA TruthGives == TypeInv /\ TruthInv => AppliedIsTrue
<1> SUFFICES ASSUME TypeInv, TruthInv PROVE AppliedIsTrue
  OBVIOUS
<1>1. AppliedMeansAccepted
  BY KeyFacts DEF AppliedMeansAccepted, TruthInv, LedgerTrue, Done
<1>2. \A k \in GigaKey : ledger[k].status \in Applied => giga # ""
  BY KeyFacts DEF TruthInv, LedgerTrue, Done
<1> QED BY <1>1, <1>2 DEF AppliedIsTrue, PushedMeansOrdered, TruthInv

\* RMS never takes back a confirmation, a shipment or an ending, and GIGA
\* never lets go of an order.
Stable == /\ confirmed => confirmed'
          /\ shipped => shipped'
          /\ giga # "" => giga' # ""
          /\ rms \in {"500", "900"} => rms' = rms
          /\ RmsInv'

LEMMA StableStep == ASSUME TypeInv, RmsInv, [GNext]_allvars PROVE Stable
<1> USE DEF Stable, RmsInv
<1>t. giga \in GigaKey \cup {""} /\ rms \in Progress
  BY DEF TypeInv, GTypeOK, TypeOK
<1>1. ASSUME NEW r \in Run, GMine(r) PROVE Stable
  <2>1. UNCHANGED <<rms, confirmed, shipped, giga>>
    BY <1>1, GMineMine, EnvStep, ProjStep
  <2> QED BY <2>1
<1>2. ASSUME NEW r \in Run, NEW k \in GigaKey, GigaProcess(r, k) PROVE Stable
  <2>1. UNCHANGED <<rms, confirmed, shipped>> /\ giga' \in {giga, k}
    BY <1>2 DEF GigaProcess
  <2> QED BY <2>1, KeyFacts
<1>3. CASE Edit \/ UNCHANGED allvars
  <2>1. UNCHANGED <<rms, confirmed, shipped, giga>>
    BY <1>3 DEF Edit, allvars, vars, evars, gvars
  <2> QED BY <2>1
<1>4. CASE Outside /\ UNCHANGED gvars
  <2>1. giga' = giga
    BY <1>4 DEF gvars
  <2>2. CASE RmsMoves
    <3>1. PICK p \in Progress :
             /\ <<rms, p>> \in Moves
             /\ rms' = p
             /\ confirmed' = (confirmed \/ p = "300")
             /\ shipped' = (shipped \/ p = "500")
      BY <2>2 DEF RmsMoves
    <3>2. rms \notin {"500", "900"} /\ (p = "500" => rms = "300")
      BY <3>1, MovesAssumption
    <3>3. /\ confirmed => confirmed'
          /\ shipped => shipped'
          /\ p = "300" => confirmed'
          /\ p = "500" => confirmed' /\ shipped'
      BY <3>1, <3>2
    <3> QED BY <2>1, <3>1, <3>2, <3>3
  <2>3. ASSUME NEW r \in Run, NEW k \in {ConfirmKey, CloseKey}, Process(r, k)
        PROVE  Stable
    <3>1. CASE UNCHANGED <<rms, confirmed, shipped>>
      BY <2>1, <3>1
    <3>2. CASE /\ Accepts(k)
               /\ \/ k = ConfirmKey /\ rms = "100" /\ rms' \in {"600", "300"}
                  \/ (k = CloseKey \/ rms = "600") /\ UNCHANGED rms
               /\ confirmed' = (confirmed \/ k = ConfirmKey)
               /\ shipped' = (shipped \/ k = CloseKey)
      <4>1. /\ confirmed => confirmed'
            /\ shipped => shipped'
            /\ k = ConfirmKey => confirmed'
        BY <3>2
      <4>2. k = CloseKey => rms = "300"
        BY <3>2, KeyFacts DEF Accepts
      <4>3. CASE k = ConfirmKey
        BY <2>1, <3>2, <4>1, <4>3, KeyFacts
      <4>4. CASE k = CloseKey
        BY <2>1, <3>2, <4>1, <4>2, <4>4, KeyFacts
      <4> QED BY <4>3, <4>4
    <3> QED BY <2>3, <3>1, <3>2 DEF Process
  <2> QED BY <1>4, <2>2, <2>3 DEF Outside
<1> QED BY <1>1, <1>2, <1>3, <1>4, GNextCases

LEMMA DoneStable == ASSUME Stable, NEW k, Done(k) PROVE Done(k)'
BY DEF Stable, Done

\* A ledger row becomes applied only through a caller who knows Done, and
\* stays applied.
LEMMA LedgerApplied ==
  ASSUME LedgerTypeOK, NEW k \in Key, NEW j \in Key
  PROVE  /\ \A r : Claim(k, r) =>
              (ledger'[j].status \in Applied <=> ledger[j].status \in Applied)
         /\ \A r, s : Finalize(k, r, s) =>
              /\ ledger[j].status \in Applied => ledger'[j].status \in Applied
              /\ ledger'[j].status \in Applied
                   => ledger[j].status \in Applied \/ (j = k /\ s \in Applied)
         /\ \A e, o : Resolve(k, e, o) =>
              /\ ledger[j].status \in Applied => ledger'[j].status \in Applied
              /\ ledger'[j].status \in Applied
                   => ledger[j].status \in Applied \/ (j = k /\ o = "APPLIED")
<1> USE DEF LedgerTypeOK, Row, Applied
<1>1. ASSUME NEW r, Claim(k, r)
      PROVE  ledger'[j].status \in Applied <=> ledger[j].status \in Applied
  BY <1>1 DEF Claim, Claimable, Free
<1>2. ASSUME NEW r, NEW s, Finalize(k, r, s)
      PROVE  /\ ledger[j].status \in Applied => ledger'[j].status \in Applied
             /\ ledger'[j].status \in Applied
                  => ledger[j].status \in Applied \/ (j = k /\ s \in Applied)
  BY <1>2 DEF Finalize, Owns
<1>3. ASSUME NEW e, NEW o, Resolve(k, e, o)
      PROVE  /\ ledger[j].status \in Applied => ledger'[j].status \in Applied
             /\ ledger'[j].status \in Applied
                  => ledger[j].status \in Applied \/ (j = k /\ o = "APPLIED")
  BY <1>3 DEF Resolve, Resolvable, Open, lvars
<1> QED BY <1>1, <1>2, <1>3

\* The marketplaces and an edit leave the ledger and the rows alone.
LEMMA ElsewhereKeeps ==
  ASSUME TypeInv, \/ \E r \in Run, k \in GigaKey : GigaProcess(r, k)
                  \/ Edit
                  \/ Outside /\ UNCHANGED gvars
                  \/ UNCHANGED allvars
  PROVE  UNCHANGED <<ledger, released, calls, row, pc, cur, seen, snap, note, proj>>
<1> USE DEF lvars, rvars, gvars
<1>1. ASSUME NEW r \in Run, NEW k \in GigaKey, GigaProcess(r, k)
      PROVE  UNCHANGED <<ledger, released, calls, row, pc, cur, seen, snap, note, proj>>
  BY <1>1 DEF GigaProcess
<1>2. CASE Edit \/ UNCHANGED allvars
  BY <1>2 DEF Edit, allvars, vars, evars
<1>3. CASE Outside /\ UNCHANGED gvars
  BY <1>3 DEF Outside, RmsMoves, Process
<1> QED BY <1>1, <1>2, <1>3

LEMMA LedgerTrueStep ==
  ASSUME TypeInv, TruthInv, [GNext]_allvars
  PROVE  LedgerTrue' /\ (ledger[CloseKey].status \in Applied
                           => ledger'[CloseKey].status \in Applied)
<1>s. Stable
  BY StableStep DEF TruthInv
<1>1. ASSUME NEW r \in Run, Mine(r)
      PROVE  \A k \in Handled :
               /\ ledger[k].status \in Applied => ledger'[k].status \in Applied
               /\ ledger'[k].status \in Applied => ledger[k].status \in Applied \/ Done(k)
  <2> SUFFICES ASSUME NEW k \in Handled
               PROVE  /\ ledger[k].status \in Applied => ledger'[k].status \in Applied
                      /\ ledger'[k].status \in Applied
                           => ledger[k].status \in Applied \/ Done(k)
    OBVIOUS
  <2>t. /\ cur[r] \in Key /\ k \in Key /\ CloseKey \in Key
        /\ LedgerTypeOK /\ RunType(r) /\ RunInv(r)
    BY KeyFacts DEF TypeInv, GTypeOK, TypeOK, TruthInv
  <2>1. CASE UNCHANGED lvars
    BY <2>1 DEF lvars
  <2>2. CASE Claim(cur[r], r)
    BY <2>2, <2>t, LedgerApplied
  <2>3. CASE pc[r] \in {"finalize", "gfinalize", "gabort"} /\ Finalize(cur[r], r, note[r])
    <3>1. note[r] \in Applied => Done(cur[r])
      BY <2>3, <2>t DEF RunInv, Applied
    <3> QED BY <2>3, <2>t, <3>1, LedgerApplied
  <2>4. CASE pc[r] = "resolve" /\ Resolve(CloseKey, note[r], "APPLIED")
    <3>1. Done(CloseKey)
      BY <2>4, <2>t, KeyFacts DEF RunInv, Done, TruthInv, RmsInv
    <3> QED BY <2>4, <2>t, <3>1, LedgerApplied
  <2>5. CASE pc[r] = "applied" /\ Resolve(cur[r], note[r], "APPLIED")
    <3>1. Done(cur[r])
      BY <2>5, <2>t DEF RunInv
    <3> QED BY <2>5, <2>t, <3>1, LedgerApplied
  <2>6. CASE Resolve(cur[r], note[r], "NOT_APPLIED")
    BY <2>6, <2>t, LedgerApplied
  <2> QED BY <1>1, <2>1, <2>2, <2>3, <2>4, <2>5, <2>6, LedgerStep
<1>2. CASE UNCHANGED ledger
  <2>1. ASSUME NEW k \in Handled, ledger[k].status \in Applied PROVE Done(k)'
    BY <1>s, <2>1, DoneStable DEF TruthInv, LedgerTrue
  <2> QED BY <1>2, <2>1 DEF LedgerTrue
<1>3. ASSUME NEW r \in Run, Mine(r)
      PROVE  LedgerTrue' /\ (ledger[CloseKey].status \in Applied
                               => ledger'[CloseKey].status \in Applied)
  <2>1. ASSUME NEW k \in Handled, ledger'[k].status \in Applied PROVE Done(k)'
    <3>1. Done(k)
      BY <1>1, <1>3, <2>1 DEF TruthInv, LedgerTrue
    <3> QED BY <1>s, <3>1, DoneStable
  <2> QED BY <1>1, <1>3, <2>1, KeyFacts DEF LedgerTrue
<1> QED BY <1>2, <1>3, ElsewhereKeeps, GNextCases, GMineMine

\* What an invocation that does not move relies on survives any step.
LEMMA RunInvFrame ==
  ASSUME TypeInv, TruthInv, [GNext]_allvars, NEW q \in Run,
         UNCHANGED <<pc[q], cur[q], seen[q], note[q]>>,
         q \in accepted' => q \in accepted \/ (pc[q] \in {"wait", "response"} /\ Done(cur[q])'),
         q \in dup' => q \in dup \/ giga' # ""
  PROVE  RunInv(q)'
<1>1. RunInv(q) /\ Stable
  BY StableStep DEF TruthInv
<1>2. ledger[CloseKey].status \in Applied => ledger'[CloseKey].status \in Applied
  BY LedgerTrueStep
<1>3. Done(cur[q]) => Done(cur[q])'
  BY <1>1, DoneStable
<1>4. /\ seen[q] \in {"500", "900"} => rms' = seen[q]
      /\ giga # "" => giga' # ""
  BY <1>1 DEF Stable, RunInv
<1> HIDE DEF Done
<1> QED BY <1>1, <1>2, <1>3, <1>4 DEF RunInv

\* An invocation that leaves relies on nothing.
LEMMA RunInvLeft ==
  ASSUME TypeInv, NEW r \in Run, Leave(r), r \notin accepted', r \in dup' => giga' # ""
  PROVE  RunInv(r)'
<1>1. pc'[r] = "idle" /\ seen'[r] = ""
  BY Left
<1> QED BY <1>1 DEF RunInv

LEMMA RunInvReads ==
  ASSUME TypeInv, TruthInv, NEW r \in Run, NEW k \in Handled, NEW b,
         OperatorReads(r, k, b), b => Done(k), UNCHANGED <<giga, dup>>
  PROVE  RunInv(r)'
<1>1. /\ pc[r] = "idle" /\ r \notin accepted /\ RunInv(r)
      /\ UNCHANGED <<rms, confirmed, shipped, accepted>>
  BY DEF OperatorReads, At, TruthInv, RunInv, evars
<1>2. /\ pc'[r] \in {"applied", "notApplied"} /\ (pc'[r] = "applied" => b)
      /\ cur'[r] = k /\ seen'[r] = seen[r]
  BY DEF OperatorReads, Goto, TypeInv, GTypeOK, TypeOK
<1>3. pc'[r] = "applied" => Done(cur[r])'
  BY <1>1, <1>2 DEF Done
<1> HIDE DEF Done
<1> QED BY <1>1, <1>2, <1>3 DEF RunInv

LEMMA RunInvStart ==
  ASSUME TypeInv, TruthInv, NEW r \in Run, Start(r), UNCHANGED gvars
  PROVE  RunInv(r)'
<1>t. /\ RunInv(r) /\ RunType(r) /\ RmsInv
      /\ rms \in Progress /\ pc \in [Run -> PC] /\ cur \in [Run -> Key]
      /\ seen \in [Run -> Progress \cup {""}] /\ note \in [Run -> Status \cup {""}]
  BY DEF TypeInv, GTypeOK, TypeOK, TruthInv
<1>1. /\ pc[r] = "idle" /\ r \notin accepted /\ UNCHANGED <<rms, confirmed, shipped, giga, accepted, dup, ledger>>
  BY <1>t DEF Start, ConfirmFind, CloseFind, LifecycleList, IngestFetch, PortalReads,
     OperatorReads, At, RunInv, evars, gvars, lvars
<1>2. CASE OperatorReads(r, ConfirmKey, confirmed) \/ OperatorReads(r, CloseKey, shipped)
  <2>1. (confirmed => Done(ConfirmKey)) /\ (shipped => Done(CloseKey))
    BY KeyFacts DEF Done
  <2>2. UNCHANGED <<giga, dup>>
    BY <1>1
  <2>3. CASE OperatorReads(r, ConfirmKey, confirmed)
    BY <2>1, <2>2, <2>3, RunInvReads, KeyFacts
  <2>4. CASE OperatorReads(r, CloseKey, shipped)
    BY <2>1, <2>2, <2>4, RunInvReads, KeyFacts
  <2> QED BY <1>2, <2>3, <2>4
<1>3. CASE ConfirmFind(r) \/ CloseFind(r) \/ LifecycleList(r) \/ PortalReads(r)
  <2>1. /\ pc'[r] \in {"mark", "reset", "preflight", "fetch", "request"}
        /\ seen' = seen
    BY <1>3, Went DEF ConfirmFind, CloseFind, LifecycleList, PortalReads
  <2> QED BY <1>t, <1>1, <2>1 DEF RunInv
<1>4. CASE IngestFetch(r)
  <2>1. pc'[r] = "list" /\ seen'[r] = rms
    BY <1>4, <1>t, Went DEF IngestFetch
  <2> QED BY <1>t, <1>1, <2>1 DEF RunInv
<1> QED BY <1>2, <1>3, <1>4 DEF Start

LEMMA RunInvContinue ==
  ASSUME TypeInv, TruthInv, NEW r \in Run, Continue(r), UNCHANGED gvars
  PROVE  RunInv(r)'
<1>t. /\ RunInv(r) /\ RunType(r) /\ RmsInv /\ LedgerTrue
      /\ rms \in Progress /\ pc \in [Run -> PC] /\ cur \in [Run -> Key]
      /\ seen \in [Run -> Progress \cup {""}] /\ note \in [Run -> Status \cup {""}]
  BY DEF TypeInv, GTypeOK, TypeOK, TruthInv
<1>e. /\ UNCHANGED <<rms, confirmed, shipped, giga, dup>>
      /\ accepted' \in {accepted, accepted \ {r}}
  BY EnvStep DEF Mine, gvars
<1>d. Done(ConfirmKey) = confirmed /\ Done(CloseKey) = shipped
  BY KeyFacts DEF Done
<1>s. \A k : Done(k) => Done(k)'
  BY <1>e DEF Done
<1>0. Leave(r) /\ pc[r] \notin {"wait", "response"} => RunInv(r)'
  BY <1>t, <1>e, RunInvLeft DEF RunInv
<1>p. ASSUME UNCHANGED <<cur, seen, note, ledger>>, pc[r] \notin {"wait", "response"},
             pc'[r] \in {"claim", "execute", "wait", "write", "evidence"}
      PROVE  RunInv(r)'
  BY <1>t, <1>e, <1>p DEF RunInv
<1>1. CASE ResetStuck(r) \/ StoreConfirmed(r) \/ StoreClosed(r) \/ IngestWrite(r)
           \/ PortalPatches(r) \/ OperatorResolves(r)
  BY <1>0, <1>1 DEF ResetStuck, StoreConfirmed, StoreClosed, IngestWrite,
                    PortalPatches, OperatorResolves, At
<1>2. CASE MarkInProgress(r) \/ Execute(r)
  <2>1. /\ UNCHANGED <<cur, seen, note, ledger>> /\ pc[r] \in {"mark", "execute"}
        /\ pc'[r] \in {"claim", "wait"}
    BY <1>2, Went DEF MarkInProgress, Execute, At, lvars
  <2> QED BY <1>p, <2>1
<1>3. CASE ClosePreflight(r)
  <2>1. CASE Leave(r)
    BY <1>0, <1>3, <2>1 DEF ClosePreflight, At
  <2>2. CASE seen' = [seen EXCEPT ![r] = rms] /\ Goto(r, "claim") /\ UNCHANGED <<cur, note>>
    <3>1. pc'[r] = "claim" /\ seen'[r] = rms /\ pc[r] = "preflight"
      BY <1>3, <1>t, <2>2, Went DEF ClosePreflight, At
    <3> QED BY <1>t, <1>e, <3>1 DEF RunInv
  <2> QED BY <1>3, <2>1, <2>2 DEF ClosePreflight
<1>4. CASE ClaimCall(r)
  <2>1. /\ pc[r] = "claim" /\ (ConfirmClaimed(r) \/ CloseClaimed(r))
        /\ Claim(cur[r], r)
    BY <1>4 DEF ClaimCall, At
  <2>2. CASE Leave(r)
    BY <1>0, <2>1, <2>2
  <2>3. ASSUME Goto(r, "execute"), UNCHANGED <<cur, seen>>
        PROVE  RunInv(r)'
    <3>1. pc'[r] = "execute" /\ seen'[r] = seen[r]
      BY <2>3, Went
    <3> QED BY <1>t, <1>e, <2>1, <3>1 DEF RunInv
  <2>4. CASE ConfirmClaimed(r)
    <3>1. CASE cur[r] = ConfirmKey /\ Goto(r, "store") /\ UNCHANGED <<cur, seen, note>>
      <4>1. pc'[r] = "store" /\ seen'[r] = seen[r] /\ cur'[r] = ConfirmKey
        BY <3>1, Went
      <4> QED BY <1>t, <1>e, <2>1, <4>1, KeyFacts DEF RunInv
    <3> QED BY <2>2, <2>3, <2>4, <3>1 DEF ConfirmClaimed
  <2>5. CASE CloseClaimed(r)
    <3>1. CASE /\ seen[r] = "500" /\ cur[r] = CloseKey /\ UNCHANGED <<cur, seen>>
               /\ \/ Goto(r, "finalize") /\ note' = [note EXCEPT ![r] = "ALREADY_APPLIED"]
                  \/ Goto(r, "resolve")
                  \/ Goto(r, "store") /\ ledger[CloseKey].status \in Applied
      <4>1. shipped /\ rms = "500" /\ Done(cur[r])'
        BY <1>t, <1>d, <1>s, <3>1 DEF RunInv, RmsInv
      <4>2. /\ seen'[r] = "500" /\ cur'[r] = CloseKey
            /\ \/ pc'[r] = "finalize" /\ note'[r] = "ALREADY_APPLIED"
               \/ pc'[r] = "resolve"
               \/ pc'[r] = "store" /\ ledger[CloseKey].status \in Applied
        BY <1>t, <3>1, Went
      <4>3. ledger[CloseKey].status \in Applied => ledger'[CloseKey].status \in Applied
        BY <2>1, <3>1, KeyFacts, LedgerApplied DEF TypeInv, GTypeOK, TypeOK
      <4> HIDE DEF Done
      <4> QED BY <1>t, <1>e, <2>1, <4>1, <4>2, <4>3 DEF RunInv, Applied
    <3> QED BY <2>2, <2>3, <2>5, <3>1 DEF CloseClaimed
  <2> QED BY <2>1, <2>4, <2>5
<1>5. CASE RelayOk(r)
  <2>1. /\ pc[r] = "wait" /\ Done(cur[r]) /\ r \notin accepted'
        /\ seen'[r] = seen[r] /\ note'[r] = "CONFIRMED" /\ cur'[r] = cur[r]
        /\ pc'[r] = IF cur[r] = ConfirmKey THEN "finalize" ELSE "readback"
    BY <1>5, <1>t, Went DEF RelayOk, At, RunInv
  <2>2. Done(cur[r])'
    BY <1>s, <2>1
  <2> HIDE DEF Done
  <2> QED BY <1>t, <1>e, <2>1, <2>2, KeyFacts DEF RunInv, Applied
<1>6. CASE RelayFails(r)
  <2>1. /\ r \notin accepted' /\ seen'[r] = seen[r] /\ note'[r] = "UNKNOWN_RESULT"
        /\ pc'[r] = "readback"
    BY <1>6, <1>t, Went DEF RelayFails
  <2> QED BY <1>t, <1>e, <2>1 DEF RunInv, Applied
<1>7. CASE ReadBack(r)
  <2>1. PICK s \in {rms, ""} :
           /\ seen' = [seen EXCEPT ![r] = IF cur[r] = CloseKey THEN s ELSE ""]
           /\ note' = [note EXCEPT ![r] =
                         IF @ = "UNKNOWN_RESULT" /\ s \in Proof(cur[r])
                         THEN "ALREADY_APPLIED" ELSE @]
    BY <1>7 DEF ReadBack
  <2>2. /\ seen'[r] = IF cur[r] = CloseKey THEN s ELSE ""
        /\ note'[r] = IF note[r] = "UNKNOWN_RESULT" /\ s \in Proof(cur[r])
                      THEN "ALREADY_APPLIED" ELSE note[r]
    BY <1>t, <2>1
  <2>3. /\ pc[r] = "readback" /\ pc'[r] = "finalize" /\ cur'[r] = cur[r]
        /\ r \notin accepted'
    BY <1>7, <1>t, <1>e, Went DEF ReadBack, At, RunInv
  <2>4. cur[r] \in {ConfirmKey, CloseKey} /\ note[r] \in {"CONFIRMED", "UNKNOWN_RESULT"}
    BY <1>t, <2>3 DEF RunInv, RunType, OrderPC
  <2>5. s \in Proof(cur[r]) => Done(cur[r])
    BY <1>t, <1>d, <2>4 DEF Proof, RmsInv
  <2>6. note'[r] \in Applied => Done(cur[r])'
    <3>1. note'[r] \in Applied => Done(cur[r])
      BY <1>t, <2>2, <2>3, <2>5 DEF RunInv
    <3> QED BY <1>s, <2>3, <3>1
  <2>7. cur[r] = CloseKey /\ s = "500" => note'[r] \in Applied
    BY <2>2, <2>4, KeyFacts DEF Proof, Applied
  <2> HIDE DEF Done
  <2> QED BY <1>t, <1>e, <2>2, <2>3, <2>6, <2>7 DEF RunInv
<1>8. CASE FinalizeCall(r)
  <2>1. CASE Leave(r)
    BY <1>0, <1>8, <2>1 DEF FinalizeCall, At
  <2>2. CASE Owns(cur[r], r) /\ Storable(r) /\ Goto(r, "store") /\ UNCHANGED <<cur, seen, note>>
    <3>1. /\ pc[r] = "finalize" /\ pc'[r] = "store" /\ UNCHANGED <<cur[r], seen[r]>>
      BY <1>8, <2>2, Went DEF FinalizeCall, At
    <3>2. cur[r] = CloseKey => seen[r] = "500" /\ ledger'[CloseKey].status \in Applied
      <4>1. cur[r] = CloseKey => seen[r] = "500" /\ note[r] \in Applied
        BY <1>t, <2>2, <3>1, KeyFacts DEF Storable, RunInv
      <4>2. ledger' = [ledger EXCEPT ![cur[r]].status = note[r]]
        BY <1>8, <2>2 DEF FinalizeCall, Finalize
      <4> QED BY <1>t, <4>1, <4>2, KeyFacts DEF TypeInv, GTypeOK, TypeOK, LedgerTypeOK, Row
    <3> QED BY <1>t, <1>e, <3>1, <3>2 DEF RunInv
  <2> QED BY <1>8, <2>1, <2>2 DEF FinalizeCall
<1>9. CASE ResolveCall(r)
  <2>1. CASE Leave(r)
    BY <1>0, <1>9, <2>1 DEF ResolveCall, At
  <2>2. CASE /\ Resolvable(CloseKey, note[r]) /\ Goto(r, "store")
             /\ UNCHANGED <<cur, seen, note>>
    <3>1. /\ pc[r] = "resolve" /\ pc'[r] = "store" /\ UNCHANGED <<cur[r], seen[r]>>
      BY <1>9, <2>2, Went DEF ResolveCall, At
    <3>2. ledger' = [ledger EXCEPT ![CloseKey].status = "ALREADY_APPLIED"]
      BY <1>9, <2>2 DEF ResolveCall, Resolve
    <3>3. ledger'[CloseKey].status \in Applied
      <4>1. ledger \in [Key -> Row] /\ CloseKey \in Key
        BY KeyFacts DEF TypeInv, GTypeOK, TypeOK, LedgerTypeOK
      <4>2. ledger'[CloseKey] = [ledger[CloseKey] EXCEPT !.status = "ALREADY_APPLIED"]
        BY <3>2, <4>1
      <4> QED BY <4>1, <4>2 DEF Row, Applied
    <3> QED BY <1>t, <1>e, <3>1, <3>3 DEF RunInv
  <2> QED BY <1>9, <2>1, <2>2 DEF ResolveCall
<1>10. CASE LifecycleFetch(r)
  <2>1. CASE Leave(r)
    BY <1>0, <1>10, <2>1 DEF LifecycleFetch, At
  <2>2. CASE seen' = [seen EXCEPT ![r] = rms] /\ Goto(r, "cas") /\ UNCHANGED <<cur, note>>
    <3>1. pc'[r] = "cas" /\ seen'[r] = rms /\ pc[r] = "fetch"
      BY <1>10, <1>t, <2>2, Went DEF LifecycleFetch, At
    <3> QED BY <1>t, <1>e, <3>1 DEF RunInv
  <2> QED BY <1>10, <2>1, <2>2 DEF LifecycleFetch
<1>11. CASE IngestList(r)
  <2>1. CASE Leave(r)
    BY <1>0, <1>11, <2>1 DEF IngestList, At
  <2>2. ASSUME NEW l \in {"write", "evidence"}, Goto(r, l), UNCHANGED <<cur, seen, snap, note>>
        PROVE  RunInv(r)'
    <3>1. pc[r] = "list" /\ pc'[r] = l /\ UNCHANGED ledger
      BY <1>11, <2>2, Went DEF IngestList, At, lvars
    <3> QED BY <1>p, <2>2, <3>1
  <2> QED BY <1>11, <2>1, <2>2 DEF IngestList
<1> QED
  BY <1>1, <1>2, <1>3, <1>4, <1>5, <1>6, <1>7, <1>8, <1>9, <1>10, <1>11 DEF Continue

LEMMA RunInvPush ==
  ASSUME TypeInv, TruthInv, NEW r \in Run, Push(r)
  PROVE  RunInv(r)'
<1>t. /\ RunInv(r) /\ RunType(r) /\ LedgerTrue
      /\ pc \in [Run -> PC] /\ cur \in [Run -> Key]
      /\ seen \in [Run -> Progress \cup {""}] /\ note \in [Run -> Status \cup {""}]
  BY DEF TypeInv, GTypeOK, TypeOK, TruthInv
<1>e. /\ UNCHANGED <<rms, confirmed, shipped, giga>>
      /\ accepted' \in {accepted, accepted \ {r}} /\ dup' \in {dup, dup \ {r}}
  BY EnvStep, ProjStep DEF Mine, GMine
<1>s. \A k : Done(k) => Done(k)'
  BY <1>e DEF Done
<1>d. \A k \in GigaKey : Done(k) <=> giga # ""
  BY KeyFacts DEF Done
<1>0. Leave(r) /\ pc[r] # "response" /\ pc[r] # "wait" => RunInv(r)'
  BY <1>t, <1>e, RunInvLeft DEF RunInv
<1>p. ASSUME pc[r] # "response" /\ pc[r] # "wait", UNCHANGED <<cur, seen>>,
             \/ pc'[r] \in {"gclaim", "attempt", "create", "response", "error", "invalid", "project",
                         "recheck"}
             \/ pc'[r] = "gabort" /\ note'[r] = "DEFINITIVE_FAILURE"
             \/ pc'[r] \in {"synced", "exists"} /\ giga # ""
      PROVE  RunInv(r)'
  BY <1>t, <1>e, <1>p DEF RunInv
<1>1. CASE ProjectorReads(r) \/ Collect(r)
  <2>1. pc[r] = "idle" /\ pc'[r] \in {"project", "recheck"} /\ seen' = seen
    BY <1>1, Went DEF ProjectorReads, Collect, At
  <2> QED BY <1>t, <1>e, <2>1 DEF RunInv
<1>2. CASE Project(r) \/ AbortPush(r) \/ Progressed(r) \/ PushClaimFails(r)
  <2>1. Leave(r) /\ pc[r] # "response" /\ pc[r] # "wait"
    BY <1>2 DEF Project, AbortPush, Progressed, PushClaimFails, At, Label
  <2> QED BY <1>0, <2>1
<1>3. CASE Recheck(r)
  <2>1. pc[r] = "recheck"
    BY <1>3 DEF Recheck, At
  <2>2. CASE Leave(r)
    BY <1>0, <2>1, <2>2
  <2>3. CASE (Goto(r, "gclaim") \/ Goto(r, "invalid")) /\ UNCHANGED <<cur, seen, snap, note>>
    BY <1>p, <2>1, <2>3, Went
  <2> QED BY <1>3, <2>2, <2>3 DEF Recheck
<1>4. CASE PushClaim(r)
  <2>1. pc[r] = "gclaim" /\ PushClaimed(r)
    BY <1>4 DEF PushClaim, At
  <2>2. CASE Leave(r)
    BY <1>0, <2>1, <2>2
  <2>3. CASE Goto(r, "attempt") /\ UNCHANGED <<cur, seen, snap, note>>
    BY <1>p, <2>1, <2>3, Went
  <2>4. CASE /\ ledger[cur[r]].status \in Applied /\ Goto(r, "exists")
             /\ UNCHANGED <<cur, seen, snap, note>>
    <3>1. cur[r] \in GigaKey
      BY <1>t, <2>1 DEF RunType, GigaPC
    <3>2. giga # ""
      BY <1>t, <1>d, <2>4, <3>1, KeyFacts DEF LedgerTrue
    <3> QED BY <1>p, <2>1, <2>4, <3>2, Went
  <2> QED BY <2>1, <2>2, <2>3, <2>4 DEF PushClaimed
<1>5. CASE Attempt(r) \/ Create(r) \/ AttemptFails(r)
  <2>1. /\ pc[r] \in {"attempt", "create"} /\ UNCHANGED <<cur, seen>>
        /\ \/ pc'[r] \in {"create", "response"}
           \/ pc'[r] = "gabort" /\ note'[r] = "DEFINITIVE_FAILURE"
    BY <1>5, <1>t, Went DEF Attempt, Create, AttemptFails, At
  <2> QED BY <1>p, <2>1
<1>6. CASE Response(r)
  <2>1. /\ pc[r] = "response" /\ pc'[r] = "gfinalize" /\ r \notin accepted'
        /\ UNCHANGED <<cur, seen>> /\ note'[r] \in {Outcome(r), "UNKNOWN_RESULT", "DEFINITIVE_FAILURE"}
    BY <1>6, <1>t, Went DEF Response, At
  <2>2. cur[r] \in GigaKey
    BY <1>t, <2>1 DEF RunType, GigaPC
  <2>3. Outcome(r) \in Applied => Done(cur[r])
    BY <1>t, <1>d, <2>2 DEF Outcome, RunInv, Applied
  <2>4. note'[r] \in Applied => Done(cur[r])'
    <3>1. note'[r] \in Applied => Done(cur[r])
      BY <2>1, <2>3 DEF Applied
    <3> QED BY <1>s, <2>1, <3>1
  <2> HIDE DEF Done
  <2> QED BY <1>t, <1>e, <2>1, <2>4 DEF RunInv
<1>7. CASE PushFinalize(r)
  <2>1. pc[r] = "gfinalize"
    BY <1>7 DEF PushFinalize, At
  <2>2. cur[r] \in GigaKey /\ note[r] \in Terminal
    BY <1>t, <2>1 DEF RunType, GigaPC
  <2>3. CASE Leave(r)
    BY <1>0, <2>1, <2>3
  <2>4. CASE Goto(r, "error") /\ UNCHANGED <<cur, seen, snap, note>>
    BY <1>p, <2>1, <2>4, Went
  <2>5. CASE Goto(r, AfterFinalize[note[r]]) /\ UNCHANGED <<cur, seen, snap, note>>
    <3>1. \/ AfterFinalize[note[r]] = "error"
          \/ AfterFinalize[note[r]] \in {"synced", "exists"} /\ note[r] \in Applied
      BY <2>2 DEF AfterFinalize, Terminal, Applied
    <3>2. note[r] \in Applied => giga # ""
      BY <1>t, <1>d, <2>1, <2>2 DEF RunInv
    <3>3. pc'[r] = AfterFinalize[note[r]]
      BY <2>5, Went
    <3> QED BY <1>p, <2>1, <2>5, <3>1, <3>2, <3>3
  <2> QED BY <1>7, <2>3, <2>4, <2>5 DEF PushFinalize
<1>8. CASE PushFinalizeFails(r)
  <2>1. pc[r] = "gfinalize"
    BY <1>8 DEF PushFinalizeFails, At
  <2>2. CASE Leave(r)
    BY <1>0, <2>1, <2>2
  <2>3. CASE Goto(r, "error") /\ UNCHANGED <<cur, seen, snap, note>>
    BY <1>p, <2>1, <2>3, Went
  <2>4. CASE note' = [note EXCEPT ![r] = "UNKNOWN_RESULT"] /\ UNCHANGED <<pc, cur, seen, snap>>
    <3>1. note'[r] \notin Applied
      BY <1>t, <2>4 DEF Applied
    <3> HIDE DEF Done
    <3> QED BY <1>t, <1>e, <2>1, <2>4, <3>1 DEF RunInv
  <2> QED BY <1>8, <2>2, <2>3, <2>4 DEF PushFinalizeFails
<1>9. CASE ProgressFails(r)
  <2>1. pc[r] \in {"synced", "exists", "error", "invalid", "recheck", "gabort", "project"}
    BY <1>9 DEF ProgressFails, Label
  <2>2. CASE Leave(r)
    BY <1>0, <2>1, <2>2
  <2>3. CASE Goto(r, "error") /\ UNCHANGED <<cur, seen, snap, note>>
    BY <1>p, <2>1, <2>3, Went
  <2> QED BY <1>9, <2>2, <2>3 DEF ProgressFails
<1> QED BY <1>1, <1>2, <1>3, <1>4, <1>5, <1>6, <1>7, <1>8, <1>9 DEF Push

\* Its own step keeps what an invocation relies on next.
LEMMA RunInvStep ==
  ASSUME TypeInv, TruthInv, NEW r \in Run, GMine(r)
  PROVE  RunInv(r)'
<1>t. RunInv(r) /\ RunType(r)
  BY DEF TypeInv, TruthInv
<1>1. CASE Push(r)
  BY <1>1, RunInvPush
<1>2. CASE Start(r) /\ UNCHANGED gvars
  BY <1>2, RunInvStart
<1>3. CASE Continue(r) /\ UNCHANGED gvars
  BY <1>3, RunInvContinue
<1>4. ASSUME NEW k \in GigaKey, OperatorReads(r, k, giga # ""), UNCHANGED gvars
      PROVE  RunInv(r)'
  <2>1. giga # "" => Done(k)
    BY KeyFacts DEF Done
  <2>2. UNCHANGED <<giga, dup>> /\ k \in Handled
    BY <1>4, KeyFacts DEF gvars
  <2> QED BY <1>4, <2>1, <2>2, RunInvReads
<1>5. CASE Crash(r) /\ dup' = dup \ {r}
  <2>1. Leave(r) /\ r \notin accepted' /\ r \notin dup'
    BY <1>5 DEF Crash
  <2> QED BY <2>1, RunInvLeft
<1>6. CASE LifecycleCas(r) /\ UNCHANGED <<source, giga, dup>>
  <2>1. Leave(r) /\ r \notin accepted' /\ (r \in dup' => giga' # "")
    BY <1>6, <1>t DEF LifecycleCas, At, RunInv, evars
  <2> QED BY <2>1, RunInvLeft
<1>7. CASE Failure(r) /\ UNCHANGED gvars
  <2>1. UNCHANGED <<giga, dup>>
    BY <1>7 DEF gvars
  <2>2. ASSUME NEW k \in Key, CallLost(r, k) PROVE RunInv(r)'
    <3>1. UNCHANGED <<rms, confirmed, shipped, accepted, ledger, pc, cur, seen, note>>
      BY <2>2 DEF CallLost, rvars, lvars
    <3> QED BY <1>t, <2>1, <3>1 DEF RunInv, Done
  <2>3. CASE ClaimFails(r) \/ FinalizeFails(r) \/ ResolveFails(r) \/ StepFails(r)
    <3>1. Leave(r) /\ r \notin accepted' /\ (r \in dup' => giga' # "")
      BY <1>t, <2>1, <2>3 DEF ClaimFails, FinalizeFails, ResolveFails, StepFails, At,
                              RunInv, evars
    <3> QED BY <3>1, RunInvLeft
  <2> QED BY <1>7, <2>2, <2>3 DEF Failure
<1> QED BY <1>1, <1>2, <1>3, <1>4, <1>5, <1>6, <1>7 DEF GMine

\* A terminal status reaches the row only from a progress RMS still shows.
LEMMA CompletionStep ==
  ASSUME TypeInv, TruthInv, [GNext]_allvars
  PROVE  CompletionProven'
<1>s. Stable /\ (ledger[CloseKey].status \in Applied => ledger'[CloseKey].status \in Applied)
  BY StableStep, LedgerTrueStep DEF TruthInv
<1>c. /\ row.closed => rms = "500" /\ ledger[CloseKey].status \in Applied
      /\ row.status \in {"COMPLETED", "CANCELED"} => row.status = StatusOf[rms]
      /\ row \in SalesRow /\ rms \in Progress
  BY DEF TruthInv, CompletionProven, TypeInv, GTypeOK, TypeOK
<1>r. row.status \in {"COMPLETED", "CANCELED"} => rms' = rms
  BY <1>s, <1>c, ProgressFacts DEF Stable
<1>1. CASE row' = row
  BY <1>s, <1>c, <1>r, <1>1 DEF CompletionProven, Stable
<1>2. ASSUME NEW r \in Run, Mine(r) PROVE CompletionProven'
  <2>t. RunInv(r) /\ RunType(r) /\ rms' = rms
    BY <1>2, EnvStep DEF TypeInv, TruthInv
  <2>1. CASE \E f \in BOOLEAN, s \in {row.result, "confirmed"} :
                row' = [row EXCEPT !.flag = f, !.result = s]
    <3>1. row'.closed = row.closed /\ row'.status = row.status
      BY <1>c, <2>1 DEF SalesRow
    <3> QED BY <1>s, <1>c, <2>t, <3>1 DEF CompletionProven
  <2>2. CASE /\ pc[r] = "store" /\ cur[r] = CloseKey
             /\ row' = [row EXCEPT !.status = "COMPLETED", !.prog = "500", !.closed = TRUE]
    <3>1. rms = "500" /\ ledger[CloseKey].status \in Applied
      BY <2>t, <2>2 DEF RunInv
    <3>2. row'.status = "COMPLETED"
      BY <1>c, <2>2 DEF SalesRow
    <3> QED BY <1>s, <2>t, <3>1, <3>2, ProgressFacts DEF CompletionProven
  <2>3. CASE /\ pc[r] \in {"cas", "write", "evidence"}
             /\ \E s \in {row.status, StatusOf[seen[r]]} :
                  row' = [row EXCEPT !.status = s, !.prog = seen[r]]
    <3>1. row'.closed = row.closed /\ row'.status \in {row.status, StatusOf[seen[r]]}
      BY <1>c, <2>3 DEF SalesRow
    <3>2. seen[r] \in Progress
      BY <2>t, <2>3 DEF RunType
    <3>3. StatusOf[seen[r]] \in {"COMPLETED", "CANCELED"} => rms = seen[r]
      BY <2>t, <3>2, ProgressFacts DEF RunInv
    <3> QED BY <1>s, <1>c, <2>t, <3>1, <3>3 DEF CompletionProven
  <2>4. CASE /\ pc[r] = "request"
             /\ row' = [row EXCEPT !.status = PortalNext[snap[r].status], !.result = "requested"]
    <3>1. PortalNext[snap[r].status] \notin {"COMPLETED", "CANCELED"}
      BY <2>t, <2>4, PortalFacts DEF RunType
    <3>2. row'.closed = row.closed /\ row'.status = PortalNext[snap[r].status]
      BY <1>c, <2>4 DEF SalesRow
    <3> QED BY <1>s, <1>c, <2>t, <3>1, <3>2 DEF CompletionProven
  <2> QED BY <1>1, <1>2, <2>1, <2>2, <2>3, <2>4, RowMoves DEF RowStep
<1> QED BY <1>1, <1>2, ElsewhereKeeps, GNextCases, GMineMine

LEMMA TruthNext == TypeInv /\ TruthInv /\ [GNext]_allvars => TruthInv'
<1> SUFFICES ASSUME TypeInv, TruthInv, [GNext]_allvars PROVE TruthInv'
  OBVIOUS
<1>s. Stable
  BY StableStep DEF TruthInv
<1>1. RmsInv' /\ LedgerTrue' /\ CompletionProven'
  BY <1>s, LedgerTrueStep, CompletionStep DEF Stable
<1>2. proj'.status \in Pushed => giga' # ""
  <2>0. (proj.status \in Pushed => giga # "") /\ (giga # "" => giga' # "")
    BY <1>s DEF TruthInv, Stable
  <2>1. ASSUME NEW r \in Run, GMine(r) PROVE proj'.status \in Pushed => giga' # ""
    <3>1. proj \in [status : SyncStatus, payload : GigaKey] /\ RunInv(r)
      BY DEF TypeInv, GTypeOK, TruthInv
    <3>2. CASE \E s \in {"INVALID", "ATTEMPTED", "ERROR"} : proj' = [proj EXCEPT !.status = s]
      BY <3>1, <3>2 DEF Pushed
    <3>3. CASE pc[r] \in {"synced", "exists"}
      BY <2>0, <3>1, <3>3 DEF RunInv
    <3>4. CASE proj' = proj \/ proj' = [proj EXCEPT !.payload = cur[r]]
      BY <2>0, <3>1, <3>4
    <3> QED BY <2>1, <3>2, <3>3, <3>4, ProjStep
  <2>2. CASE proj' = proj
    BY <2>0, <2>2
  <2> QED BY <2>1, <2>2, ElsewhereKeeps, GNextCases
<1>3. ASSUME NEW q \in Run PROVE RunInv(q)'
  <2>1. ASSUME NEW r \in Run, GMine(r) PROVE RunInv(q)'
    <3>1. CASE q = r
      BY <2>1, <3>1, RunInvStep
    <3>2. CASE q # r
      <4>1. UNCHANGED <<pc[q], cur[q], seen[q], snap[q], note[q]>>
        BY <2>1, <3>2, GMineMine, MineMoved, Others
      <4>2. (q \in accepted' => q \in accepted) /\ (q \in dup' => q \in dup)
        BY <2>1, GMineMine, EnvStep, ProjStep
      <4> QED BY <4>1, <4>2, RunInvFrame
    <3> QED BY <3>1, <3>2
  <2>2. ASSUME NEW r \in Run, NEW k \in GigaKey, GigaProcess(r, k) PROVE RunInv(q)'
    <3>1. UNCHANGED <<pc[q], cur[q], seen[q], note[q]>>
      BY <2>2 DEF GigaProcess, rvars
    <3>2. q \in accepted' => q \in accepted \/ (pc[q] \in {"wait", "response"} /\ Done(cur[q])')
      <4>1. CASE /\ giga' = k
                 /\ accepted' = IF At(r, "response") /\ cur[r] = k THEN accepted \cup {r}
                                                                   ELSE accepted
        <5>1. Done(k)'
          BY <4>1, KeyFacts DEF Done
        <5> HIDE DEF Done
        <5> QED BY <3>1, <4>1, <5>1 DEF At
      <4>2. CASE accepted' = accepted
        BY <4>2
      <4> QED BY <2>2, <4>1, <4>2 DEF GigaProcess
    <3>3. q \in dup' => q \in dup \/ giga' # ""
      BY <2>2, KeyFacts DEF GigaProcess
    <3> QED BY <3>1, <3>2, <3>3, RunInvFrame
  <2>3. CASE Edit \/ UNCHANGED allvars
    <3>1. UNCHANGED <<pc[q], cur[q], seen[q], note[q]>> /\ UNCHANGED <<accepted, dup>>
      BY <2>3 DEF Edit, allvars, vars, evars, rvars, gvars
    <3> QED BY <3>1, RunInvFrame
  <2>4. CASE Outside /\ UNCHANGED gvars
    <3>1. UNCHANGED <<pc[q], cur[q], seen[q], note[q]>> /\ UNCHANGED dup
      BY <2>4 DEF Outside, RmsMoves, Process, rvars, gvars
    <3>2. q \in accepted' => q \in accepted \/ (pc[q] \in {"wait", "response"} /\ Done(cur[q])')
      <4>1. CASE RmsMoves
        BY <4>1 DEF RmsMoves
      <4>2. ASSUME NEW r \in Run, NEW k \in {ConfirmKey, CloseKey}, Process(r, k)
            PROVE  q \in accepted' => q \in accepted
                     \/ (pc[q] \in {"wait", "response"} /\ Done(cur[q])')
        <5>1. CASE accepted' = accepted
          BY <5>1
        <5>2. CASE /\ confirmed' = (confirmed \/ k = ConfirmKey)
                   /\ shipped' = (shipped \/ k = CloseKey)
                   /\ accepted' = IF At(r, "wait") /\ cur[r] = k THEN accepted \cup {r}
                                                                 ELSE accepted
          <6>1. Done(k)'
            BY <5>2, KeyFacts DEF Done
          <6> HIDE DEF Done
          <6> QED BY <3>1, <5>2, <6>1 DEF At
        <5> QED BY <4>2, <5>1, <5>2 DEF Process
      <4> QED BY <2>4, <4>1, <4>2 DEF Outside
    <3> QED BY <3>1, <3>2, RunInvFrame
  <2> QED BY <2>1, <2>2, <2>3, <2>4, GNextCases
<1> QED BY <1>1, <1>2, <1>3 DEF TruthInv

LEMMA TruthInit == GInit => TruthInv
<1> SUFFICES ASSUME GInit PROVE TruthInv
  OBVIOUS
<1>0. Init /\ giga = "" /\ proj.status = "PENDING" /\ dup = {}
  BY DEF GInit
<1>1. rms \in {"100", "300"} /\ confirmed = (rms = "300")
  BY <1>0, StartsAssumption DEF Init
<1>2. RmsInv
  BY <1>1 DEF RmsInv
<1>3. LedgerTrue
  BY <1>0, KeyFacts DEF Init, LedgerInit, LedgerTrue, Applied
<1>4. CompletionProven
  <2>1. row.closed = FALSE /\ row.status = StatusOf[rms]
    BY <1>0 DEF Init
  <2> QED BY <2>1 DEF CompletionProven
<1>5. ASSUME NEW r \in Run PROVE RunInv(r)
  BY <1>0 DEF Init, RunInv
<1> QED BY <1>0, <1>2, <1>3, <1>4, <1>5 DEF TruthInv, Pushed

LEMMA TruthInvariant == GSpec => []TruthInv
<1> QED BY TypeInvariant, TruthInit, TruthNext, PTL DEF GSpec

\* A confirmation, a close or a push that the ledger or the shipment row
\* records as applied did happen at RMS or GIGA, whatever was lost, stale or
\* done twice (runRakutenConfirmOperations, closeRakutenOrders, runSync).
THEOREM AppliedCorrect == GSpec => []AppliedIsTrue
<1> QED BY TypeInvariant, TruthInvariant, TruthGives, PTL

\* No stale patch, portal request, accepted call or resolution completes or
\* cancels the sales row ahead of RMS, and a completed close is one the
\* ledger accounts for (complete_rakuten_order_close).
THEOREM CompletionCorrect == GSpec => []CompletionProven
<1>1. TruthInv => CompletionProven
  BY DEF TruthInv
<1> QED BY <1>1, TruthInvariant, PTL

-----------------------------------------------------------------------------
(* The ledger hands out submission permits.                                *)

\* Invocations that won the claim of k and have not made its call yet.
Holding == {"execute", "attempt", "create"}
Holders(k) == {r \in Run : pc[r] \in Holding /\ cur[r] = k}

\* The permits of k: won claims not yet acted on, and the claim still open.
PermitsOf(k) == Cardinality(Holders(k)) + Bit(ledger[k].status \in Free)

Permits == INSTANCE SubmissionPermits
  WITH permits <- [k \in Key |-> PermitsOf(k)], granted <- released, calls <- calls

LEMMA HoldersFinite ==
  ASSUME NEW k \in Key
  PROVE  /\ IsFiniteSet(Holders(k)) /\ Cardinality(Holders(k)) \in Nat
         /\ PermitsOf(k) \in Nat
         /\ ledger[k].status \in Free => PermitsOf(k) > 0
<1>1. Holders(k) \subseteq Run
  BY DEF Holders
<1>2. IsFiniteSet(Holders(k))
  BY <1>1, FS_Subset, RunAssumption
<1>3. Cardinality(Holders(k)) \in Nat
  BY <1>2, FS_CardinalityType
<1> QED BY <1>2, <1>3 DEF PermitsOf, Bit

\* The steps of SubmissionPermits, seen through the refinement mapping.
LEMMA MapStutter ==
  ASSUME \A j \in Key : PermitsOf(j)' = PermitsOf(j), UNCHANGED <<released, calls>>
  PROVE  UNCHANGED Permits!pvars
BY DEF Permits!pvars

LEMMA MapLose ==
  ASSUME NEW k \in Key, PermitsOf(k) > 0, PermitsOf(k)' = PermitsOf(k) - 1,
         \A j \in Key \ {k} : PermitsOf(j)' = PermitsOf(j),
         UNCHANGED <<released, calls>>
  PROVE  Permits!PNext
<1>1. Permits!Lose(k)
  BY DEF Permits!Lose
<1> QED BY <1>1 DEF Permits!PNext

LEMMA MapSubmit ==
  ASSUME NEW k \in Key, PermitsOf(k) > 0, PermitsOf(k)' = PermitsOf(k) - 1,
         \A j \in Key \ {k} : PermitsOf(j)' = PermitsOf(j),
         calls' = [calls EXCEPT ![k] = @ + 1], UNCHANGED released
  PROVE  Permits!PNext
<1>1. Permits!Submit(k)
  BY DEF Permits!Submit
<1> QED BY <1>1 DEF Permits!PNext

LEMMA MapAuthorise ==
  ASSUME NEW k \in Key, PermitsOf(k)' = PermitsOf(k) + 1,
         \A j \in Key \ {k} : PermitsOf(j)' = PermitsOf(j),
         released' = [released EXCEPT ![k] = @ + 1], UNCHANGED calls
  PROVE  Permits!PNext
<1>1. Permits!Authorise(k)
  BY DEF Permits!Authorise
<1> QED BY <1>1 DEF Permits!PNext

\* Only a won claim closes a key, only a NOT_APPLIED resolution reopens one.
LEMMA LedgerFree ==
  ASSUME LedgerTypeOK, NEW k \in Key
  PROVE  /\ \A r : Claim(k, r) =>
              /\ UNCHANGED released
              /\ \A j \in Key \ {k} : ledger'[j] = ledger[j]
              /\ IF Claimable(k) THEN ledger'[k].status \notin Free
                                 ELSE ledger' = ledger
         /\ \A r, s : Finalize(k, r, s) =>
              /\ UNCHANGED released
              /\ \A j \in Key : ledger'[j].status \in Free <=> ledger[j].status \in Free
         /\ \A e : Resolve(k, e, "APPLIED") =>
              /\ UNCHANGED released
              /\ \A j \in Key : ledger'[j].status \in Free <=> ledger[j].status \in Free
         /\ \A e : Resolve(k, e, "NOT_APPLIED") =>
              \/ UNCHANGED lvars
              \/ /\ released' = [released EXCEPT ![k] = @ + 1]
                 /\ ledger[k].status \notin Free /\ ledger'[k].status \in Free
                 /\ \A j \in Key \ {k} : ledger'[j] = ledger[j]
<1> USE DEF LedgerTypeOK, Row, Free
<1>1. ASSUME NEW r, Claim(k, r)
      PROVE  /\ UNCHANGED released
             /\ \A j \in Key \ {k} : ledger'[j] = ledger[j]
             /\ IF Claimable(k) THEN ledger'[k].status \notin Free
                                ELSE ledger' = ledger
  BY <1>1 DEF Claim
<1>2. ASSUME NEW r, NEW s, Finalize(k, r, s)
      PROVE  /\ UNCHANGED released
             /\ \A j \in Key : ledger'[j].status \in Free <=> ledger[j].status \in Free
  BY <1>2 DEF Finalize, Owns, Terminal, Applied
<1>3. ASSUME NEW e, Resolve(k, e, "APPLIED")
      PROVE  /\ UNCHANGED released
             /\ \A j \in Key : ledger'[j].status \in Free <=> ledger[j].status \in Free
  BY <1>3 DEF Resolve, Resolvable, Open, lvars
<1>4. ASSUME NEW e, Resolve(k, e, "NOT_APPLIED")
      PROVE  \/ UNCHANGED lvars
             \/ /\ released' = [released EXCEPT ![k] = @ + 1]
                /\ ledger[k].status \notin Free /\ ledger'[k].status \in Free
                /\ \A j \in Key \ {k} : ledger'[j] = ledger[j]
  BY <1>4 DEF Resolve, Resolvable, Open
<1> QED BY <1>1, <1>2, <1>3, <1>4

\* An invocation holds a permit only by winning the claim of its key, and
\* keeps it only for that key.
LEMMA HoldingStep ==
  ASSUME TypeInv, NEW r \in Run, Mine(r), pc'[r] \in Holding
  PROVE  /\ cur'[r] = cur[r]
         /\ \/ pc[r] \in Holding
            \/ pc[r] \in {"claim", "gclaim"} /\ Claim(cur[r], r) /\ Claimable(cur[r])
<1> USE DEF Holding, At
<1>0. ~Leave(r)
  BY Left
<1>1. CASE Start(r) \/ (\E k \in GigaKey : OperatorReads(r, k, giga # ""))
  BY <1>1, Went DEF Start, ConfirmFind, CloseFind, LifecycleList, IngestFetch, PortalReads,
              OperatorReads
<1>2. CASE Continue(r)
  <2>1. CASE ClaimCall(r)
    <3>1. Goto(r, "store") \/ Goto(r, "finalize") \/ Goto(r, "resolve") => FALSE
      BY Went
    <3>2. (ConfirmClaimed(r) \/ CloseClaimed(r)) /\ Claim(cur[r], r) /\ pc[r] = "claim"
      BY <2>1 DEF ClaimCall
    <3>3. Claimable(cur[r]) /\ cur' = cur
      BY <1>0, <3>1, <3>2 DEF ConfirmClaimed, CloseClaimed, Claimable
    <3> QED BY <3>2, <3>3
  <2>2. CASE MarkInProgress(r) \/ Execute(r) \/ RelayOk(r) \/ RelayFails(r) \/ ReadBack(r)
    BY <2>2, Went DEF MarkInProgress, Execute, RelayOk, RelayFails, ReadBack
  <2>3. CASE ClosePreflight(r) \/ FinalizeCall(r) \/ ResolveCall(r) \/ LifecycleFetch(r)
             \/ IngestList(r)
    BY <1>0, <2>3, Went DEF ClosePreflight, FinalizeCall, ResolveCall, LifecycleFetch, IngestList
  <2>4. CASE ResetStuck(r) \/ StoreConfirmed(r) \/ StoreClosed(r) \/ IngestWrite(r)
             \/ PortalPatches(r) \/ OperatorResolves(r)
    BY <1>0, <2>4 DEF ResetStuck, StoreConfirmed, StoreClosed, IngestWrite, PortalPatches,
                      OperatorResolves
  <2> QED BY <1>2, <2>1, <2>2, <2>3, <2>4 DEF Continue
<1>3. CASE Failure(r) \/ LifecycleCas(r) \/ Crash(r)
  <2>1. \E k \in Key : CallLost(r, k)
    BY <1>0, <1>3 DEF Failure, ClaimFails, FinalizeFails, ResolveFails, StepFails,
                      LifecycleCas, Crash
  <2> QED BY <2>1 DEF CallLost, rvars
<1>4. CASE Push(r)
  <2>1. CASE PushClaim(r)
    <3>1. ~Goto(r, "exists") /\ PushClaimed(r) /\ Claim(cur[r], r) /\ pc[r] = "gclaim"
      BY <2>1, Went DEF PushClaim
    <3> QED BY <1>0, <3>1 DEF PushClaimed
  <2>2. CASE Attempt(r)
    BY <2>2 DEF Attempt
  <2>3. CASE ProjectorReads(r) \/ Collect(r) \/ Create(r) \/ Response(r) \/ AttemptFails(r)
    BY <2>3, Went DEF ProjectorReads, Collect, Create, Response, AttemptFails
  <2>4. CASE Project(r) \/ AbortPush(r) \/ Progressed(r) \/ PushClaimFails(r)
             \/ Recheck(r) \/ ProgressFails(r)
    BY <1>0, <2>4, Went DEF Project, AbortPush, Progressed, PushClaimFails, Recheck,
                            ProgressFails
  <2>5. CASE PushFinalize(r) \/ PushFinalizeFails(r)
    <3>1. \A l : Goto(r, l) => l \in Holding
      BY Went
    <3>2. pc[r] = "gfinalize" /\ note[r] \in Terminal
      BY <2>5 DEF PushFinalize, PushFinalizeFails, TypeInv, RunType
    <3>3. AfterFinalize[note[r]] \notin Holding
      BY <3>2 DEF AfterFinalize
    <3>4. PushFinalizeFails(r) /\ pc' = pc
      BY <1>0, <2>5, <3>1, <3>3 DEF PushFinalize, PushFinalizeFails
    <3> QED BY <3>2, <3>4
  <2> QED BY <1>4, <2>1, <2>2, <2>3, <2>4, <2>5 DEF Push
<1> QED BY <1>1, <1>2, <1>3, <1>4 DEF Mine

\* Which invocations hold a permit after a step of r.
LEMMA HoldersStep ==
  ASSUME TypeInv, NEW r \in Run, Mine(r), NEW k \in Key
  PROVE  /\ pc[r] \notin Holding /\ pc'[r] \notin Holding => Holders(k)' = Holders(k)
         /\ cur[r] # k => Holders(k)' = Holders(k)
         /\ pc[r] \in Holding /\ pc'[r] \in Holding => Holders(k)' = Holders(k)
         /\ cur[r] = k /\ pc[r] \in Holding /\ pc'[r] \notin Holding
              => Cardinality(Holders(k))' = Cardinality(Holders(k)) - 1
                 /\ Cardinality(Holders(k)) > 0
         /\ cur[r] = k /\ pc[r] \notin Holding /\ pc'[r] \in Holding
              => Cardinality(Holders(k))' = Cardinality(Holders(k)) + 1
<1>q. \A q \in Run \ {r} : UNCHANGED <<pc[q], cur[q]>>
  BY MineMoved, Others
<1>h. pc'[r] \in Holding => cur'[r] = cur[r]
  BY HoldingStep
<1>1. ASSUME pc[r] \notin Holding, pc'[r] \notin Holding PROVE Holders(k)' = Holders(k)
  BY <1>q, <1>1 DEF Holders
<1>2. ASSUME cur[r] # k PROVE Holders(k)' = Holders(k)
  BY <1>q, <1>h, <1>2 DEF Holders
<1>3. ASSUME pc[r] \in Holding, pc'[r] \in Holding PROVE Holders(k)' = Holders(k)
  BY <1>q, <1>h, <1>3 DEF Holders
<1>4. ASSUME cur[r] = k, pc[r] \in Holding, pc'[r] \notin Holding
      PROVE  /\ Cardinality(Holders(k))' = Cardinality(Holders(k)) - 1
             /\ Cardinality(Holders(k)) > 0
  <2>1. Holders(k)' = Holders(k) \ {r} /\ r \in Holders(k)
    BY <1>q, <1>4 DEF Holders
  <2>2. /\ Cardinality(Holders(k) \ {r}) = Cardinality(Holders(k)) - 1
        /\ Cardinality(Holders(k) \ {r}) \in Nat
    BY <2>1, HoldersFinite, FS_RemoveElement, FS_CardinalityType
  <2> QED BY <2>1, <2>2, HoldersFinite
<1>5. ASSUME cur[r] = k, pc[r] \notin Holding, pc'[r] \in Holding
      PROVE  Cardinality(Holders(k))' = Cardinality(Holders(k)) + 1
  <2>1. Holders(k)' = Holders(k) \cup {r} /\ r \notin Holders(k)
    BY <1>q, <1>h, <1>5 DEF Holders
  <2> QED BY <2>1, HoldersFinite, FS_AddElement
<1> QED BY <1>1, <1>2, <1>3, <1>4, <1>5

\* A step of an invocation keeps the permits, loses one, submits on one, or
\* is the operator's NOT_APPLIED.
LEMMA RefineRun ==
  ASSUME TypeInv, NEW r \in Run, Mine(r)
  PROVE  Permits!PNext \/ UNCHANGED Permits!pvars
<1>c. PICK k \in Key : k = cur[r]
  BY DEF TypeInv, GTypeOK, TypeOK
<1>k. LedgerTypeOK /\ CloseKey \in Key
  BY KeyFacts DEF TypeInv, GTypeOK, TypeOK
<1>1. CASE pc[r] \in Holding
  <2>1. UNCHANGED <<ledger, released>>
    BY <1>1, LedgerStep DEF Holding, lvars
  <2>2. CASE pc'[r] \in Holding
    <3>1. calls' = calls
      BY <2>2, EnvStep DEF Holding
    <3>2. \A j \in Key : PermitsOf(j)' = PermitsOf(j)
      BY <1>1, <2>1, <2>2, HoldersStep DEF PermitsOf
    <3> QED BY <2>1, <3>1, <3>2, MapStutter
  <2>3. CASE pc'[r] \notin Holding
    <3>1. \A j \in Key \ {k} : PermitsOf(j)' = PermitsOf(j)
      BY <1>c, <2>1, HoldersStep DEF PermitsOf
    <3>2. PermitsOf(k) > 0 /\ PermitsOf(k)' = PermitsOf(k) - 1
      <4>1. /\ Cardinality(Holders(k))' = Cardinality(Holders(k)) - 1
            /\ Cardinality(Holders(k)) > 0
        BY <1>c, <1>1, <2>3, HoldersStep
      <4>2. /\ Bit(ledger[k].status \in Free)' = Bit(ledger[k].status \in Free)
            /\ Bit(ledger[k].status \in Free) \in {0, 1}
        BY <2>1 DEF Bit
      <4> QED BY <4>1, <4>2, HoldersFinite DEF PermitsOf
    <3>3. calls' = calls \/ calls' = [calls EXCEPT ![k] = @ + 1]
      BY <1>c, EnvStep
    <3> QED BY <2>1, <3>1, <3>2, <3>3, MapLose, MapSubmit
  <2> QED BY <2>2, <2>3
<1>2. CASE pc[r] \notin Holding
  <2>1. calls' = calls
    BY <1>2, EnvStep DEF Holding
  <2>2. CASE pc'[r] \in Holding
    <3>1. Claim(k, r) /\ Claimable(k)
      BY <1>c, <1>2, <2>2, HoldingStep
    <3>2. /\ UNCHANGED released /\ ledger'[k].status \notin Free
          /\ \A j \in Key \ {k} : ledger'[j] = ledger[j]
      BY <1>k, <3>1, LedgerFree
    <3>3. Cardinality(Holders(k))' = Cardinality(Holders(k)) + 1
      BY <1>c, <1>2, <2>2, HoldersStep
    <3>4. PermitsOf(k)' = PermitsOf(k)
      BY <3>1, <3>2, <3>3, HoldersFinite DEF PermitsOf, Bit, Claimable
    <3>5. \A j \in Key \ {k} : PermitsOf(j)' = PermitsOf(j)
      BY <1>c, <3>2, HoldersStep DEF PermitsOf, Bit
    <3> QED BY <2>1, <3>2, <3>4, <3>5, MapStutter
  <2>3. CASE pc'[r] \notin Holding
    <3>h. \A j \in Key : Holders(j)' = Holders(j)
      BY <1>2, <2>3, HoldersStep
    <3>s. ASSUME UNCHANGED released,
                 \A j \in Key : ledger'[j].status \in Free <=> ledger[j].status \in Free
          PROVE  UNCHANGED Permits!pvars
      BY <2>1, <3>h, <3>s, MapStutter DEF PermitsOf, Bit
    <3>1. CASE UNCHANGED lvars
      BY <3>s, <3>1 DEF lvars
    <3>2. CASE Claim(cur[r], r)
      <4>1. CASE ~Claimable(k)
        BY <1>c, <1>k, <3>s, <3>2, <4>1, LedgerFree
      <4>2. CASE Claimable(k)
        <5>1. /\ UNCHANGED released /\ ledger'[k].status \notin Free
              /\ \A j \in Key \ {k} : ledger'[j] = ledger[j]
          BY <1>c, <1>k, <3>2, <4>2, LedgerFree
        <5>2. PermitsOf(k) > 0 /\ PermitsOf(k)' = PermitsOf(k) - 1
          BY <4>2, <5>1, <3>h, HoldersFinite DEF Claimable, PermitsOf, Bit
        <5>3. \A j \in Key \ {k} : PermitsOf(j)' = PermitsOf(j)
          BY <5>1, <3>h DEF PermitsOf, Bit
        <5> QED BY <2>1, <5>1, <5>2, <5>3, MapLose
      <4> QED BY <4>1, <4>2
    <3>3. CASE Finalize(cur[r], r, note[r])
      BY <1>c, <1>k, <3>s, <3>3, LedgerFree
    <3>4. CASE Resolve(CloseKey, note[r], "APPLIED") \/ Resolve(cur[r], note[r], "APPLIED")
      BY <1>c, <1>k, <3>s, <3>4, LedgerFree
    <3>5. CASE Resolve(cur[r], note[r], "NOT_APPLIED")
      <4>1. CASE UNCHANGED lvars
        BY <3>1, <4>1
      <4>2. CASE /\ released' = [released EXCEPT ![k] = @ + 1]
                 /\ ledger[k].status \notin Free /\ ledger'[k].status \in Free
                 /\ \A j \in Key \ {k} : ledger'[j] = ledger[j]
        <5>1. PermitsOf(k)' = PermitsOf(k) + 1
          BY <3>h, <4>2, HoldersFinite DEF PermitsOf, Bit
        <5>2. \A j \in Key \ {k} : PermitsOf(j)' = PermitsOf(j)
          BY <3>h, <4>2 DEF PermitsOf, Bit
        <5> QED BY <2>1, <4>2, <5>1, <5>2, MapAuthorise
      <4> QED BY <1>c, <1>k, <3>5, <4>1, <4>2, LedgerFree
    <3> QED BY <3>1, <3>2, <3>3, <3>4, <3>5, LedgerStep
  <2> QED BY <2>2, <2>3
<1> QED BY <1>1, <1>2

LEMMA RefineNext == TypeInv /\ [GNext]_allvars => [Permits!PNext]_(Permits!pvars)
<1> SUFFICES ASSUME TypeInv, [GNext]_allvars
             PROVE  Permits!PNext \/ UNCHANGED Permits!pvars
  OBVIOUS
<1>1. CASE UNCHANGED <<ledger, released, calls, row, pc, cur, seen, snap, note, proj>>
  BY <1>1, MapStutter DEF PermitsOf, Holders
<1>2. ASSUME NEW r \in Run, GMine(r) PROVE Permits!PNext \/ UNCHANGED Permits!pvars
  BY <1>2, GMineMine, RefineRun
<1> QED BY <1>1, <1>2, ElsewhereKeeps, GNextCases

LEMMA RefineInit == GInit => Permits!PInit
<1> SUFFICES ASSUME GInit PROVE Permits!PInit
  OBVIOUS
<1>1. ASSUME NEW k \in Key PROVE PermitsOf(k) = 1
  <2>1. Holders(k) = {} /\ ledger[k].status \in Free
    BY <1>1 DEF GInit, Init, Holders, Holding, LedgerInit, Free
  <2> QED BY <2>1, FS_EmptySet DEF PermitsOf, Bit
<1>2. released = [k \in Key |-> 0] /\ calls = [k \in Key |-> 0]
  BY DEF GInit, Init, LedgerInit
<1> QED BY <1>1, <1>2 DEF Permits!PInit

\* Confirmations, closes and pushes share one ledger and together make calls
\* only on a permit: one per operation key, and one more for each NOT_APPLIED
\* resolution (claim_external_operation before every relay and GIGA call).
THEOREM RefinesPermits == GSpec => Permits!PSpec
<1> QED BY TypeInvariant, RefineInit, RefineNext, PTL DEF GSpec, Permits!PSpec

\* The bound on calls, carried through the abstract steps.
CallInv == \A k \in Key : calls[k] + PermitsOf(k) <= released[k] + 1

LEMMA CallNext == TypeInv /\ CallInv /\ [GNext]_allvars => CallInv'
<1> SUFFICES ASSUME TypeInv, TypeInv', CallInv, Permits!PNext \/ UNCHANGED Permits!pvars,
                    NEW k \in Key
             PROVE  calls'[k] + PermitsOf(k)' <= released'[k] + 1
  BY TypeNext, RefineNext DEF CallInv
<1>1. /\ calls[k] \in Nat /\ released[k] \in Nat /\ PermitsOf(k) \in Nat
      /\ calls[k] + PermitsOf(k) <= released[k] + 1
      /\ calls \in [Key -> Nat] /\ released \in [Key -> Nat]
  BY HoldersFinite DEF CallInv, TypeInv, GTypeOK, TypeOK, LedgerTypeOK
<1>2. CASE UNCHANGED Permits!pvars
  <2>1. PermitsOf(k)' = PermitsOf(k) /\ UNCHANGED <<released, calls>>
    BY <1>2 DEF Permits!pvars
  <2> QED BY <1>1, <2>1
<1>3. ASSUME NEW j \in Key, Permits!Submit(j) \/ Permits!Lose(j) \/ Permits!Authorise(j)
      PROVE  calls'[k] + PermitsOf(k)' <= released'[k] + 1
  <2>1. /\ released' = released \/ released' = [released EXCEPT ![j] = @ + 1]
        /\ calls' = calls \/ calls' = [calls EXCEPT ![j] = @ + 1]
    BY <1>3 DEF Permits!Submit, Permits!Lose, Permits!Authorise
  <2>2. CASE j # k
    <3>1. PermitsOf(k)' = PermitsOf(k)
      BY <1>3, <2>2 DEF Permits!Submit, Permits!Lose, Permits!Authorise
    <3> QED BY <1>1, <2>1, <2>2, <3>1
  <2>3. CASE j = k
    <3>1. CASE Permits!Submit(k)
      BY <1>1, <3>1 DEF Permits!Submit
    <3>2. CASE Permits!Lose(k)
      BY <1>1, <3>2 DEF Permits!Lose
    <3>3. CASE Permits!Authorise(k)
      BY <1>1, <3>3 DEF Permits!Authorise
    <3> QED BY <1>3, <2>3, <3>1, <3>2, <3>3
  <2> QED BY <2>2, <2>3
<1> QED BY <1>2, <1>3 DEF Permits!PNext

\* No crash, stuck flag, stale read or second invocation confirms, closes or
\* pushes again what neither the row nor a NOT_APPLIED resolution accounts for.
THEOREM CallsCorrect == GSpec => []EveryCallAccounted
<1>1. GInit => CallInv
  BY RefineInit DEF CallInv, Permits!PInit
<1>2. TypeInv /\ CallInv => EveryCallAccounted
  <2> SUFFICES ASSUME TypeInv, CallInv, NEW k \in Key
               PROVE  calls[k] <= released[k] + Bit(ledger[k].status \notin Free)
    BY DEF EveryCallAccounted
  <2>1. /\ calls[k] \in Nat /\ released[k] \in Nat /\ PermitsOf(k) \in Nat
        /\ calls[k] + PermitsOf(k) <= released[k] + 1
    BY HoldersFinite DEF CallInv, TypeInv, GTypeOK, TypeOK, LedgerTypeOK
  <2>2. CASE ledger[k].status \in Free
    <3>1. PermitsOf(k) > 0
      BY <2>2, HoldersFinite
    <3> QED BY <2>1, <2>2, <3>1 DEF Bit
  <2>3. CASE ledger[k].status \notin Free
    BY <2>1, <2>3 DEF Bit
  <2> QED BY <2>2, <2>3
<1> QED BY <1>1, <1>2, TypeInvariant, CallNext, PTL DEF GSpec
=============================================================================
