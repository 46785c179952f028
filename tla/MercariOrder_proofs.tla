------------------------ MODULE MercariOrder_proofs ------------------------
(***************************************************************************)
(* Proofs about MercariOrder, for any lines, runs and openings:            *)
(*   - type correctness, with the word an invocation carries;              *)
(*   - LabelsHonest, from what a push carries and what GIGA holds;         *)
(*   - DecisionHonoured and AutoApprovalYields, from what stands of the    *)
(*     operator's decision.                                                *)
(***************************************************************************)
EXTENDS MercariOrder, TLAPS

\* The word an invocation carries is one its step can use.
Fits(s, v) ==
  /\ s \in {"backfill", "patch", "cas"} => v.word \in MercariStatus
  /\ s = "rpc" => v.word \in {"AUTO_APPROVED", "APPROVED", "ON_HOLD", "CANCELED"}
  /\ s \in {"settle", "label"} => v.word \in Terminal

JobsTyped ==
  /\ job \in [Run -> JobStep] /\ view \in [Run -> JobView]
  /\ \A r \in Run : Fits(job[r], view[r])

RowsTyped ==
  /\ sales \in [Line -> SalesLine] /\ ship \in [Line -> BoxStatus]
  /\ supplied \in SUBSET Line

HistoryTyped ==
  /\ decision \in {"", "APPROVED", "ON_HOLD", "CANCELED"}
  /\ defied \in BOOLEAN /\ blind \in BOOLEAN /\ reset \in BOOLEAN /\ split \in BOOLEAN

TypeInv ==
  /\ LedgerTypeOK /\ mercari \in MercariStatus /\ lapses \in Nat /\ notices \in Nat
  /\ RowsTyped /\ HistoryTyped /\ JobsTyped

LEMMA TypeInvGives == TypeInv => MTypeOK
BY DEF TypeInv, RowsTyped, HistoryTyped, JobsTyped, MTypeOK

USE DEF Go, Quit, Knows, On, MayStart, OnlyReads, Outer, rows, lvars, history, Lapse

LEMMA BlankTyped ==
  /\ Blank \in JobView
  /\ \A s : s \notin {"backfill", "patch", "cas", "rpc", "settle", "label"} => Fits(s, Blank)
BY DEF Blank, JobView, NoLine, SalesLine, Review, Approved, Word, Fits

(* One invocation takes a step, and the others stay where they are. *)

LEMMA LapsesTyped ==
  ASSUME TypeInv, Lapse \/ UNCHANGED lapses
  PROVE  lapses' \in Nat
BY DEF TypeInv

LEMMA Moves ==
  ASSUME JobsTyped, NEW r \in Run, NEW s \in JobStep, NEW v \in JobView,
         Fits(s, v), Go(r, s), Knows(r, v)
  PROVE  JobsTyped'
BY DEF JobsTyped, Fits

LEMMA Steps ==
  ASSUME JobsTyped, NEW r \in Run, NEW s \in JobStep,
         Fits(s, view[r]), Go(r, s), UNCHANGED view
  PROVE  JobsTyped'
BY DEF JobsTyped, Fits

LEMMA Learns ==
  ASSUME JobsTyped, NEW r \in Run, NEW v \in JobView,
         Fits(job[r], v), UNCHANGED job, Knows(r, v)
  PROVE  JobsTyped'
BY DEF JobsTyped, Fits

LEMMA Quits ==
  ASSUME JobsTyped, NEW r \in Run, Quit(r)
  PROVE  JobsTyped'
<1>1. "idle" \in JobStep
  BY DEF JobStep
<1> QED  BY <1>1, BlankTyped, Moves

LEMMA LedgerTyped ==
  ASSUME TypeInv, NEW k, NEW r \in Run
  PROVE  /\ UNCHANGED lvars => LedgerTypeOK'
         /\ Claim(k, r) => LedgerTypeOK'
         /\ \A s : Finalize(k, r, s) => LedgerTypeOK'
<1>1. UNCHANGED lvars => LedgerTypeOK'
  BY DEF TypeInv, LedgerTypeOK
<1>2. ASSUME Claim(k, r) PROVE LedgerTypeOK'
  BY <1>2 DEF TypeInv, Claim, LedgerTypeOK, Row, Status, Open
<1>3. ASSUME NEW s, Finalize(k, r, s) PROVE LedgerTypeOK'
  BY <1>3 DEF TypeInv, Finalize, LedgerTypeOK, Row, Status, Terminal, Open
<1> QED  BY <1>1, <1>2, <1>3

LEMMA Kept ==
  ASSUME TypeInv
  PROVE  /\ UNCHANGED lvars => LedgerTypeOK'
         /\ UNCHANGED <<rows, supplied>> => RowsTyped'
         /\ UNCHANGED <<decision, defied, blind, reset, split>> => HistoryTyped'
         /\ UNCHANGED notices => notices' \in Nat
         /\ UNCHANGED mercari => mercari' \in MercariStatus
<1>1. UNCHANGED lvars => LedgerTypeOK'
  BY DEF TypeInv, LedgerTypeOK
<1>2. UNCHANGED <<rows, supplied>> => RowsTyped'
  BY DEF TypeInv, RowsTyped
<1>3. UNCHANGED <<decision, defied, blind, reset, split>> => HistoryTyped'
  BY Zenon DEF TypeInv, HistoryTyped
<1> QED  BY <1>1, <1>2, <1>3 DEF TypeInv

\* An action that writes no row and no ledger.
LEMMA Reads ==
  ASSUME TypeInv, JobsTyped', UNCHANGED <<lvars, Outer, rows, supplied, history>>,
         Lapse \/ UNCHANGED lapses
  PROVE  TypeInv'
BY Kept, LapsesTyped DEF TypeInv

\* An action that writes the rows only.
LEMMA Writes ==
  ASSUME TypeInv, JobsTyped', RowsTyped', UNCHANGED <<lvars, Outer, history>>,
         Lapse \/ UNCHANGED lapses
  PROVE  TypeInv'
BY Kept, LapsesTyped DEF TypeInv

LEMMA ViewsTyped ==
  ASSUME TypeInv, NEW r \in Run
  PROVE  /\ view[r] \in JobView /\ Blank \in JobView
         /\ view[r].lines \subseteq Line /\ view[r].left \subseteq Line
         /\ \A S \in SUBSET Line :
              /\ [view[r] EXCEPT !.lines = S] \in JobView
              /\ [view[r] EXCEPT !.left = S] \in JobView
              /\ [Blank EXCEPT !.lines = S] \in JobView
         /\ \A w \in Word : /\ [view[r] EXCEPT !.word = w] \in JobView
                            /\ [Blank EXCEPT !.word = w] \in JobView
         /\ [Blank EXCEPT !.sweep = TRUE] \in JobView
         /\ \A w \in Review : [view[r] EXCEPT !.decided = w] \in JobView
<1>1. view[r] \in JobView /\ Blank \in JobView
  BY BlankTyped DEF TypeInv, JobsTyped
<1> QED  BY <1>1 DEF JobView

LEMMA Fields ==
  ASSUME TypeInv, NEW r \in Run, NEW S
  PROVE  /\ LET v == [view[r] EXCEPT !.left = S]
            IN v.left = S /\ v.lines = view[r].lines /\ v.word = view[r].word
         /\ LET v == [view[r] EXCEPT !.lines = S]
            IN v.lines = S /\ v.left = view[r].left /\ v.word = view[r].word
BY ViewsTyped DEF JobView

LEMMA Quitters ==
  ASSUME TypeInv, NEW r \in Run, Quit(r)
  PROVE  JobsTyped'
BY Quits DEF TypeInv

\* A move to a step that asks nothing of the word.
LEMMA Walks ==
  ASSUME TypeInv, NEW r \in Run, NEW v \in JobView, Knows(r, v),
         NEW s \in JobStep \ {"backfill", "patch", "cas", "rpc", "settle", "label"}, Go(r, s)
  PROVE  JobsTyped'
BY Moves DEF TypeInv, Fits

LEMMA IngestTyped ==
  ASSUME TypeInv, NEW r \in Run, Ingests(r)
  PROVE  TypeInv'
<1>1. CASE IngestReads(r)
  <2>1. [view[r] EXCEPT !.read[Item] = sales[Item]] \in JobView
    BY LineAssumption DEF TypeInv, JobsTyped, RowsTyped, JobView
  <2>2. JobsTyped'
    BY <1>1, <2>1, Walks DEF IngestReads, JobStep
  <2> QED  BY <1>1, <2>2, Reads DEF IngestReads
<1>2. CASE IngestFetches(r)
  <2>1. JobsTyped'
    <3>1. CASE Quit(r)
      BY <3>1, Quitters
    <3>2. CASE Go(r, "backfill") /\ Knows(r, [view[r] EXCEPT !.word = mercari])
      <4>1. mercari \in Word
        BY DEF TypeInv, Word
      <4>2. [view[r] EXCEPT !.word = mercari] \in JobView
        BY <4>1, ViewsTyped
      <4>3. Fits("backfill", [view[r] EXCEPT !.word = mercari])
        BY <4>2, ViewsTyped DEF TypeInv, JobView, Fits
      <4> QED  BY <3>2, <4>2, <4>3, Moves DEF TypeInv, JobStep
    <3>3. CASE Go(r, "rescan") /\ Knows(r, [Blank EXCEPT !.sweep = TRUE])
      BY <3>3, ViewsTyped, Walks DEF JobStep
    <3> QED  BY <1>2, <3>1, <3>2, <3>3 DEF IngestFetches
  <2> QED  BY <1>2, <2>1, Reads DEF IngestFetches
<1>3. CASE IngestBackfills(r)
  <2>2. RowsTyped'
    BY <1>3, LineAssumption DEF TypeInv, IngestBackfills, RowsTyped, SalesLine, Review
  <2>3. JobsTyped'
    <3>1. Fits("patch", view[r])
      BY <1>3 DEF TypeInv, JobsTyped, IngestBackfills, Fits
    <3>2. Go(r, "patch") /\ UNCHANGED view
      BY <1>3 DEF IngestBackfills
    <3> QED  BY <3>1, <3>2, Steps DEF TypeInv, JobStep
  <2>4. HistoryTyped'
    BY <1>3, Zenon DEF TypeInv, HistoryTyped, IngestBackfills
  <2>5. lapses' \in Nat
    BY <1>3, LapsesTyped DEF IngestBackfills
  <2> QED  BY <1>3, <2>2, <2>3, <2>4, <2>5, Kept DEF TypeInv, IngestBackfills
<1>4. CASE IngestPatches(r)
  <2>2. RowsTyped'
    <3>1. view[r].word \in MercariStatus
      BY <1>4 DEF TypeInv, JobsTyped, Fits, IngestPatches
    <3>4. sales' \in [Line -> SalesLine]
      <4>1. CASE UNCHANGED sales
        BY <4>1 DEF TypeInv, RowsTyped
      <4>2. CASE sales' = [sales EXCEPT ![Item].status = view[r].word,
                             ![Item].review = IF view[r].word = "CANCELED" THEN "" ELSE @]
        <5> DEFINE w == view[r].word
        <5>1. w \in MercariStatus /\ sales \in [Line -> SalesLine] /\ Item \in Line
          BY <3>1, LineAssumption DEF TypeInv, RowsTyped
        <5>2. sales' = [sales EXCEPT ![Item].status = w,
                             ![Item].review = IF w = "CANCELED" THEN "" ELSE @]
          BY <4>2
        <5> HIDE DEF w
        <5> QED  BY <5>1, <5>2 DEF SalesLine, Review
      <4> QED  BY <1>4, <4>1, <4>2 DEF IngestPatches
    <3>5. UNCHANGED <<ship, supplied>>
      BY <1>4 DEF IngestPatches
    <3> QED  BY <3>4, <3>5 DEF TypeInv, RowsTyped
  <2>3. JobsTyped'
    <3>1. CASE Quit(r)
      BY <3>1, Quitters
    <3>2. CASE Go(r, "rescan") /\ Knows(r, [Blank EXCEPT !.sweep = TRUE])
      BY <3>2, ViewsTyped, Walks DEF JobStep
    <3> QED  BY <1>4, <3>1, <3>2 DEF IngestPatches
  <2> QED  BY <1>4, <2>2, <2>3, Writes DEF IngestPatches
<1> QED  BY <1>1, <1>2, <1>3, <1>4 DEF Ingests

LEMMA ReconcileTyped ==
  ASSUME TypeInv, NEW r \in Run, Reconciles(r)
  PROVE  TypeInv'
<1>1. CASE StatusLists(r)
  <2> DEFINE open == {l \in Present : sales[l].status # "CANCELED"}
  <2> DEFINE copy == [l \in Line |-> IF l \in open THEN [NoLine EXCEPT !.status = sales[l].status]
                                     ELSE NoLine]
  <2>1. open \subseteq Line
    BY DEF Present
  <2>2. \A l \in Line : [NoLine EXCEPT !.status = sales[l].status] \in SalesLine
    BY DEF NoLine, SalesLine, TypeInv, RowsTyped, Review
  <2>3. copy \in [Line -> SalesLine]
    BY <2>2 DEF NoLine, SalesLine, Review
  <2>4. [Blank EXCEPT !.lines = open, !.read = copy] \in JobView
    <3> HIDE DEF open, copy
    <3> QED  BY <2>1, <2>3, BlankTyped DEF JobView
  <2>5. Go(r, "status") /\ Knows(r, [Blank EXCEPT !.lines = open, !.read = copy])
    BY <1>1 DEF StatusLists
  <2>6. JobsTyped'
    <3> HIDE DEF open, copy
    <3> QED  BY <2>4, <2>5, Walks DEF JobStep
  <2> QED  BY <1>1, <2>6, Reads DEF StatusLists
<1>2. CASE StatusFetches(r)
  <2>1. CASE Quit(r)
    BY <1>2, <2>1, Quitters, Reads DEF StatusFetches
  <2>2. CASE Go(r, "cas") /\ Knows(r, [view[r] EXCEPT !.word = mercari])
    <3>1. mercari \in Word
      BY DEF TypeInv, Word
    <3>2. [view[r] EXCEPT !.word = mercari] \in JobView
      BY <3>1, ViewsTyped
    <3>3. Fits("cas", [view[r] EXCEPT !.word = mercari])
      BY <3>2, ViewsTyped DEF TypeInv, JobView, Fits
    <3>4. JobsTyped'
      BY <2>2, <3>2, <3>3, Moves DEF TypeInv, JobStep
    <3> QED  BY <1>2, <3>4, Reads DEF StatusFetches
  <2> QED  BY <1>2, <2>1, <2>2 DEF StatusFetches
<1>3. CASE StatusCas(r)
  <2>1. JobsTyped'
    BY <1>3, Quitters DEF StatusCas
  <2>2. RowsTyped'
    <3>1. view[r].word \in MercariStatus
      BY <1>3 DEF TypeInv, JobsTyped, Fits, StatusCas
    <3>2. CASE UNCHANGED rows
      BY <1>3, <3>2, Kept DEF StatusCas
    <3>3. CASE ~UNCHANGED rows
      <4>1. sales' \in [Line -> SalesLine]
        <5>1. sales' = [l \in Line |->
                 IF l \notin view[r].lines THEN sales[l]
                 ELSE [status |-> view[r].word,
                       review |-> IF view[r].word = "CANCELED" THEN "" ELSE sales[l].review]]
          BY <1>3, <3>3 DEF StatusCas
        <5>2. \A l \in Line : /\ sales[l] \in SalesLine /\ sales[l].review \in Review
                              /\ "" \in Review
          BY DEF TypeInv, RowsTyped, SalesLine, Review
        <5>3. \A w \in Review : [status |-> view[r].word, review |-> w] \in SalesLine
          BY <3>1 DEF SalesLine
        <5> QED  BY <5>1, <5>2, <5>3
      <4>2. ship' \in [Line -> BoxStatus]
        BY <1>3, <3>3 DEF TypeInv, RowsTyped, BoxStatus, Unsent, StatusCas
      <4> QED  BY <1>3, <4>1, <4>2 DEF TypeInv, RowsTyped, StatusCas
    <3> QED  BY <3>2, <3>3
  <2> QED  BY <1>3, <2>1, <2>2, Writes DEF StatusCas
<1>4. CASE SweepLists(r)
  BY <1>4, ViewsTyped, Walks, Reads DEF SweepLists, JobStep
<1>5. CASE SweepRescans(r)
  <2>1. Reviewed(CanceledLines) \subseteq Line
    BY DEF Reviewed, CanceledLines, Present
  <2>2. [view[r] EXCEPT !.lines = Reviewed(CanceledLines)] \in JobView
    BY <2>1, ViewsTyped
  <2>3. JobsTyped'
    <3>1. CASE Go(r, "catchAll")
      BY <1>5, <2>2, <3>1, Walks DEF SweepRescans, JobStep
    <3>2. CASE Go(r, "shipments")
      BY <1>5, <2>2, <3>2, Walks DEF SweepRescans, JobStep
    <3> QED  BY <1>5, <3>1, <3>2 DEF SweepRescans
  <2> QED  BY <1>5, <2>3, Reads DEF SweepRescans
<1>6. CASE SweepReadsShipments(r)
  <2>1. {l \in Boxes : ship[l] \notin {"INVALID", "ERROR"}} \subseteq Line
    BY DEF Boxes
  <2> QED  BY <1>6, <2>1, ViewsTyped, Walks, Reads DEF SweepReadsShipments, JobStep
<1>7. CASE SweepInvalidates(r)
  <2>1. CASE Go(r, "clear") /\ UNCHANGED <<view, ship>>
    <3>1. JobsTyped'
      BY <2>1, Steps DEF TypeInv, JobStep, Fits
    <3> QED  BY <1>7, <2>1, <3>1, Reads DEF SweepInvalidates
  <2>2. ASSUME NEW l \in view[r].left, ship' = [ship EXCEPT ![l] = "INVALID"],
               Knows(r, [view[r] EXCEPT !.left = @ \ {l}]), UNCHANGED job
        PROVE  TypeInv'
    <3>1. view[r].left \ {l} \subseteq Line
      BY ViewsTyped
    <3>2. JobsTyped'
      BY <1>7, <2>2, <3>1, ViewsTyped, Learns DEF TypeInv, Fits, SweepInvalidates
    <3>3. RowsTyped'
      BY <1>7, <2>2 DEF TypeInv, RowsTyped, BoxStatus, Unsent, SweepInvalidates
    <3> QED  BY <1>7, <3>2, <3>3, Writes DEF SweepInvalidates
  <2> QED  BY <1>7, <2>1, <2>2 DEF SweepInvalidates
<1>8. CASE SweepClears(r)
  <2>1. CASE Quit(r) /\ UNCHANGED sales
    BY <1>8, <2>1, Quitters, Reads DEF SweepClears
  <2>2. CASE Go(r, "catchAll") /\ UNCHANGED view /\ UNCHANGED sales
    <3>1. JobsTyped'
      BY <2>2, Steps DEF TypeInv, JobStep, Fits
    <3> QED  BY <1>8, <2>2, <3>1, Reads DEF SweepClears
  <2>3. ASSUME NEW l \in view[r].lines, sales' = [sales EXCEPT ![l].review = ""],
               Knows(r, [view[r] EXCEPT !.lines = @ \ {l}]), UNCHANGED job
        PROVE  TypeInv'
    <3>1. view[r].lines \ {l} \subseteq Line
      BY ViewsTyped
    <3>2. JobsTyped'
      BY <1>8, <2>3, <3>1, ViewsTyped, Learns DEF TypeInv, Fits, SweepClears
    <3>3. RowsTyped'
      BY <1>8, <2>3, ViewsTyped DEF TypeInv, RowsTyped, SalesLine, Review, SweepClears
    <3> QED  BY <1>8, <3>2, <3>3, Writes DEF SweepClears
  <2> QED  BY <1>8, <2>1, <2>2, <2>3 DEF SweepClears
<1>9. CASE SweepCatchesAll(r)
  <2>1. Reviewed(CanceledLines) \subseteq Line
    BY DEF Reviewed, CanceledLines, Present
  <2> QED  BY <1>9, <2>1, ViewsTyped, Walks, Reads DEF SweepCatchesAll, JobStep
<1> QED  BY <1>1, <1>2, <1>3, <1>4, <1>5, <1>6, <1>7, <1>8, <1>9 DEF Reconciles

LEMMA DecideTyped ==
  ASSUME TypeInv, NEW r \in Run, Decides(r)
  PROVE  TypeInv'
<1>0. ASSUME NEW t \in {"AUTO_APPROVED", "APPROVED", "ON_HOLD", "CANCELED"},
             Go(r, "rpc"), Knows(r, [Blank EXCEPT !.word = t])
      PROVE  JobsTyped'
  <2>1. [Blank EXCEPT !.word = t] \in JobView
    BY ViewsTyped DEF Word, Review, Approved
  <2>2. Fits("rpc", [Blank EXCEPT !.word = t])
    BY <2>1 DEF Fits, Blank
  <2> QED  BY <1>0, <2>1, <2>2, Moves DEF TypeInv, JobStep
<1>1. CASE AutoReads(r)
  BY <1>0, <1>1, Reads DEF AutoReads
<1>2. CASE ReviewReads(r)
  BY <1>0, <1>2, Reads DEF ReviewReads
<1>3. CASE CancelReads(r)
  BY <1>0, <1>3, Reads DEF CancelReads
<1>4. CASE ReviewRpc(r)
  <2>1. view[r].word \in {"AUTO_APPROVED", "APPROVED", "ON_HOLD", "CANCELED"}
    BY <1>4 DEF TypeInv, JobsTyped, Fits, ReviewRpc
  <2>2. JobsTyped'
    <3>1. CASE Quit(r)
      BY <3>1, Quitters
    <3>2. CASE Go(r, "notice") /\ UNCHANGED view
      BY <3>2, Steps DEF TypeInv, JobStep, Fits
    <3> QED  BY <1>4, <3>1, <3>2 DEF ReviewRpc
  <2>3. sales' \in [Line -> SalesLine]
    <3>1. CASE UNCHANGED sales
      BY <3>1 DEF TypeInv, RowsTyped
    <3>2. CASE sales' = [l \in Line |-> IF l \in Present THEN [sales[l] EXCEPT !.review = view[r].word]
                                        ELSE NoLine]
      <4> DEFINE t == view[r].word
      <4>1. t \in Review
        BY <2>1 DEF Review, Approved
      <4>2. \A l \in Line : [sales[l] EXCEPT !.review = t] \in SalesLine
        <5> HIDE DEF t
        <5> QED  BY <4>1 DEF TypeInv, RowsTyped, SalesLine
      <4>3. NoLine \in SalesLine
        BY DEF NoLine, SalesLine, Review
      <4> HIDE DEF t
      <4> QED  BY <3>2, <4>2, <4>3 DEF t
    <3> QED  BY <1>4, <3>1, <3>2 DEF ReviewRpc
  <2>4. decision' \in {"", "APPROVED", "ON_HOLD", "CANCELED"}
    BY <1>4, <2>1 DEF TypeInv, HistoryTyped, ReviewRpc
  <2>5. blind' \in BOOLEAN
    BY <1>4, Zenon DEF TypeInv, HistoryTyped, ReviewRpc
  <2>6. HistoryTyped'
    BY <1>4, <2>4, <2>5, Zenon DEF TypeInv, HistoryTyped, ReviewRpc
  <2>7. RowsTyped'
    BY <1>4, <2>3 DEF TypeInv, RowsTyped, ReviewRpc
  <2> QED  BY <1>4, <2>2, <2>6, <2>7, Kept DEF TypeInv, ReviewRpc
<1>5. CASE Notice(r)
  <2>1. JobsTyped'
    BY <1>5, Quitters DEF Notice
  <2>2. notices' \in Nat
    BY <1>5 DEF TypeInv, Notice
  <2> QED  BY <1>5, <2>1, <2>2, Kept DEF TypeInv, Notice
<1>6. CASE LineReads(r)
  <2>1. PICK l \in Line \ Present :
               Knows(r, [Blank EXCEPT !.lines = {l}, !.read[Item] = sales[Item]])
    BY <1>6 DEF LineReads
  <2>2. [Blank EXCEPT !.lines = {l}, !.read[Item] = sales[Item]] \in JobView
    BY BlankTyped, LineAssumption DEF TypeInv, RowsTyped, JobView
  <2>3. JobsTyped'
    BY <1>6, <2>1, <2>2, Walks DEF LineReads, JobStep
  <2> QED  BY <1>6, <2>3, Reads DEF LineReads
<1>7. CASE LineInserts(r)
  <2>1. JobsTyped'
    BY <1>7, Quitters DEF LineInserts
  <2>2. RowsTyped'
    BY <1>7, LineAssumption DEF TypeInv, RowsTyped, JobsTyped, JobView, LineInserts
  <2> QED  BY <1>7, <2>1, <2>2, Writes DEF LineInserts
<1> QED  BY <1>1, <1>2, <1>3, <1>4, <1>5, <1>6, <1>7 DEF Decides

LEMMA SyncTyped ==
  ASSUME TypeInv, NEW r \in Run, Syncs(r)
  PROVE  TypeInv'
<1>1. CASE BoxesList(r)
  <2>1. {l \in Present : sales[l].status = "SHIPPING" /\ sales[l].review \in Approved} \subseteq Line
    BY DEF Present
  <2> QED  BY <1>1, <2>1, ViewsTyped, Walks, Reads DEF BoxesList, JobStep
<1>2. CASE BoxesScan(r)
  <2>1. CASE Quit(r)
    BY <1>2, <2>1, Quitters, Reads DEF BoxesScan
  <2>2. CASE Go(r, "create") /\ Knows(r, [view[r] EXCEPT !.lines = @ \ Boxes])
    <3>1. view[r].lines \ Boxes \subseteq Line
      BY ViewsTyped
    <3> QED  BY <1>2, <2>2, <3>1, ViewsTyped, Walks, Reads DEF BoxesScan, JobStep
  <2> QED  BY <1>2, <2>1, <2>2 DEF BoxesScan
<1>3. CASE BoxesCreate(r)
  <2>1. PICK l \in view[r].lines :
          /\ ship' = [ship EXCEPT ![l] = "PENDING"]
          /\ IF view[r].lines = {l} THEN Quit(r)
             ELSE Knows(r, [view[r] EXCEPT !.lines = @ \ {l}]) /\ UNCHANGED job
    BY <1>3 DEF BoxesCreate
  <2>2. JobsTyped'
    <3>1. view[r].lines \ {l} \subseteq Line
      BY ViewsTyped
    <3>2. Fits(job[r], [view[r] EXCEPT !.lines = @ \ {l}])
      BY <1>3 DEF BoxesCreate, Fits
    <3> QED  BY <2>1, <3>1, <3>2, ViewsTyped, Learns, Quitters DEF TypeInv
  <2>3. RowsTyped'
    BY <1>3, <2>1, ViewsTyped DEF TypeInv, RowsTyped, BoxStatus, Unsent, BoxesCreate
  <2>4. HistoryTyped'
    BY <1>3, Zenon DEF TypeInv, HistoryTyped, BoxesCreate
  <2> QED  BY <1>3, <2>2, <2>3, <2>4, Kept DEF TypeInv, BoxesCreate
<1>4. CASE SyncCollects(r)
  <2>1. PICK due \in Payload : Knows(r, [Blank EXCEPT !.lines = due])
    BY <1>4 DEF SyncCollects
  <2> QED  BY <1>4, <2>1, ViewsTyped, Walks, Reads DEF SyncCollects, Payload, JobStep
<1>5. CASE SyncRechecks(r)
  <2>1. CASE Quit(r)
    BY <1>5, <2>1, Quitters, Reads DEF SyncRechecks
  <2>2. CASE Go(r, "claim") /\ Knows(r, [view[r] EXCEPT !.decided = decision])
    <3>1. decision \in Review
      BY DEF TypeInv, HistoryTyped, Review, Approved
    <3>2. JobsTyped'
      BY <2>2, <3>1, ViewsTyped, Walks DEF JobStep, Pushing
    <3> QED  BY <1>5, <3>2, Reads DEF SyncRechecks
  <2> QED  BY <1>5, <2>1, <2>2 DEF SyncRechecks
<1>6. CASE SyncClaims(r)
  <2>1. LedgerTypeOK'
    BY <1>6, LedgerTyped DEF SyncClaims
  <2>2. JobsTyped'
    <3> DEFINE v == [view[r] EXCEPT !.left = view[r].lines]
    <3> DEFINE w == [v EXCEPT !.word = "ALREADY_APPLIED", !.decided = ""]
    <3>1. v \in JobView
      BY ViewsTyped
    <3>2. w \in JobView /\ w.word = "ALREADY_APPLIED"
      <4> HIDE DEF v
      <4> QED  BY <3>1 DEF JobView, Word, Status, Applied, Review
    <3>3. Fits("label", w)
      BY <3>2 DEF Fits, Terminal, Applied
    <3>4. CASE Go(r, "attempt") /\ Knows(r, v)
      BY <3>1, <3>4, Walks DEF JobStep, Pushing
    <3>5. CASE Go(r, "label") /\ Knows(r, w)
      BY <3>2, <3>3, <3>5, Moves DEF TypeInv, JobStep, Pushing
    <3>6. CASE Quit(r)
      BY <3>6, Quitters
    <3> QED  BY <1>6, <3>4, <3>5, <3>6 DEF SyncClaims
  <2> QED  BY <1>6, <2>1, <2>2, Kept DEF TypeInv, SyncClaims
<1>7. CASE SyncAttempts(r)
  <2>1. PICK l \in view[r].left :
          /\ ship' = [ship EXCEPT ![l] = "ATTEMPTED"]
          /\ Knows(r, [view[r] EXCEPT !.left = @ \ {l}])
          /\ IF view[r].left = {l} THEN Go(r, "send") ELSE UNCHANGED job
    BY <1>7 DEF SyncAttempts
  <2>2. JobsTyped'
    <3>1. view[r].left \ {l} \subseteq Line
      BY ViewsTyped
    <3>2. Fits(job[r], [view[r] EXCEPT !.left = @ \ {l}])
      BY <1>7 DEF SyncAttempts, Fits
    <3> QED  BY <2>1, <3>1, <3>2, ViewsTyped, Learns, Walks DEF TypeInv, JobStep, Pushing
  <2>3. RowsTyped'
    BY <1>7, <2>1, ViewsTyped DEF TypeInv, RowsTyped, BoxStatus, SyncAttempts
  <2> QED  BY <1>7, <2>2, <2>3, Writes DEF SyncAttempts
<1>8. CASE SyncAttemptFails(r)
  <2>1. JobsTyped'
    BY <1>8, Steps DEF TypeInv, Fits, JobStep, Pushing, SyncAttemptFails
  <2> QED  BY <1>8, <2>1, Reads DEF SyncAttemptFails
<1>9. CASE SyncAborts(r)
  <2>1. LedgerTypeOK'
    BY <1>9, LedgerTyped DEF SyncAborts
  <2>2. JobsTyped'
    BY <1>9, Quitters DEF SyncAborts
  <2> QED  BY <1>9, <2>1, <2>2, Kept DEF TypeInv, SyncAborts
<1>10. CASE SyncSends(r)
  <2> DEFINE v == [view[r] EXCEPT !.left = view[r].lines, !.decided = ""]
  <2>1. v \in JobView
    <3>1. "" \in Review
      BY DEF Review
    <3>2. \A x \in JobView, S \in SUBSET Line, w \in Review :
            [x EXCEPT !.left = S, !.decided = w] \in JobView
      BY DEF JobView
    <3> QED  BY <3>1, <3>2, ViewsTyped
  <2>2. PICK w \in Terminal : Knows(r, [v EXCEPT !.word = w])
    BY <1>10 DEF SyncSends, Terminal, Applied
  <2>3. [v EXCEPT !.word = w] \in JobView /\ Fits("settle", [v EXCEPT !.word = w])
    <3> HIDE DEF v
    <3> QED  BY <2>1, <2>2 DEF JobView, Word, Status, Terminal, Open, Fits
  <2>4. JobsTyped'
    <3> HIDE DEF v
    <3>1. Go(r, "settle")
      BY <1>10 DEF SyncSends
    <3> QED  BY <2>2, <2>3, <3>1, Moves DEF TypeInv, JobStep, Pushing
  <2>5. RowsTyped'
    <3>1. supplied' \in SUBSET Line
      BY <1>10, ViewsTyped DEF TypeInv, RowsTyped, SyncSends
    <3> QED  BY <1>10, <3>1 DEF TypeInv, RowsTyped, SyncSends
  <2>6. HistoryTyped'
    BY <1>10, Zenon DEF TypeInv, HistoryTyped, SyncSends
  <2>7. lapses' \in Nat
    BY <1>10, LapsesTyped DEF SyncSends
  <2> QED  BY <1>10, <2>4, <2>5, <2>6, <2>7, Kept DEF TypeInv, SyncSends
<1>11. CASE SyncSettles(r)
  <2>1. LedgerTypeOK'
    BY <1>11, LedgerTyped DEF SyncSettles
  <2>2. JobsTyped'
    <3>1. Fits("label", view[r])
      BY <1>11 DEF TypeInv, JobsTyped, Fits, SyncSettles
    <3>2. CASE Go(r, "label") /\ UNCHANGED view
      BY <3>1, <3>2, Steps DEF TypeInv, JobStep, Pushing
    <3>3. CASE Knows(r, [view[r] EXCEPT !.word = "UNKNOWN_RESULT"]) /\ UNCHANGED job
      <4>1. [view[r] EXCEPT !.word = "UNKNOWN_RESULT"] \in JobView
        BY ViewsTyped DEF Word, Status, Open
      <4>2. Fits(job[r], [view[r] EXCEPT !.word = "UNKNOWN_RESULT"])
        BY <1>11, <4>1, ViewsTyped DEF SyncSettles, Fits, Terminal, JobView
      <4> QED  BY <3>3, <4>1, <4>2, Learns DEF TypeInv
    <3> QED  BY <1>11, <3>2, <3>3 DEF SyncSettles
  <2>3. lapses' \in Nat
    BY <1>11, LapsesTyped DEF SyncSettles
  <2> QED  BY <1>11, <2>1, <2>2, <2>3, Kept DEF TypeInv, SyncSettles
<1>12. CASE SyncLabels(r)
  <2>1. PICK l \in view[r].left :
          /\ ship' = [ship EXCEPT ![l] = LabelOf[view[r].word]]
          /\ IF view[r].left = {l} THEN Quit(r)
             ELSE Knows(r, [view[r] EXCEPT !.left = @ \ {l}]) /\ UNCHANGED job
    BY <1>12 DEF SyncLabels
  <2>2. view[r].word \in Terminal
    BY <1>12 DEF TypeInv, JobsTyped, Fits, SyncLabels
  <2>3. JobsTyped'
    <3>1. view[r].left \ {l} \subseteq Line
      BY ViewsTyped
    <3>2. Fits(job[r], [view[r] EXCEPT !.left = @ \ {l}])
      BY <1>12, <2>2, ViewsTyped DEF SyncLabels, Fits, JobView
    <3> QED  BY <2>1, <3>1, <3>2, ViewsTyped, Learns, Quitters DEF TypeInv
  <2>4. RowsTyped'
    <3>1. LabelOf[view[r].word] \in BoxStatus
      BY <2>2 DEF LabelOf, BoxStatus, Shipped, Unsent
    <3> QED  BY <1>12, <2>1, <3>1 DEF TypeInv, RowsTyped, SyncLabels
  <2> QED  BY <1>12, <2>3, <2>4, Writes DEF SyncLabels
<1>13. CASE SyncLabelFails(r)
  <2> DEFINE v == [view[r] EXCEPT !.word = "UNKNOWN_RESULT", !.left = view[r].lines]
  <2>1. v \in JobView /\ v.word = "UNKNOWN_RESULT"
    <3>1. "UNKNOWN_RESULT" \in Word
      BY DEF Word, Status, Open
    <3> DEFINE w == "UNKNOWN_RESULT"
               x == view[r]
               S == view[r].lines
               y == [x EXCEPT !.word = w, !.left = S]
    <3>2. x \in JobView /\ S \in SUBSET Line /\ w \in Word
      BY <3>1, ViewsTyped
    <3>3. y \in JobView /\ y.word = w
      <4> HIDE DEF w, x, S
      <4> QED  BY <3>2 DEF JobView
    <3> QED  BY <3>3
  <2>2. Fits(job[r], v)
    BY <1>13, <2>1 DEF SyncLabelFails, Fits, Terminal
  <2>3. JobsTyped'
    <3>1. Knows(r, v) /\ UNCHANGED job
      BY <1>13 DEF SyncLabelFails
    <3> HIDE DEF v
    <3> QED  BY <2>1, <2>2, <3>1, Learns DEF TypeInv
  <2> QED  BY <1>13, <2>3, Reads DEF SyncLabelFails
<1> QED  BY <1>1, <1>2, <1>3, <1>4, <1>5, <1>6, <1>7, <1>8, <1>9, <1>10, <1>11, <1>12,
            <1>13 DEF Syncs

LEMMA TypeInit == MInit => TypeInv
<1> SUFFICES ASSUME MInit PROVE TypeInv
  OBVIOUS
<1>1. PICK s \in Openings :
        /\ mercari = s.status /\ lapses = s.lapses
        /\ sales = [l \in Line |->
            IF l # Item THEN NoLine
            ELSE [status |-> s.status,
                  review |-> IF s.status = "SHIPPING" THEN "PENDING_REVIEW" ELSE ""]]
  BY DEF MInit
<1>2. mercari \in MercariStatus /\ lapses \in Nat
  BY <1>1, OpeningAssumption
<1>3. RowsTyped
  BY <1>1, <1>2 DEF MInit, RowsTyped, SalesLine, NoLine, Review, BoxStatus
<1>4. JobsTyped
  BY BlankTyped DEF MInit, JobsTyped, JobStep
<1>5. LedgerTypeOK
  BY DEF MInit, LedgerInit, LedgerTypeOK, Row, Status, Free
<1>6. HistoryTyped
  BY DEF MInit, HistoryTyped
<1> QED  BY <1>2, <1>3, <1>4, <1>5, <1>6 DEF MInit, TypeInv

LEMMA TypeNext == TypeInv /\ [MNext]_<<lvars, mvars>> => TypeInv'
<1> SUFFICES ASSUME TypeInv, [MNext]_<<lvars, mvars>> PROVE TypeInv'
  OBVIOUS
<1>1. ASSUME NEW r \in Run, Breaks(r) PROVE TypeInv'
  BY <1>1, Quitters, Reads DEF Breaks
<1>2. CASE MercariMoves
  <2>1. mercari' \in MercariStatus
    BY <1>2 DEF MercariMoves, MercariStatus
  <2>2. JobsTyped'
    BY <1>2 DEF TypeInv, JobsTyped, MercariMoves
  <2> QED  BY <1>2, <2>1, <2>2, Kept, LapsesTyped DEF TypeInv, MercariMoves
<1>3. CASE UNCHANGED <<lvars, mvars>>
  <2>1. JobsTyped'
    BY <1>3 DEF TypeInv, JobsTyped, mvars
  <2> QED  BY <1>3, <2>1, Reads DEF mvars
<1> QED  BY <1>1, <1>2, <1>3, IngestTyped, ReconcileTyped, DecideTyped, SyncTyped DEF MNext

LEMMA TypeInvariant == MSpec => []TypeInv
BY TypeInit, TypeNext, PTL DEF MSpec

\* Every row, view and history variable keeps its type, whatever overlaps.
THEOREM TypeCorrect == MSpec => []MTypeOK
BY TypeInvariant, TypeInvGives, PTL

-----------------------------------------------------------------------------
(* What an invocation of runSync carries, and what GIGA holds.              *)

Recorded(k) == ledger[k].status # "NONE"

\* Its lines have shipment rows, its claim left a row in the ledger, and a word
\* that says applied is about an order GIGA holds.
PushRun(r) ==
  LET v == view[r]
  IN /\ job[r] \in Pushing \cup {"recheck"} => v.lines \in Payload /\ v.lines \subseteq Boxes
     /\ job[r] \in {"attempt", "settle", "label"} => v.left \subseteq v.lines
     /\ job[r] = "invalidate" => v.left \subseteq Boxes
     /\ job[r] \in Pushing \ {"claim"} => Recorded(v.lines)
     /\ job[r] \in {"settle", "label"} =>
          /\ v.word \in Applied => supplied # {}
          /\ v.word = "CONFIRMED" => v.lines \subseteq supplied

\* An order at GIGA is known to the ledger, and has every line if no push was
\* partial; the ledger and the labels say applied only of such an order.
SupplyInv ==
  /\ supplied # {} => \E k \in Payload : Recorded(k)
  /\ supplied # {} /\ ~split => supplied = Boxes
  /\ \A k \in Payload : ledger[k].status \in Applied => supplied # {}
  /\ LabelsHonest

PushInv == SupplyInv /\ \A r \in Run : PushRun(r)

\* Shipment rows and ledger rows stay, and GIGA keeps the order it has.
Grows ==
  /\ Boxes \subseteq Boxes'
  /\ \A k \in Payload : Recorded(k) => Recorded(k)'
  /\ supplied # {} => supplied' = supplied

LEMMA PushRunKept ==
  ASSUME NEW r \in Run, PushRun(r), Grows, job'[r] = job[r], view'[r] = view[r]
  PROVE  PushRun(r)'
<1>1. view[r].lines \in Payload => view[r].lines # {}
  BY DEF Payload
<1> QED  BY <1>1 DEF PushRun, Grows, Pushing

LEMMA Elsewhere ==
  ASSUME TypeInv, NEW r \in Run, \A q \in Run : PushRun(q), Grows,
         \A q \in Run \ {r} : job'[q] = job[q] /\ view'[q] = view[q],
         PushRun(r)'
  PROVE  \A q \in Run : PushRun(q)'
BY PushRunKept

LEMMA Others ==
  ASSUME TypeInv, NEW r \in Run
  PROVE  /\ (UNCHANGED job \/ \E s : Go(r, s)) => \A q \in Run \ {r} : job'[q] = job[q]
         /\ (UNCHANGED view \/ \E v : Knows(r, v)) => \A q \in Run \ {r} : view'[q] = view[q]
         /\ Quit(r) => \A q \in Run \ {r} : job'[q] = job[q] /\ view'[q] = view[q]
         /\ \A s : Go(r, s) => job'[r] = s
         /\ \A v : Knows(r, v) => view'[r] = v
         /\ Quit(r) => job'[r] = "idle" /\ view'[r] = Blank
BY DEF TypeInv, JobsTyped

\* A step that leads nowhere near a push has nothing to say.
LEMMA Apart ==
  ASSUME NEW r \in Run, job'[r] \notin Pushing \cup {"recheck", "invalidate"}
  PROVE  PushRun(r)'
BY DEF PushRun, Pushing

LEMMA SupplyKept ==
  ASSUME SupplyInv, UNCHANGED <<lvars, supplied, split>>, Boxes' = Boxes,
         \A l \in Line : ship'[l] \in Shipped => ship'[l] = ship[l]
  PROVE  SupplyInv' /\ Grows
BY DEF SupplyInv, LabelsHonest, Recorded, Grows, Shipped

\* A patch of one shipment row that exists.
LEMMA OneBox ==
  ASSUME TypeInv, NEW l \in Boxes, NEW s \in BoxStatus \ {"NONE"},
         ship' = [ship EXCEPT ![l] = s]
  PROVE  /\ Boxes' = Boxes
         /\ \A m \in Line \ {l} : ship'[m] = ship[m]
         /\ ship'[l] = s
BY DEF TypeInv, RowsTyped, Boxes

LEMMA PushApart ==
  ASSUME TypeInv, PushInv, NEW r \in Run,
         UNCHANGED <<lvars, supplied, ship, split>>,
         \A q \in Run \ {r} : job'[q] = job[q] /\ view'[q] = view[q],
         job'[r] \notin Pushing \cup {"recheck", "invalidate"}
  PROVE  PushInv'
<1>1. Boxes' = Boxes
  BY DEF Boxes
<1>2. SupplyInv' /\ Grows
  BY <1>1, SupplyKept DEF PushInv
<1> QED  BY <1>2, Apart, Elsewhere DEF PushInv

LEMMA IngestPush ==
  ASSUME TypeInv, PushInv, NEW r \in Run, Ingests(r)
  PROVE  PushInv'
<1>1. /\ UNCHANGED <<lvars, supplied, ship, split>>
      /\ job'[r] \notin Pushing \cup {"recheck", "invalidate"}
  BY Others DEF Ingests, IngestReads, IngestFetches, IngestBackfills, IngestPatches, Pushing
<1>2. /\ UNCHANGED job \/ \E s : Go(r, s)
      /\ UNCHANGED view \/ \E v : Knows(r, v)
  BY DEF Ingests, IngestReads, IngestFetches, IngestBackfills, IngestPatches
<1> QED  BY <1>1, <1>2, Others, PushApart

LEMMA DecidePush ==
  ASSUME TypeInv, PushInv, NEW r \in Run, Decides(r)
  PROVE  PushInv'
<1> USE DEF AutoReads, ReviewReads, CancelReads, ReviewRpc, Notice, LineReads, LineInserts
<1>1. UNCHANGED <<lvars, supplied, ship, split>>
  BY DEF Decides
<1>0. \E s \in {"rpc", "notice", "insert", "idle"} : Go(r, s)
  BY DEF Decides
<1>3. job'[r] \notin Pushing \cup {"recheck", "invalidate"}
  BY <1>0, Others DEF Pushing
<1>2. /\ \E s : Go(r, s)
      /\ UNCHANGED view \/ \E v : Knows(r, v)
  BY DEF Decides
<1> QED  BY <1>1, <1>2, <1>3, Others, PushApart

LEMMA ReconcilePush ==
  ASSUME TypeInv, PushInv, NEW r \in Run, Reconciles(r)
  PROVE  PushInv'
<1>1. CASE \/ StatusLists(r) \/ StatusFetches(r) \/ SweepLists(r) \/ SweepRescans(r)
           \/ SweepClears(r) \/ SweepCatchesAll(r)
  <2> USE DEF StatusLists, StatusFetches, SweepLists, SweepRescans, SweepClears, SweepCatchesAll
  <2>0. UNCHANGED <<lvars, supplied, ship, split>>
    BY <1>1
  <2>1. job'[r] \notin Pushing \cup {"recheck", "invalidate"}
    <3>1. \/ \E s \in {"idle", "status", "cas", "existing", "catchAll", "shipments", "clearAll"} : Go(r, s)
          \/ UNCHANGED job /\ job[r] \in {"clear", "clearAll"}
      BY <1>1
    <3> QED  BY <3>1, Others DEF Pushing
  <2>2. /\ UNCHANGED job \/ \E s : Go(r, s)
        /\ UNCHANGED view \/ \E v : Knows(r, v)
    BY <1>1
  <2> QED  BY <2>0, <2>1, <2>2, Others, PushApart
<1>2. CASE StatusCas(r)
  <2>1. /\ Boxes' = Boxes
        /\ \A l \in Line : ship'[l] \in Shipped => ship'[l] = ship[l]
    BY <1>2 DEF StatusCas, Boxes, Shipped
  <2>2. SupplyInv' /\ Grows
    BY <1>2, <2>1, SupplyKept DEF StatusCas, PushInv
  <2>3. PushRun(r)'
    BY <1>2, Others, Apart DEF StatusCas, Pushing
  <2> QED  BY <1>2, <2>2, <2>3, Others, Elsewhere DEF StatusCas, PushInv
<1>3. CASE SweepReadsShipments(r)
  <2>1. Boxes' = Boxes
    BY <1>3 DEF SweepReadsShipments, Boxes
  <2>2. SupplyInv' /\ Grows
    BY <1>3, <2>1, SupplyKept DEF SweepReadsShipments, PushInv
  <2>3. view'[r].left \subseteq Boxes
    <3> DEFINE S == {l \in Boxes : ship[l] \notin {"INVALID", "ERROR"}}
    <3>1. S \subseteq Boxes
      OBVIOUS
    <3>2. Knows(r, [view[r] EXCEPT !.left = S])
      BY <1>3 DEF SweepReadsShipments
    <3> HIDE DEF S
    <3>3. view'[r] = [view[r] EXCEPT !.left = S]
      BY <3>2, Others
    <3>4. [view[r] EXCEPT !.left = S].left = S
      BY Fields
    <3> QED  BY <3>1, <3>3, <3>4
  <2>4. PushRun(r)'
    BY <1>3, <2>1, <2>3, Others DEF SweepReadsShipments, PushRun, Pushing
  <2> QED  BY <1>3, <2>2, <2>4, Others, Elsewhere DEF SweepReadsShipments, PushInv
<1>4. CASE SweepInvalidates(r)
  <2>1. CASE Go(r, "clear") /\ UNCHANGED <<view, ship>>
    <3>1. job'[r] \notin Pushing \cup {"recheck", "invalidate"}
      BY <2>1, Others DEF Pushing
    <3> QED  BY <1>4, <2>1, <3>1, Others, PushApart DEF SweepInvalidates
  <2>2. ASSUME NEW l \in view[r].left, ship' = [ship EXCEPT ![l] = "INVALID"],
               Knows(r, [view[r] EXCEPT !.left = @ \ {l}]), UNCHANGED job
        PROVE  PushInv'
    <3>1. view[r].left \subseteq Boxes
      BY <1>4 DEF SweepInvalidates, PushInv, PushRun
    <3>2. /\ Boxes' = Boxes
          /\ \A m \in Line : ship'[m] \in Shipped => ship'[m] = ship[m]
      BY <2>2, <3>1, OneBox DEF BoxStatus, Unsent, Shipped
    <3>3. SupplyInv' /\ Grows
      BY <1>4, <3>2, SupplyKept DEF SweepInvalidates, PushInv
    <3>4. view'[r].left \subseteq Boxes
      BY <2>2, <3>1, Others, Fields
    <3>5. PushRun(r)'
      BY <1>4, <2>2, <3>2, <3>4 DEF SweepInvalidates, PushRun, Pushing
    <3> QED  BY <2>2, <3>3, <3>5, Others, Elsewhere DEF PushInv
  <2> QED  BY <1>4, <2>1, <2>2 DEF SweepInvalidates
<1> QED  BY <1>1, <1>2, <1>3, <1>4 DEF Reconciles

LEMMA BoxesPush ==
  ASSUME TypeInv, PushInv, NEW r \in Run, BoxesList(r) \/ BoxesScan(r) \/ BoxesCreate(r)
  PROVE  PushInv'
<1>1. CASE BoxesList(r) \/ BoxesScan(r)
  <2> USE DEF BoxesList, BoxesScan
  <2>1. /\ UNCHANGED <<lvars, supplied, ship, split>>
        /\ job'[r] \notin Pushing \cup {"recheck", "invalidate"}
    BY <1>1, Others DEF Pushing
  <2>2. /\ \E s : Go(r, s)
        /\ \E v : Knows(r, v)
    BY <1>1
  <2> QED  BY <2>1, <2>2, Others, PushApart
<1>2. CASE BoxesCreate(r)
  <2>1. PICK l \in view[r].lines :
          /\ ship' = [ship EXCEPT ![l] = "PENDING"]
          /\ IF view[r].lines = {l} THEN Quit(r)
             ELSE Knows(r, [view[r] EXCEPT !.lines = @ \ {l}]) /\ UNCHANGED job
    BY <1>2 DEF BoxesCreate
  <2>2. /\ Boxes' = Boxes \cup {l}
        /\ \A m \in Line : ship'[m] \in Shipped => ship'[m] = ship[m]
    BY <2>1, ViewsTyped DEF TypeInv, RowsTyped, Boxes, Shipped
  <2>3. split' = (split \/ \E k \in Payload : Recorded(k))
    BY <1>2 DEF BoxesCreate, Recorded
  <2>4. Grows
    BY <1>2, <2>2 DEF BoxesCreate, Grows, Recorded
  <2>5. SupplyInv'
    <3>1. supplied' = supplied /\ UNCHANGED lvars
      BY <1>2 DEF BoxesCreate
    <3>2. LabelsHonest'
      BY <2>2, <2>3, <3>1 DEF PushInv, SupplyInv, LabelsHonest, Shipped
    <3> QED  BY <2>3, <3>1, <3>2 DEF PushInv, SupplyInv, Recorded
  <2>6. PushRun(r)'
    BY <1>2, <2>1, Others, Apart DEF BoxesCreate, Pushing
  <2> QED  BY <2>1, <2>4, <2>5, <2>6, Others, Elsewhere DEF PushInv
<1> QED  BY <1>1, <1>2

\* The ledger: a claim leaves a row, and a row, once there, stays.
LEMMA LedgerKept ==
  ASSUME TypeInv, NEW k \in Payload, NEW r \in Run
  PROVE  /\ Claim(k, r) =>
              /\ ledger'[k].status # "NONE"
              /\ \A m \in Payload : Recorded(m) => Recorded(m)'
              /\ \A m \in Payload : ledger'[m].status \in Applied => ledger[m].status \in Applied
         /\ \A s : Finalize(k, r, s) =>
              /\ \A m \in Payload : Recorded(m) => Recorded(m)'
              /\ \A m \in Payload :
                   ledger'[m].status \in Applied => ledger[m].status \in Applied \/ s \in Applied
<1>1. k \in Key /\ ledger \in [Key -> Row] /\ Payload \subseteq Key
  BY LineAssumption DEF TypeInv, LedgerTypeOK
<1>2. ASSUME Claim(k, r)
      PROVE  /\ ledger'[k].status # "NONE"
             /\ \A m \in Payload : Recorded(m) => Recorded(m)'
             /\ \A m \in Payload : ledger'[m].status \in Applied => ledger[m].status \in Applied
  BY <1>1, <1>2 DEF Claim, Claimable, Recorded, Free, Applied
<1>3. ASSUME NEW s, Finalize(k, r, s)
      PROVE  /\ \A m \in Payload : Recorded(m) => Recorded(m)'
             /\ \A m \in Payload :
                  ledger'[m].status \in Applied => ledger[m].status \in Applied \/ s \in Applied
  <2>1. ledger' = IF Owns(k, r) THEN [ledger EXCEPT ![k].status = s] ELSE ledger
    BY <1>3 DEF Finalize
  <2>2. s # "NONE"
    BY <1>3 DEF Finalize, Terminal, Applied
  <2>3. \A m \in Payload : ledger'[m].status = ledger[m].status \/ ledger'[m].status = s
    BY <1>1, <2>1 DEF Row
  <2> QED  BY <2>2, <2>3 DEF Recorded
<1> QED  BY <1>2, <1>3

\* A step of a push that only the ledger remembers.
LEMMA SupplyLedger ==
  ASSUME TypeInv, SupplyInv, UNCHANGED <<rows, supplied, split>>,
         \A k \in Payload : Recorded(k) => Recorded(k)',
         \A k \in Payload : ledger'[k].status \in Applied =>
                              ledger[k].status \in Applied \/ supplied # {}
  PROVE  SupplyInv' /\ Grows
<1>1. Boxes' = Boxes
  BY DEF Boxes
<1>2. LabelsHonest'
  BY DEF SupplyInv, LabelsHonest
<1> QED  BY <1>1, <1>2 DEF SupplyInv, Grows

LEMMA ClaimPush ==
  ASSUME TypeInv, PushInv, NEW r \in Run,
         SyncCollects(r) \/ SyncRechecks(r) \/ SyncClaims(r)
  PROVE  PushInv'
<1>1. CASE SyncCollects(r)
  <2>1. PICK due \in Payload :
        /\ \/ due = Boxes
           \/ \A l \in due : ship[l] \in Unsent \cup {"ATTEMPTED"}
        /\ Knows(r, [Blank EXCEPT !.lines = due])
    BY <1>1 DEF SyncCollects
  <2>2. due \subseteq Boxes
    BY <2>1 DEF Payload, Boxes, Unsent
  <2>3. UNCHANGED <<lvars, supplied, ship, split>> /\ Boxes' = Boxes
    BY <1>1 DEF SyncCollects, Boxes
  <2>4. SupplyInv' /\ Grows
    BY <2>3, SupplyKept DEF PushInv
  <2>0. Go(r, "recheck")
    BY <1>1 DEF SyncCollects
  <2>5. view'[r].lines = due /\ job'[r] = "recheck"
    <3>1. view'[r] = [Blank EXCEPT !.lines = due] /\ job'[r] = "recheck"
      BY <2>0, <2>1, Others
    <3>2. [Blank EXCEPT !.lines = due].lines = due
      BY DEF Blank
    <3> QED  BY <3>1, <3>2
  <2>6. PushRun(r)'
    BY <2>2, <2>3, <2>5 DEF PushRun, Pushing, Payload
  <2> QED  BY <2>0, <2>1, <2>4, <2>6, Others, Elsewhere DEF PushInv
<1>2. CASE SyncRechecks(r)
  <2>1. UNCHANGED <<lvars, supplied, ship, split>> /\ Boxes' = Boxes
    BY <1>2 DEF SyncRechecks, Boxes
  <2>2. CASE Quit(r)
    <3>1. job'[r] \notin Pushing \cup {"recheck", "invalidate"}
      BY <2>2, Others DEF Pushing
    <3> QED  BY <2>1, <2>2, <3>1, Others, PushApart
  <2>3. CASE Go(r, "claim") /\ Knows(r, [view[r] EXCEPT !.decided = decision])
    <3>1. view'[r].lines = view[r].lines /\ job'[r] = "claim"
      <4>1. view'[r] = [view[r] EXCEPT !.decided = decision] /\ job'[r] = "claim"
        BY <2>3, Others
      <4>2. [view[r] EXCEPT !.decided = decision].lines = view[r].lines
        BY ViewsTyped DEF JobView
      <4> QED  BY <4>1, <4>2
    <3>2. view[r].lines \in Payload /\ view[r].lines \subseteq Boxes
      BY <1>2 DEF SyncRechecks, PushInv, PushRun
    <3>3. PushRun(r)'
      BY <2>1, <3>1, <3>2 DEF PushRun, Pushing, Payload
    <3>4. SupplyInv' /\ Grows
      BY <2>1, SupplyKept DEF PushInv
    <3> QED  BY <2>3, <3>3, <3>4, Others, Elsewhere DEF PushInv
  <2> QED  BY <1>2, <2>2, <2>3 DEF SyncRechecks
<1>3. CASE SyncClaims(r)
  <2> DEFINE k == view[r].lines
             v == [view[r] EXCEPT !.left = k]
             w == [v EXCEPT !.word = "ALREADY_APPLIED", !.decided = ""]
  <2>1. k \in Payload /\ k \subseteq Boxes
    BY <1>3 DEF SyncClaims, PushInv, PushRun, Pushing
  <2>2. Claim(k, r) /\ UNCHANGED <<rows, supplied, split>>
    BY <1>3 DEF SyncClaims
  <2>3. SupplyInv' /\ Grows
    BY <2>1, <2>2, LedgerKept, SupplyLedger DEF PushInv
  <2>4. v.lines = k /\ v.left = k /\ w.lines = k /\ w.left = k /\ w.word = "ALREADY_APPLIED"
    <3>1. v \in JobView /\ v.lines = k /\ v.left = k
      BY ViewsTyped, Fields
    <3> HIDE DEF v
    <3> QED  BY <3>1 DEF JobView
  <2>5. ledger'[k].status # "NONE" /\ Boxes' = Boxes
    BY <2>1, <2>2, LedgerKept DEF Boxes
  <2>6. CASE Quit(r)
    BY <2>3, <2>6, Others, Apart, Elsewhere DEF PushInv, Pushing
  <2>7. CASE Go(r, "attempt") /\ Knows(r, v)
    <3>1. view'[r] = v /\ job'[r] = "attempt"
      BY <2>7, Others
    <3>2. PushRun(r)'
      <4> HIDE DEF v, k
      <4> QED  BY <2>1, <2>4, <2>5, <3>1 DEF PushRun, Pushing, Recorded
    <3> QED  BY <2>3, <2>7, <3>2, Others, Elsewhere DEF PushInv
  <2>8. CASE Go(r, "label") /\ Knows(r, w) /\ ledger[k].status \in Applied
    <3>1. view'[r] = w /\ job'[r] = "label"
      BY <2>8, Others
    <3>2. supplied # {} /\ supplied' = supplied
      BY <2>1, <2>2, <2>8 DEF PushInv, SupplyInv
    <3>3. PushRun(r)'
      <4> HIDE DEF w, k
      <4> QED  BY <2>1, <2>4, <2>5, <3>1, <3>2 DEF PushRun, Pushing, Recorded
    <3> QED  BY <2>3, <2>8, <3>3, Others, Elsewhere DEF PushInv
  <2> QED  BY <1>3, <2>6, <2>7, <2>8 DEF SyncClaims
<1> QED  BY <1>1, <1>2, <1>3

LEMMA AttemptPush ==
  ASSUME TypeInv, PushInv, NEW r \in Run,
         SyncAttempts(r) \/ SyncAttemptFails(r) \/ SyncAborts(r)
  PROVE  PushInv'
<1> DEFINE k == view[r].lines
<1>0. /\ k \in Payload /\ k \subseteq Boxes /\ ledger[k].status # "NONE"
      /\ On(r, "attempt") => view[r].left \subseteq k
  BY DEF SyncAttempts, SyncAttemptFails, SyncAborts, PushInv, PushRun, Pushing, Recorded
<1>1. CASE SyncAttempts(r)
  <2>1. PICK l \in view[r].left :
          /\ ship' = [ship EXCEPT ![l] = "ATTEMPTED"]
          /\ Knows(r, [view[r] EXCEPT !.left = @ \ {l}])
          /\ IF view[r].left = {l} THEN Go(r, "send") ELSE UNCHANGED job
    BY <1>1 DEF SyncAttempts
  <2>2. l \in Boxes
    BY <1>0, <1>1, <2>1 DEF SyncAttempts
  <2>3. /\ Boxes' = Boxes
        /\ \A m \in Line : ship'[m] \in Shipped => ship'[m] = ship[m]
    BY <2>1, <2>2, OneBox DEF BoxStatus, Shipped
  <2>4. SupplyInv' /\ Grows
    BY <1>1, <2>3, SupplyKept DEF SyncAttempts, PushInv
  <2>5. /\ view'[r].lines = k
        /\ view'[r].left = view[r].left \ {l}
        /\ job'[r] \in {"attempt", "send"}
    <3>1. view'[r] = [view[r] EXCEPT !.left = view[r].left \ {l}]
      BY <2>1, Others
    <3>2. job'[r] \in {"attempt", "send"}
      BY <1>1, <2>1, Others DEF SyncAttempts
    <3> QED  BY <3>1, <3>2, Fields
  <2>6. PushRun(r)'
    <3>1. ledger' = ledger
      BY <1>1 DEF SyncAttempts
    <3> HIDE DEF k
    <3> QED  BY <1>0, <1>1, <2>3, <2>5, <3>1 DEF PushRun, Pushing, Recorded, SyncAttempts, Payload
  <2> QED  BY <2>1, <2>4, <2>6, Others, Elsewhere DEF PushInv
<1>2. CASE SyncAttemptFails(r)
  <2>1. UNCHANGED <<lvars, supplied, ship, split, view>> /\ Boxes' = Boxes
    BY <1>2 DEF SyncAttemptFails, Boxes
  <2>2. SupplyInv' /\ Grows
    BY <2>1, SupplyKept DEF PushInv
  <2>3. Go(r, "abort") /\ job'[r] = "abort"
    BY <1>2, Others DEF SyncAttemptFails
  <2>4. PushRun(r)'
    BY <1>0, <2>1, <2>3 DEF PushRun, Pushing, Recorded, Payload
  <2> QED  BY <2>1, <2>2, <2>3, <2>4, Others, Elsewhere DEF PushInv
<1>3. CASE SyncAborts(r)
  <2>1. Finalize(k, r, "DEFINITIVE_FAILURE") /\ UNCHANGED <<rows, supplied, split>>
    BY <1>3 DEF SyncAborts
  <2>2. SupplyInv' /\ Grows
    <3>1. "DEFINITIVE_FAILURE" \notin Applied
      BY DEF Applied
    <3> HIDE DEF k
    <3> QED  BY <1>0, <2>1, <3>1, LedgerKept, SupplyLedger DEF PushInv, SupplyInv
  <2>3. Quit(r)
    BY <1>3 DEF SyncAborts
  <2>4. PushRun(r)'
    BY <2>3, Others, Apart DEF Pushing
  <2> QED  BY <2>2, <2>3, <2>4, Others, Elsewhere DEF PushInv
<1> QED  BY <1>1, <1>2, <1>3

LEMMA SendPush ==
  ASSUME TypeInv, PushInv, NEW r \in Run, SyncSends(r)
  PROVE  PushInv'
<1> DEFINE k == view[r].lines
           v == [view[r] EXCEPT !.left = k, !.decided = ""]
<1>0. k \in Payload /\ k \subseteq Boxes /\ ledger[k].status # "NONE" /\ k # {}
  BY DEF SyncSends, PushInv, PushRun, Pushing, Recorded, Payload
<1>1. PICK w \in Terminal :
        /\ Knows(r, [v EXCEPT !.word = w])
        /\ supplied' = supplied \/ (supplied = {} /\ supplied' = k)
        /\ w = "CONFIRMED" => supplied' = k
        /\ w = "ALREADY_APPLIED" => supplied # {}
  BY DEF SyncSends, Terminal, Applied
<1>2. /\ UNCHANGED <<lvars, rows>> /\ Go(r, "settle")
      /\ split' = (split \/ k # Boxes)
  BY DEF SyncSends
<1>3. Boxes' = Boxes
  BY <1>2 DEF Boxes
<1>4. Grows
  BY <1>1, <1>2, <1>3 DEF Grows, Recorded
<1>5. SupplyInv'
  <2>1. supplied' # {} => \E m \in Payload : Recorded(m)'
    BY <1>0, <1>1, <1>2 DEF PushInv, SupplyInv, Recorded
  <2>2. supplied' # {} /\ ~split' => supplied' = Boxes'
    BY <1>1, <1>2, <1>3 DEF PushInv, SupplyInv
  <2>3. \A m \in Payload : ledger'[m].status \in Applied => supplied' # {}
    BY <1>0, <1>1, <1>2 DEF PushInv, SupplyInv
  <2>4. LabelsHonest'
    BY <1>1, <1>2 DEF PushInv, SupplyInv, LabelsHonest
  <2> QED  BY <2>1, <2>2, <2>3, <2>4 DEF SupplyInv
<1>6. view'[r].lines = k /\ view'[r].left = k /\ view'[r].word = w /\ job'[r] = "settle"
  <2>1. v \in JobView /\ v.lines = k /\ v.left = k
    <3> DEFINE x == view[r]
    <3>1. x \in JobView /\ k \in SUBSET Line /\ "" \in Review
      BY ViewsTyped DEF Review
    <3>2. x.lines = k
      OBVIOUS
    <3>3. v = [x EXCEPT !.left = k, !.decided = ""]
      OBVIOUS
    <3> HIDE DEF x, k, v
    <3> QED  BY <3>1, <3>2, <3>3 DEF JobView
  <2>2. view'[r] = [v EXCEPT !.word = w] /\ job'[r] = "settle"
    BY <1>1, <1>2, Others
  <2> HIDE DEF v, k
  <2> QED  BY <2>1, <2>2 DEF JobView
<1>7. PushRun(r)'
  <2>1. w \in Applied => supplied' # {}
    BY <1>0, <1>1 DEF Applied
  <2>2. w = "CONFIRMED" => k \subseteq supplied'
    BY <1>1
  <2>3. ledger'[k].status # "NONE"
    BY <1>0, <1>2
  <2> HIDE DEF k, v
  <2> QED  BY <1>0, <1>3, <1>6, <2>1, <2>2, <2>3 DEF PushRun, Pushing, Recorded, Payload
<1> QED  BY <1>1, <1>2, <1>4, <1>5, <1>7, Others, Elsewhere DEF PushInv

LEMMA SettlePush ==
  ASSUME TypeInv, PushInv, NEW r \in Run, SyncSettles(r)
  PROVE  PushInv'
<1> DEFINE k == view[r].lines
<1>0. /\ k \in Payload /\ k \subseteq Boxes /\ ledger[k].status # "NONE"
      /\ view[r].left \subseteq k
      /\ view[r].word \in Applied => supplied # {}
      /\ view[r].word = "CONFIRMED" => k \subseteq supplied
  BY DEF SyncSettles, PushInv, PushRun, Pushing, Recorded
<1>1. UNCHANGED <<rows, supplied, split>> /\ Boxes' = Boxes
  BY DEF SyncSettles, Boxes
<1>2. UNCHANGED lvars \/ Finalize(k, r, view[r].word)
  BY DEF SyncSettles
<1>3. SupplyInv' /\ Grows
  <2>1. CASE UNCHANGED lvars
    BY <1>1, <2>1, SupplyKept DEF PushInv
  <2>2. CASE Finalize(k, r, view[r].word)
    BY <1>0, <1>1, <2>2, LedgerKept, SupplyLedger DEF PushInv
  <2> QED  BY <1>2, <2>1, <2>2
<1>4. ledger'[k].status # "NONE"
  BY <1>0, <1>3 DEF Grows, Recorded
<1>5. /\ job'[r] \in {"settle", "label"}
      /\ view'[r].lines = k /\ view'[r].left = view[r].left
      /\ view'[r].word = view[r].word \/ view'[r].word = "UNKNOWN_RESULT"
  <2>1. CASE Go(r, "label") /\ UNCHANGED view
    BY <2>1, Others
  <2>2. CASE On(r, "settle") /\ UNCHANGED job
             /\ Knows(r, [view[r] EXCEPT !.word = "UNKNOWN_RESULT"])
    <3>1. view'[r] = [view[r] EXCEPT !.word = "UNKNOWN_RESULT"]
      BY <2>2, Others
    <3>2. /\ [view[r] EXCEPT !.word = "UNKNOWN_RESULT"].lines = view[r].lines
          /\ [view[r] EXCEPT !.word = "UNKNOWN_RESULT"].left = view[r].left
          /\ [view[r] EXCEPT !.word = "UNKNOWN_RESULT"].word = "UNKNOWN_RESULT"
      BY ViewsTyped DEF JobView
    <3> QED  BY <2>2, <3>1, <3>2
  <2> QED  BY <2>1, <2>2 DEF SyncSettles
<1>6. PushRun(r)'
  <2>1. "UNKNOWN_RESULT" \notin Applied
    BY DEF Applied
  <2> HIDE DEF k
  <2> QED  BY <1>0, <1>1, <1>4, <1>5, <2>1 DEF PushRun, Pushing, Recorded, Payload
<1>7. /\ UNCHANGED job \/ \E s : Go(r, s)
      /\ UNCHANGED view \/ \E x : Knows(r, x)
  BY DEF SyncSettles
<1> QED  BY <1>3, <1>6, <1>7, Others, Elsewhere DEF PushInv

LEMMA LabelPush ==
  ASSUME TypeInv, PushInv, NEW r \in Run, SyncLabels(r) \/ SyncLabelFails(r)
  PROVE  PushInv'
<1> DEFINE k == view[r].lines
           w == view[r].word
<1>0. /\ k \in Payload /\ k \subseteq Boxes /\ ledger[k].status # "NONE"
      /\ view[r].left \subseteq k
      /\ w \in Applied => supplied # {}
      /\ w = "CONFIRMED" => k \subseteq supplied
      /\ w \in Terminal
  BY DEF SyncLabels, SyncLabelFails, TypeInv, JobsTyped, Fits, PushInv, PushRun, Pushing, Recorded
<1>1. CASE SyncLabels(r)
  <2>1. PICK l \in view[r].left :
          /\ ship' = [ship EXCEPT ![l] = LabelOf[view[r].word]]
          /\ IF view[r].left = {l} THEN Quit(r)
             ELSE Knows(r, [view[r] EXCEPT !.left = @ \ {l}]) /\ UNCHANGED job
    BY <1>1 DEF SyncLabels
  <2>2. UNCHANGED <<lvars, supplied, split>> /\ job[r] = "label"
    BY <1>1 DEF SyncLabels
  <2>3. /\ LabelOf[w] \in BoxStatus \ {"NONE"}
        /\ LabelOf[w] = "SYNCED" => w = "CONFIRMED"
        /\ LabelOf[w] = "ALREADY_EXISTS" => w \in Applied
    BY <1>0 DEF LabelOf, BoxStatus, Shipped, Unsent, Terminal, Applied
  <2>4. /\ Boxes' = Boxes
        /\ \A m \in Line \ {l} : ship'[m] = ship[m]
        /\ ship'[l] = LabelOf[w]
    BY <1>0, <2>1, <2>3, OneBox
  <2>5. LabelsHonest'
    <3>1. l \in k /\ l \in Boxes
      BY <1>0, <2>1
    <3>2. ASSUME NEW m \in Line, ship'[m] = "SYNCED" PROVE m \in supplied
      BY <1>0, <2>3, <2>4, <3>1, <3>2 DEF PushInv, SupplyInv, LabelsHonest
    <3>3. ASSUME NEW m \in Line, ship'[m] = "ALREADY_EXISTS"
          PROVE  supplied # {} /\ (m \in supplied \/ split)
      BY <1>0, <2>3, <2>4, <3>1, <3>3 DEF PushInv, SupplyInv, LabelsHonest
    <3> QED  BY <2>2, <3>2, <3>3 DEF LabelsHonest
  <2>6. SupplyInv' /\ Grows
    BY <2>2, <2>4, <2>5 DEF PushInv, SupplyInv, Grows, Recorded
  <2>7. PushRun(r)'
    <3>1. CASE Quit(r)
      BY <3>1, Others, Apart DEF Pushing
    <3>2. CASE Knows(r, [view[r] EXCEPT !.left = @ \ {l}]) /\ UNCHANGED job
      <4>1. view'[r] = [view[r] EXCEPT !.left = view[r].left \ {l}]
        BY <3>2, Others
      <4>2. /\ view'[r].lines = k /\ view'[r].word = w
            /\ view'[r].left = view[r].left \ {l} /\ job'[r] = "label"
        <5> DEFINE S == view[r].left \ {l}
        <5>1. view'[r] = [view[r] EXCEPT !.left = S]
          BY <4>1
        <5> HIDE DEF S
        <5>2. view'[r].left = S /\ view'[r].lines = view[r].lines /\ view'[r].word = view[r].word
          BY <5>1, Fields
        <5> QED  BY <2>2, <3>2, <5>2 DEF S
      <4> HIDE DEF k, w
      <4> QED  BY <1>0, <2>2, <2>4, <4>2 DEF PushRun, Pushing, Recorded, Payload
    <3> QED  BY <2>1, <3>1, <3>2
  <2> QED  BY <2>1, <2>6, <2>7, Others, Elsewhere DEF PushInv
<1>2. CASE SyncLabelFails(r)
  <2>1. UNCHANGED <<lvars, supplied, ship, split, job>> /\ Boxes' = Boxes
    BY <1>2 DEF SyncLabelFails, Boxes
  <2>2. SupplyInv' /\ Grows
    BY <2>1, SupplyKept DEF PushInv
  <2>3. Knows(r, [view[r] EXCEPT !.word = "UNKNOWN_RESULT", !.left = k]) /\ job[r] = "label"
    BY <1>2 DEF SyncLabelFails
  <2>4. view'[r].lines = k /\ view'[r].left = k /\ view'[r].word = "UNKNOWN_RESULT"
    <3> DEFINE x == view[r]
    <3>1. view'[r] = [x EXCEPT !.word = "UNKNOWN_RESULT", !.left = k] /\ x.lines = k
      BY <2>3, Others
    <3>2. x \in JobView
      BY ViewsTyped
    <3> HIDE DEF x, k
    <3> QED  BY <3>1, <3>2 DEF JobView
  <2>5. PushRun(r)'
    <3>1. "UNKNOWN_RESULT" \notin Applied
      BY DEF Applied
    <3> HIDE DEF k
    <3> QED  BY <1>0, <2>1, <2>3, <2>4, <3>1 DEF PushRun, Pushing, Recorded, Payload
  <2> QED  BY <2>1, <2>2, <2>3, <2>5, Others, Elsewhere DEF PushInv
<1> QED  BY <1>1, <1>2

LEMMA PushInit == MInit => PushInv
<1> SUFFICES ASSUME MInit PROVE PushInv
  OBVIOUS
<1>1. \A k \in Payload : ledger[k].status = "NONE"
  BY LineAssumption DEF MInit, LedgerInit
<1>2. SupplyInv
  BY <1>1 DEF MInit, SupplyInv, LabelsHonest, Applied
<1>3. \A r \in Run : PushRun(r)
  BY DEF MInit, PushRun, Pushing
<1> QED  BY <1>2, <1>3 DEF PushInv

LEMMA PushNext == TypeInv /\ PushInv /\ [MNext]_<<lvars, mvars>> => PushInv'
<1> SUFFICES ASSUME TypeInv, PushInv, [MNext]_<<lvars, mvars>> PROVE PushInv'
  OBVIOUS
<1>1. ASSUME NEW r \in Run, Breaks(r) PROVE PushInv'
  <2>1. job'[r] = "idle" /\ "idle" \notin Pushing \cup {"recheck", "invalidate"}
    BY <1>1, Others DEF Breaks, Pushing
  <2> QED  BY <1>1, <2>1, Others, PushApart DEF Breaks
<1>2. CASE MercariMoves \/ UNCHANGED <<lvars, mvars>>
  <2>1. UNCHANGED <<lvars, supplied, ship, split, job, view>> /\ Boxes' = Boxes
    BY <1>2 DEF MercariMoves, mvars, Boxes
  <2>2. SupplyInv' /\ Grows
    BY <2>1, SupplyKept DEF PushInv
  <2> QED  BY <2>1, <2>2, PushRunKept DEF PushInv
<1>3. ASSUME NEW r \in Run, Syncs(r) PROVE PushInv'
  BY <1>3, BoxesPush, ClaimPush, AttemptPush, SendPush, SettlePush, LabelPush DEF Syncs
<1> QED  BY <1>1, <1>2, <1>3, IngestPush, ReconcilePush, DecidePush DEF MNext

LEMMA PushInvariant == MSpec => []PushInv
BY TypeInvariant, PushInit, PushNext, PTL DEF MSpec

\* No overlap of runs, partial patch or lost response makes a shipment row say
\* more than GIGA holds.
THEOREM LabelsCorrect == MSpec => []LabelsHonest
<1>1. PushInv => LabelsHonest
  BY DEF PushInv, SupplyInv
<1> QED  BY <1>1, PushInvariant, PTL

-----------------------------------------------------------------------------
(* What stands of the operator's decision.                                  *)

\* A stale backfill replaced the review, or Mercari canceled the order.
Overridden == reset \/ mercari = "CANCELED"

Sweeping == {"shipments", "invalidate", "clear", "catchAll", "clearAll"}
Against == {"ON_HOLD", "CANCELED"}

\* Who clears a review has seen Mercari cancel, who inserts a line copies no
\* approval, and no push follows a recheck the decision forbade.
ReviewRun(r) ==
  LET v == view[r]
  IN /\ job[r] \in {"backfill", "patch", "cas"} /\ v.word = "CANCELED" => mercari = "CANCELED"
     /\ job[r] \in Sweeping /\ v.lines # {} => mercari = "CANCELED"
     /\ job[r] = "insert" => /\ Item \notin v.lines
                             /\ v.read[Item].status # "CANCELED"
                             /\ v.read[Item].review \notin Approved
     /\ job[r] \in Pushing /\ v.decided \in Against => Overridden

\* The decision is the review of the line Mercari knows; a cancellation found
\* nothing at GIGA and no push; the buyer is told of one approval.
Standing ==
  /\ ~defied
  /\ decision # "" => /\ sales[Item].review = decision
                      /\ \A l \in Present : sales[l].review # "AUTO_APPROVED"
  /\ decision = "CANCELED" => blind \/ (supplied = {} /\ \A q \in Run : job[q] \notin Pushing)
  /\ notices > 0 \/ (\E q \in Run : job[q] = "notice") =>
       sales[Item].review \notin {"", "PENDING_REVIEW"}
  /\ notices <= 1
  /\ notices = 1 => \A q \in Run : job[q] # "notice"
  /\ \A p, q \in Run : job[p] = "notice" /\ job[q] = "notice" => p = q

ReviewInv ==
  /\ sales[Item].status # ""
  /\ \A l \in Line : sales[l].status = "CANCELED" => mercari = "CANCELED"
  /\ Overridden \/ Standing
  /\ \A r \in Run : ReviewRun(r)

LEMMA ItemPresent == ReviewInv => Item \in Present
<1>1. NoLine.status = ""
  BY DEF NoLine
<1> QED  BY <1>1, LineAssumption DEF ReviewInv, Present

LEMMA ReviewRunKept ==
  ASSUME NEW q \in Run, ReviewRun(q), job'[q] = job[q], view'[q] = view[q],
         Overridden => Overridden', mercari = "CANCELED" => mercari' = "CANCELED"
  PROVE  ReviewRun(q)'
BY DEF ReviewRun

LEMMA StandingKept ==
  ASSUME Standing, UNCHANGED <<decision, defied, blind, supplied, notices>>,
         sales'[Item].review = sales[Item].review,
         \A l \in Line : l \in Present' /\ sales'[l].review = "AUTO_APPROVED" =>
                         l \in Present /\ sales[l].review = "AUTO_APPROVED",
         \A q \in Run : /\ job'[q] \in Pushing => job[q] \in Pushing
                        /\ job'[q] = "notice" => job[q] = "notice"
  PROVE  Standing'
<1>1. Present' \subseteq Line
  BY DEF Present
<1> QED  BY <1>1 DEF Standing

\* A step that leaves the review alone and begins neither a push nor a notice.
LEMMA Quiet ==
  ASSUME TypeInv, ReviewInv, NEW r \in Run,
         UNCHANGED <<mercari, sales, supplied, decision, defied, blind, reset, notices>>,
         \A q \in Run \ {r} : job'[q] = job[q] /\ view'[q] = view[q],
         job'[r] \in Pushing => job[r] \in Pushing,
         job'[r] # "notice", ReviewRun(r)'
  PROVE  ReviewInv'
<1>1. Present' = Present
  BY DEF Present
<1>2. Standing => Standing'
  BY <1>1, StandingKept
<1>3. Overridden' = Overridden
  BY DEF Overridden
<1> QED  BY <1>2, <1>3, ReviewRunKept DEF ReviewInv

\* Where an invocation is says nothing of the review.
Watched == {"backfill", "patch", "cas", "insert"} \cup Sweeping \cup Pushing

LEMMA Unwatched ==
  ASSUME NEW r \in Run, job'[r] \notin Watched
  PROVE  ReviewRun(r)'
BY DEF ReviewRun, Watched

LEMMA Passing ==
  ASSUME TypeInv, ReviewInv, NEW r \in Run,
         UNCHANGED <<mercari, sales, supplied, decision, defied, blind, reset, notices>>,
         \A q \in Run \ {r} : job'[q] = job[q] /\ view'[q] = view[q],
         job'[r] \notin Watched \cup {"notice"}
  PROVE  ReviewInv'
BY Unwatched, Quiet DEF Watched

\* A step of a push that keeps or drops what its recheck saw.
LEMMA Pushes ==
  ASSUME TypeInv, ReviewInv, NEW r \in Run, job[r] \in Pushing,
         UNCHANGED <<mercari, sales, supplied, decision, defied, blind, reset, notices>>,
         \A q \in Run \ {r} : job'[q] = job[q] /\ view'[q] = view[q],
         job'[r] \in Pushing \cup {"idle"},
         view'[r].decided \in {view[r].decided, ""}
  PROVE  ReviewInv'
<1>1. ReviewRun(r)'
  BY DEF ReviewInv, ReviewRun, Pushing, Sweeping, Against, Overridden
<1> QED  BY <1>1, Quiet DEF Pushing

LEMMA IngestReview ==
  ASSUME TypeInv, ReviewInv, NEW r \in Run, Ingests(r)
  PROVE  ReviewInv'
<1>1. CASE IngestReads(r)
  BY <1>1, Others, Passing DEF IngestReads, Watched, Sweeping, Pushing
<1>2. CASE IngestFetches(r)
  <2>0. UNCHANGED <<mercari, sales, supplied, decision, defied, blind, reset, notices>>
    BY <1>2 DEF IngestFetches
  <2>1. CASE Quit(r) \/ (Go(r, "rescan") /\ Knows(r, [Blank EXCEPT !.sweep = TRUE]))
    BY <2>0, <2>1, Others, Passing DEF Watched, Sweeping, Pushing
  <2>2. CASE Go(r, "backfill") /\ Knows(r, [view[r] EXCEPT !.word = mercari])
    <3>1. job'[r] = "backfill" /\ view'[r].word = mercari
      <4>1. job'[r] = "backfill" /\ view'[r] = [view[r] EXCEPT !.word = mercari]
        BY <2>2, Others
      <4>2. [view[r] EXCEPT !.word = mercari].word = mercari
        BY ViewsTyped DEF JobView
      <4> QED  BY <4>1, <4>2
    <3>2. ReviewRun(r)'
      BY <2>0, <3>1 DEF ReviewRun, Sweeping, Pushing
    <3> QED  BY <2>0, <2>2, <3>1, <3>2, Others, Quiet DEF Pushing
  <2> QED  BY <1>2, <2>1, <2>2 DEF IngestFetches
<1>3. CASE IngestBackfills(r)
  <2>1. /\ UNCHANGED <<mercari, supplied, view, decision, defied, blind, notices>>
        /\ job[r] = "backfill" /\ Go(r, "patch")
    BY <1>3 DEF IngestBackfills
  <2>2. job'[r] = "patch" /\ \A q \in Run \ {r} : job'[q] = job[q]
    BY <2>1, Others
  <2>3. ReviewRun(r)'
    BY <2>1, <2>2 DEF ReviewInv, ReviewRun, Sweeping, Pushing
  <2>4. \/ UNCHANGED <<sales, reset>>
        \/ /\ sales' = [sales EXCEPT ![Item].review = "PENDING_REVIEW"]
           /\ reset' = (reset \/ sales[Item].review \notin {"", "PENDING_REVIEW"})
    BY <1>3 DEF IngestBackfills
  <2>5. CASE UNCHANGED <<sales, reset>>
    BY <2>1, <2>2, <2>3, <2>5, Quiet DEF Pushing
  <2>6. CASE /\ sales' = [sales EXCEPT ![Item].review = "PENDING_REVIEW"]
             /\ reset' = (reset \/ sales[Item].review \notin {"", "PENDING_REVIEW"})
    <3>1. /\ \A l \in Line : sales'[l].status = sales[l].status
          /\ \A l \in Line \ {Item} : sales'[l] = sales[l]
          /\ sales'[Item].review = "PENDING_REVIEW" /\ Item \in Line
      BY <2>6, LineAssumption DEF TypeInv, RowsTyped, SalesLine
    <3>2. Overridden => Overridden'
      BY <2>1, <2>6 DEF Overridden
    <3>3. Overridden' \/ Standing'
      <4>1. SUFFICES ASSUME ~Overridden' PROVE Standing'
        OBVIOUS
      <4>2. sales[Item].review \in {"", "PENDING_REVIEW"} /\ Standing
        BY <2>6, <3>2, <4>1 DEF Overridden, ReviewInv
      <4>3. decision = "" /\ ~(notices > 0) /\ \A q \in Run : job[q] # "notice"
        BY <4>2 DEF Standing, TypeInv, HistoryTyped
      <4> QED  BY <2>1, <2>2, <4>2, <4>3 DEF Standing
    <3>4. \A q \in Run : ReviewRun(q)'
      BY <2>1, <2>2, <2>3, <3>2, ReviewRunKept DEF ReviewInv
    <3> QED  BY <2>1, <3>1, <3>3, <3>4 DEF ReviewInv
  <2> QED  BY <2>4, <2>5, <2>6
<1>4. CASE IngestPatches(r)
  <2>1. /\ UNCHANGED <<mercari, supplied, decision, defied, blind, reset, notices>>
        /\ job[r] = "patch"
    BY <1>4 DEF IngestPatches
  <2>2. /\ job'[r] \in {"idle", "rescan"}
        /\ \A q \in Run \ {r} : job'[q] = job[q] /\ view'[q] = view[q]
    <3>1. Quit(r) \/ (Go(r, "rescan") /\ Knows(r, [Blank EXCEPT !.sweep = TRUE]))
      BY <1>4 DEF IngestPatches
    <3> QED  BY <3>1, Others
  <2>3. job'[r] \notin Watched \cup {"notice"}
    BY <2>2 DEF Watched, Sweeping, Pushing
  <2>4. CASE UNCHANGED sales
    BY <2>1, <2>2, <2>3, <2>4, Passing
  <2>5. CASE sales' = [sales EXCEPT ![Item].status = view[r].word,
                           ![Item].review = IF view[r].word = "CANCELED" THEN "" ELSE @]
    <3> DEFINE w == view[r].word
    <3>1. w \in MercariStatus /\ (w = "CANCELED" => mercari = "CANCELED")
      BY <2>1 DEF TypeInv, JobsTyped, Fits, ReviewInv, ReviewRun
    <3>2. /\ sales'[Item].status = w
          /\ sales'[Item].review = IF w = "CANCELED" THEN "" ELSE sales[Item].review
          /\ \A l \in Line \ {Item} : sales'[l] = sales[l]
      <4>1. sales \in [Line -> SalesLine] /\ Item \in Line
        BY LineAssumption DEF TypeInv, RowsTyped
      <4> HIDE DEF w
      <4> QED  BY <2>5, <4>1 DEF SalesLine, w
    <3>3. Overridden' = Overridden
      BY <2>1 DEF Overridden
    <3>4. Standing /\ ~Overridden => Standing'
      <4>1. SUFFICES ASSUME Standing, ~Overridden PROVE Standing'
        OBVIOUS
      <4>2. sales'[Item].review = sales[Item].review
        BY <3>1, <3>2, <4>1 DEF Overridden
      <4>3. Item \in Present
        BY ItemPresent
      <4>4. \A l \in Line : l \in Present' => l \in Present
        BY <3>2, <4>3 DEF Present
      <4>5. \A q \in Run : /\ job'[q] \in Pushing => job[q] \in Pushing
                           /\ job'[q] = "notice" => job[q] = "notice"
        BY <2>2, <2>3 DEF Watched
      <4> QED  BY <2>1, <3>2, <4>1, <4>2, <4>4, <4>5, StandingKept
    <3>5. \A q \in Run : ReviewRun(q)'
      BY <2>1, <2>2, <2>3, <3>3, ReviewRunKept, Unwatched DEF ReviewInv
    <3>6. sales'[Item].status # ""
      BY <3>1, <3>2 DEF MercariStatus
    <3>7. \A l \in Line : sales'[l].status = "CANCELED" => mercari' = "CANCELED"
      BY <2>1, <3>1, <3>2 DEF ReviewInv
    <3> QED  BY <3>3, <3>4, <3>5, <3>6, <3>7 DEF ReviewInv
  <2> QED  BY <1>4, <2>4, <2>5 DEF IngestPatches
<1> QED  BY <1>1, <1>2, <1>3, <1>4 DEF Ingests

\* A review changes only where Mercari has canceled.
LEMMA Cleared ==
  ASSUME TypeInv, ReviewInv, NEW r \in Run,
         UNCHANGED <<mercari, supplied, decision, defied, blind, reset, notices>>,
         \A q \in Run \ {r} : job'[q] = job[q] /\ view'[q] = view[q],
         job'[r] \notin Pushing \cup {"notice"}, ReviewRun(r)',
         \A l \in Line : /\ sales[l].status # "" => sales'[l].status # ""
                         /\ sales'[l].status = "CANCELED" => mercari = "CANCELED",
         mercari # "CANCELED" => \A l \in Line : sales'[l].review = sales[l].review
  PROVE  ReviewInv'
<1>1. Overridden' = Overridden
  BY DEF Overridden
<1>2. Standing /\ ~Overridden => Standing'
  <2>1. SUFFICES ASSUME Standing, ~Overridden PROVE Standing'
    OBVIOUS
  <2>2. NoLine.review = ""
    BY DEF NoLine
  <2>3. \A l \in Line : sales[l].review = "AUTO_APPROVED" => l \in Present
    BY <2>2 DEF Present
  <2> QED  BY <2>1, <2>3, LineAssumption, StandingKept DEF Overridden
<1>3. \A q \in Run : ReviewRun(q)'
  BY <1>1, ReviewRunKept DEF ReviewInv
<1> QED  BY <1>1, <1>2, <1>3, LineAssumption DEF ReviewInv

LEMMA ReconcileReview ==
  ASSUME TypeInv, ReviewInv, NEW r \in Run, Reconciles(r)
  PROVE  ReviewInv'
<1>1. CASE StatusLists(r) \/ SweepLists(r)
  <2> USE DEF StatusLists, SweepLists
  <2>1. \E s \in {"status", "existing"} : Go(r, s)
    BY <1>1
  <2>2. job'[r] \notin Watched \cup {"notice"}
    BY <2>1, Others DEF Watched, Sweeping, Pushing
  <2>3. /\ UNCHANGED <<mercari, sales, supplied, decision, defied, blind, reset, notices>>
        /\ \E v : Knows(r, v)
    BY <1>1
  <2> QED  BY <2>1, <2>2, <2>3, Others, Passing
<1>2. CASE StatusFetches(r)
  <2>0. UNCHANGED <<mercari, sales, supplied, decision, defied, blind, reset, notices>>
    BY <1>2 DEF StatusFetches
  <2>1. CASE Quit(r)
    <3>1. job'[r] \notin Watched \cup {"notice"}
      BY <2>1, Others DEF Watched, Sweeping, Pushing
    <3> QED  BY <2>0, <2>1, <3>1, Others, Passing
  <2>2. CASE Go(r, "cas") /\ Knows(r, [view[r] EXCEPT !.word = mercari])
    <3>1. job'[r] = "cas" /\ view'[r].word = mercari
      <4>1. job'[r] = "cas" /\ view'[r] = [view[r] EXCEPT !.word = mercari]
        BY <2>2, Others
      <4>2. [view[r] EXCEPT !.word = mercari].word = mercari
        BY ViewsTyped DEF JobView
      <4> QED  BY <4>1, <4>2
    <3>2. ReviewRun(r)'
      BY <2>0, <3>1 DEF ReviewRun, Sweeping, Pushing
    <3> QED  BY <2>0, <2>2, <3>1, <3>2, Others, Quiet DEF Pushing
  <2> QED  BY <1>2, <2>1, <2>2 DEF StatusFetches
<1>3. CASE StatusCas(r)
  <2> DEFINE w == view[r].word
  <2>1. w \in MercariStatus /\ (w = "CANCELED" => mercari = "CANCELED")
    BY <1>3 DEF StatusCas, TypeInv, JobsTyped, Fits, ReviewInv, ReviewRun
  <2>2. /\ UNCHANGED <<mercari, supplied, decision, defied, blind, reset, notices>>
        /\ Quit(r)
    BY <1>3 DEF StatusCas
  <2>3. job'[r] \notin Watched \cup Pushing \cup {"notice"}
    BY <2>2, Others DEF Watched, Sweeping, Pushing
  <2>4. ReviewRun(r)'
    BY <2>3, Unwatched
  <2>5. CASE UNCHANGED sales
    BY <2>2, <2>3, <2>5, Others, Passing
  <2>6. CASE /\ \A l \in Line : sales[l].status = view[r].read[l].status \/ l \notin view[r].lines
             /\ sales' = [l \in Line |->
                  IF l \notin view[r].lines THEN sales[l]
                  ELSE [status |-> w, review |-> IF w = "CANCELED" THEN "" ELSE sales[l].review]]
    <3>1. /\ \A l \in Line : /\ sales[l].status # "" => sales'[l].status # ""
                             /\ sales'[l].status = "CANCELED" => mercari = "CANCELED"
      BY <2>1, <2>6 DEF ReviewInv, MercariStatus
    <3>2. mercari # "CANCELED" => \A l \in Line : sales'[l].review = sales[l].review
      BY <2>1, <2>6
    <3> QED  BY <2>2, <2>3, <2>4, <3>1, <3>2, Others, Cleared
  <2> QED  BY <1>3, <2>5, <2>6 DEF StatusCas
<1>4. CASE SweepRescans(r) \/ SweepCatchesAll(r)
  <2>1. /\ UNCHANGED <<mercari, sales, supplied, decision, defied, blind, reset, notices>>
        /\ Knows(r, [view[r] EXCEPT !.lines = Reviewed(CanceledLines)])
        /\ \E s \in Sweeping : Go(r, s)
    BY <1>4 DEF SweepRescans, SweepCatchesAll, Sweeping
  <2>2. Reviewed(CanceledLines) # {} => mercari = "CANCELED"
    BY DEF Reviewed, CanceledLines, Present, ReviewInv
  <2>3. view'[r].lines = Reviewed(CanceledLines) /\ job'[r] \in Sweeping
    <3> DEFINE S == Reviewed(CanceledLines)
    <3>1. view'[r] = [view[r] EXCEPT !.lines = S] /\ job'[r] \in Sweeping
      BY <2>1, Others
    <3> HIDE DEF S
    <3>2. [view[r] EXCEPT !.lines = S].lines = S
      BY Fields
    <3> QED  BY <3>1, <3>2 DEF S
  <2>4. ReviewRun(r)'
    BY <2>1, <2>2, <2>3 DEF ReviewRun, Sweeping, Pushing
  <2> QED  BY <2>1, <2>3, <2>4, Others, Quiet DEF Sweeping, Pushing
<1>5. CASE SweepReadsShipments(r) \/ SweepInvalidates(r)
  <2>1. /\ UNCHANGED <<mercari, sales, supplied, decision, defied, blind, reset, notices>>
        /\ job[r] \in Sweeping
        /\ (UNCHANGED job) \/ Go(r, "invalidate") \/ Go(r, "clear")
        /\ (UNCHANGED view) \/ \E S : Knows(r, [view[r] EXCEPT !.left = S])
    BY <1>5 DEF SweepReadsShipments, SweepInvalidates, Sweeping
  <2>2. job'[r] \in Sweeping
    BY <2>1, Others DEF Sweeping
  <2>3. view'[r].lines = view[r].lines
    <3>1. ASSUME NEW S, Knows(r, [view[r] EXCEPT !.left = S])
          PROVE  view'[r].lines = view[r].lines
      <4>1. view'[r] = [view[r] EXCEPT !.left = S]
        BY <3>1, Others
      <4> QED  BY <4>1, Fields
    <3> QED  BY <2>1, <3>1
  <2>4. ReviewRun(r)'
    BY <2>1, <2>2, <2>3 DEF ReviewInv, ReviewRun, Sweeping, Pushing
  <2> QED  BY <2>1, <2>2, <2>4, Others, Quiet DEF Sweeping, Pushing
<1>6. CASE SweepClears(r)
  <2>0. /\ UNCHANGED <<mercari, supplied, decision, defied, blind, reset, notices>>
        /\ job[r] \in {"clear", "clearAll"}
    BY <1>6 DEF SweepClears
  <2>1. CASE UNCHANGED sales /\ Quit(r)
    <3>1. job'[r] \notin Watched \cup {"notice"}
      BY <2>1, Others DEF Watched, Sweeping, Pushing
    <3> QED  BY <2>0, <2>1, <3>1, Others, Passing
  <2>2. CASE UNCHANGED sales /\ UNCHANGED view /\ Go(r, "catchAll")
    <3>1. job'[r] = "catchAll"
      BY <2>2, Others
    <3>2. ReviewRun(r)'
      BY <2>0, <2>2, <3>1 DEF ReviewInv, ReviewRun, Sweeping, Pushing
    <3> QED  BY <2>0, <2>2, <3>1, <3>2, Others, Quiet DEF Pushing
  <2>3. ASSUME NEW l \in view[r].lines, sales' = [sales EXCEPT ![l].review = ""],
               Knows(r, [view[r] EXCEPT !.lines = @ \ {l}]), UNCHANGED job
        PROVE  ReviewInv'
    <3>1. mercari = "CANCELED" /\ l \in Line
      BY <2>0, ViewsTyped DEF ReviewInv, ReviewRun, Sweeping
    <3>2. \A m \in Line : sales'[m].status = sales[m].status
      BY <2>3, <3>1 DEF TypeInv, RowsTyped, SalesLine
    <3>3. ReviewRun(r)'
      BY <2>0, <2>3, <3>1 DEF ReviewRun, Pushing
    <3>4. job'[r] \notin Pushing \cup {"notice"}
      BY <2>0, <2>3 DEF Pushing
    <3> QED  BY <2>0, <2>3, <3>1, <3>2, <3>3, <3>4, Others, Cleared
  <2> QED  BY <1>6, <2>1, <2>2, <2>3 DEF SweepClears
<1> QED  BY <1>1, <1>2, <1>3, <1>4, <1>5, <1>6 DEF Reconciles

\* The RPC: what an operator decides is the review of every line, and what the
\* job approves was not decided before.
LEMMA RpcReview ==
  ASSUME TypeInv, PushInv, ReviewInv, NEW r \in Run, ReviewRpc(r), Guards(view[r].word)
  PROVE  ReviewInv'
<1> DEFINE t == view[r].word
<1>1. /\ UNCHANGED <<mercari, supplied, defied, reset, notices>>
      /\ sales' = [l \in Line |-> IF l \in Present THEN [sales[l] EXCEPT !.review = t] ELSE NoLine]
      /\ decision' = IF t = "AUTO_APPROVED" \/ decision = "CANCELED" THEN decision ELSE t
      /\ blind' = (blind \/ (t = "CANCELED" /\ Unseen))
      /\ IF t = "AUTO_APPROVED" THEN Go(r, "notice") /\ UNCHANGED view ELSE Quit(r)
  BY DEF ReviewRpc
<1>2. t \in {"AUTO_APPROVED", "APPROVED", "ON_HOLD", "CANCELED"}
  BY DEF ReviewRpc, TypeInv, JobsTyped, Fits
<1>3. /\ \A q \in Run \ {r} : job'[q] = job[q] /\ view'[q] = view[q]
      /\ job'[r] = IF t = "AUTO_APPROVED" THEN "notice" ELSE "idle"
  BY <1>1, Others
<1>4. /\ \A l \in Present : sales'[l].review = t /\ sales'[l].status = sales[l].status
      /\ \A l \in Line \ Present : sales'[l] = NoLine
      /\ Item \in Present
  <2>1. \A l \in Present : l \in Line /\ sales[l] \in SalesLine
    BY DEF Present, TypeInv, RowsTyped
  <2>2. \A l \in Present : sales'[l] = [sales[l] EXCEPT !.review = t]
    BY <1>1, <2>1
  <2> HIDE DEF t
  <2> QED  BY <1>1, <2>1, <2>2, ItemPresent DEF SalesLine
<1>5. Overridden' = Overridden
  BY <1>1 DEF Overridden
<1>6. \A q \in Run : ReviewRun(q)'
  <2>1. job'[r] \notin Watched
    BY <1>3 DEF Watched, Sweeping, Pushing
  <2> QED  BY <1>1, <1>3, <1>5, <2>1, ReviewRunKept, Unwatched DEF ReviewInv
<1>7. ASSUME Standing, ~Overridden PROVE Standing'
  <2>1. CASE t = "AUTO_APPROVED"
    <3>1. sales[Item].review = "PENDING_REVIEW"
      BY <1>4, <2>1 DEF Guards
    <3>2. decision = "" /\ notices = 0 /\ \A q \in Run : job[q] # "notice"
      <4>1. decision = ""
        BY <1>7, <3>1 DEF Standing, TypeInv, HistoryTyped
      <4>2. notices = 0
        <5>1. ~(notices > 0) /\ notices \in Nat
          BY <1>7, <3>1 DEF Standing, TypeInv
        <5> QED  BY <5>1
      <4>3. \A q \in Run : job[q] # "notice"
        BY <1>7, <3>1 DEF Standing
      <4> QED  BY <4>1, <4>2, <4>3
    <3>3. decision' = ""
      BY <1>1, <2>1, <3>2
    <3>4. \A q \in Run : job'[q] = "notice" => q = r
      BY <1>3, <3>2
    <3>5. sales'[Item].review = "AUTO_APPROVED" /\ notices' = 0 /\ ~defied'
      BY <1>1, <1>4, <1>7, <2>1, <3>2 DEF Standing
    <3>6. notices' <= 1 /\ notices' # 1
      BY <3>5
    <3>7. sales'[Item].review \notin {"", "PENDING_REVIEW"}
      BY <3>5
    <3>8. \A p, q \in Run : job'[p] = "notice" /\ job'[q] = "notice" => p = q
      BY <3>4
    <3>9. decision' # "CANCELED"
      BY <3>3
    <3> QED  BY <3>3, <3>5, <3>6, <3>7, <3>8, <3>9 DEF Standing
  <2>2. CASE t # "AUTO_APPROVED"
    <3>1. decision = "CANCELED" => t = "CANCELED"
      BY <1>4, <1>7 DEF Standing, Guards
    <3>2. decision' = t
      BY <1>1, <2>2, <3>1
    <3>3. \A l \in Present' : sales'[l].review = t /\ t # "AUTO_APPROVED"
      BY <1>4, <2>2 DEF Present
    <3>4. sales'[Item].review = t /\ t \notin {"", "PENDING_REVIEW"}
      BY <1>2, <1>4
    <3>5. \A q \in Run : /\ job'[q] = "notice" => job[q] = "notice"
                         /\ job'[q] \in Pushing => job[q] \in Pushing
      BY <1>3, <2>2 DEF Pushing
    <3>6. t = "CANCELED" => blind' \/ (supplied' = {} /\ \A q \in Run : job'[q] \notin Pushing)
      <4>1. SUFFICES ASSUME t = "CANCELED", ~blind'
            PROVE  supplied = {} /\ \A q \in Run : job[q] \notin Pushing
        BY <1>1, <3>5
      <4>2. ~Unseen
        BY <1>1, <4>1
      <4>3. \A l \in Line : ship[l] \notin Shipped
        BY <4>1 DEF Guards
      <4>4. \A k \in Payload : ~Recorded(k)
        BY <4>2, <4>3 DEF Unseen, Recorded
      <4> QED  BY <4>2, <4>4 DEF Unseen, PushInv, SupplyInv
    <3> HIDE DEF t
    <3>7. notices' <= 1
      BY <1>1, <1>7 DEF Standing
    <3>8. notices' = 1 => \A q \in Run : job'[q] # "notice"
      BY <1>1, <1>7, <3>5 DEF Standing
    <3>9. \A p, q \in Run : job'[p] = "notice" /\ job'[q] = "notice" => p = q
      BY <1>7, <3>5 DEF Standing
    <3>10. ~defied'
      BY <1>1, <1>7 DEF Standing
    <3> QED  BY <3>2, <3>3, <3>4, <3>6, <3>7, <3>8, <3>9, <3>10 DEF Standing
  <2> QED  BY <2>1, <2>2
<1>8. sales'[Item].status # "" /\ \A l \in Line : sales'[l].status = "CANCELED" => mercari' = "CANCELED"
  <2>1. sales'[Item].status # ""
    BY <1>4 DEF ReviewInv
  <2>2. ASSUME NEW l \in Line, sales'[l].status = "CANCELED" PROVE mercari' = "CANCELED"
    <3>1. NoLine.status # "CANCELED"
      BY DEF NoLine
    <3>2. sales[l].status = "CANCELED"
      BY <1>4, <2>2, <3>1
    <3> QED  BY <1>1, <3>2 DEF ReviewInv
  <2> QED  BY <2>1, <2>2
<1> QED  BY <1>5, <1>6, <1>7, <1>8 DEF ReviewInv

LEMMA DecideReview ==
  ASSUME TypeInv, PushInv, ReviewInv, NEW r \in Run, Decides(r)
  PROVE  ReviewInv'
<1>1. CASE AutoReads(r) \/ ReviewReads(r) \/ CancelReads(r)
  <2> USE DEF AutoReads, ReviewReads, CancelReads
  <2>1. /\ UNCHANGED <<mercari, sales, supplied, decision, defied, blind, reset, notices>>
        /\ Go(r, "rpc") /\ \E v : Knows(r, v)
    BY <1>1
  <2>2. job'[r] \notin Watched \cup {"notice"}
    BY <2>1, Others DEF Watched, Sweeping, Pushing
  <2> QED  BY <2>1, <2>2, Others, Passing
<1>2. CASE ReviewRpc(r)
  <2>1. CASE Guards(view[r].word)
    BY <1>2, <2>1, RpcReview
  <2>2. CASE ~Guards(view[r].word)
    <3>1. /\ UNCHANGED <<mercari, sales, supplied, decision, defied, blind, reset, notices>>
          /\ Quit(r)
      BY <1>2, <2>2 DEF ReviewRpc
    <3>2. job'[r] \notin Watched \cup {"notice"}
      BY <3>1, Others DEF Watched, Sweeping, Pushing
    <3> QED  BY <3>1, <3>2, Others, Passing
  <2> QED  BY <2>1, <2>2
<1>3. CASE Notice(r)
  <2>1. /\ UNCHANGED <<mercari, sales, supplied, decision, defied, blind, reset>>
        /\ notices' = notices + 1 /\ Quit(r) /\ job[r] = "notice"
    BY <1>3 DEF Notice
  <2>2. job'[r] = "idle" /\ \A q \in Run \ {r} : job'[q] = job[q] /\ view'[q] = view[q]
    BY <2>1, Others
  <2>3. Overridden' = Overridden
    BY <2>1 DEF Overridden
  <2>4. ASSUME Standing PROVE Standing'
    <3>1. notices = 0
      <4>1. notices <= 1 /\ notices # 1
        BY <2>1, <2>4 DEF Standing
      <4>2. notices \in Nat
        BY DEF TypeInv
      <4> QED  BY <4>1, <4>2
    <3>2. \A q \in Run : job'[q] # "notice"
      BY <2>1, <2>2, <2>4 DEF Standing
    <3>3. \A q \in Run : job'[q] \in Pushing => job[q] \in Pushing
      BY <2>2 DEF Pushing
    <3>4. Present' = Present
      BY <2>1 DEF Present
    <3>5. sales[Item].review \notin {"", "PENDING_REVIEW"}
      BY <2>1, <2>4 DEF Standing
    <3>6. notices' <= 1
      BY <2>1, <3>1
    <3>9. \A q1, q2 \in Run : job'[q1] = "notice" /\ job'[q2] = "notice" => q1 = q2
      BY <3>2
    <3>7. /\ decision # "" => /\ sales[Item].review = decision
                              /\ \A l \in Present : sales[l].review # "AUTO_APPROVED"
          /\ decision = "CANCELED" =>
               blind \/ (supplied = {} /\ \A q \in Run : job'[q] \notin Pushing)
      BY <2>4, <3>3 DEF Standing
    <3>8. ~defied
      BY <2>4 DEF Standing
    <3> QED  BY <2>1, <3>2, <3>4, <3>5, <3>6, <3>7, <3>8, <3>9 DEF Standing
  <2>5. \A q \in Run : ReviewRun(q)'
    <3>1. job'[r] \notin Watched
      BY <2>2 DEF Watched, Sweeping, Pushing
    <3> QED  BY <2>1, <2>2, <2>3, <3>1, ReviewRunKept, Unwatched DEF ReviewInv
  <2> QED  BY <2>1, <2>3, <2>4, <2>5 DEF ReviewInv
<1>4. CASE LineReads(r)
  <2>1. PICK l \in Line \ Present :
               Knows(r, [Blank EXCEPT !.lines = {l}, !.read[Item] = sales[Item]])
    BY <1>4 DEF LineReads
  <2>2. /\ UNCHANGED <<mercari, sales, supplied, decision, defied, blind, reset, notices>>
        /\ Go(r, "insert")
        /\ sales[Item].status # "CANCELED" /\ sales[Item].review \notin Approved
    BY <1>4 DEF LineReads
  <2>3. job'[r] = "insert" /\ view'[r] = [Blank EXCEPT !.lines = {l}, !.read[Item] = sales[Item]]
    BY <2>1, <2>2, Others
  <2>4. view'[r].lines = {l} /\ view'[r].read[Item] = sales[Item]
    BY <2>3, LineAssumption DEF Blank
  <2>5. ReviewRun(r)'
    BY <2>1, <2>2, <2>3, <2>4, ItemPresent DEF ReviewRun, Sweeping, Pushing
  <2> QED  BY <2>1, <2>2, <2>3, <2>5, Others, Quiet DEF Pushing
<1>5. CASE LineInserts(r)
  <2>1. /\ UNCHANGED <<mercari, supplied, decision, defied, blind, reset, notices>>
        /\ sales' = [l \in Line |-> IF l \in view[r].lines THEN view[r].read[Item] ELSE sales[l]]
        /\ Quit(r) /\ job[r] = "insert"
    BY <1>5 DEF LineInserts
  <2>2. /\ Item \notin view[r].lines
        /\ view[r].read[Item].status # "CANCELED"
        /\ view[r].read[Item].review \notin Approved
    BY <2>1 DEF ReviewInv, ReviewRun
  <2>3. sales'[Item] = sales[Item]
    BY <2>1, <2>2, LineAssumption
  <2>4. job'[r] = "idle" /\ \A q \in Run \ {r} : job'[q] = job[q] /\ view'[q] = view[q]
    BY <2>1, Others
  <2>5. Overridden' = Overridden
    BY <2>1 DEF Overridden
  <2>6. Standing => Standing'
    <3>1. NoLine.review = ""
      BY DEF NoLine
    <3>2. \A l \in Line : sales'[l].review = "AUTO_APPROVED" =>
                            l \in Present /\ sales[l].review = "AUTO_APPROVED"
      BY <2>1, <2>2, <3>1 DEF Approved, Present
    <3>3. \A q \in Run : /\ job'[q] \in Pushing => job[q] \in Pushing
                         /\ job'[q] = "notice" => job[q] = "notice"
      BY <2>4 DEF Pushing
    <3> QED  BY <2>1, <2>3, <3>2, <3>3, StandingKept
  <2>7. \A q \in Run : ReviewRun(q)'
    <3>1. job'[r] \notin Watched
      BY <2>4 DEF Watched, Sweeping, Pushing
    <3> QED  BY <2>1, <2>4, <2>5, <3>1, ReviewRunKept, Unwatched DEF ReviewInv
  <2>8. \A l \in Line : sales'[l].status = "CANCELED" => mercari' = "CANCELED"
    BY <2>1, <2>2 DEF ReviewInv
  <2> QED  BY <2>3, <2>5, <2>6, <2>7, <2>8 DEF ReviewInv
<1> QED  BY <1>1, <1>2, <1>3, <1>4, <1>5 DEF Decides

LEMMA RecheckReview ==
  ASSUME TypeInv, ReviewInv, NEW r \in Run, SyncRechecks(r)
  PROVE  ReviewInv'
<1>1. UNCHANGED <<mercari, sales, supplied, decision, defied, blind, reset, notices>>
  BY DEF SyncRechecks
<1>2. CASE Quit(r)
  <2>1. job'[r] \notin Watched \cup {"notice"}
    BY <1>2, Others DEF Watched, Sweeping, Pushing
  <2> QED  BY <1>1, <1>2, <2>1, Others, Passing
<1>3. CASE Eligible /\ Go(r, "claim") /\ Knows(r, [view[r] EXCEPT !.decided = decision])
  <2>1. /\ job'[r] = "claim" /\ view'[r] = [view[r] EXCEPT !.decided = decision]
        /\ \A q \in Run \ {r} : job'[q] = job[q] /\ view'[q] = view[q]
    BY <1>3, Others
  <2>2. view'[r].decided = decision
    <3>1. [view[r] EXCEPT !.decided = decision].decided = decision
      BY ViewsTyped DEF JobView
    <3> QED  BY <2>1, <3>1
  <2>3. sales[Item].review \notin Against
    BY <1>3, ItemPresent DEF Eligible, Approved, Against
  <2>4. Overridden' = Overridden
    BY <1>1 DEF Overridden
  <2>5. ASSUME ~Overridden PROVE Standing' /\ decision \notin Against
    <3>1. Standing /\ decision \notin Against
      BY <2>3, <2>5 DEF ReviewInv, Standing, Against
    <3>2. decision # "CANCELED"
      BY <3>1 DEF Against
    <3>3. \A q \in Run : job'[q] = "notice" => job[q] = "notice"
      BY <2>1
    <3>4. Present' = Present
      BY <1>1 DEF Present
    <3> QED  BY <1>1, <3>1, <3>2, <3>3, <3>4 DEF Standing
  <2>6. ReviewRun(r)'
    BY <2>1, <2>2, <2>4, <2>5 DEF ReviewRun, Sweeping, Pushing
  <2> QED  BY <1>1, <2>1, <2>4, <2>5, <2>6, ReviewRunKept DEF ReviewInv
<1> QED  BY <1>2, <1>3 DEF SyncRechecks

LEMMA SendReview ==
  ASSUME TypeInv, ReviewInv, NEW r \in Run, SyncSends(r)
  PROVE  ReviewInv'
<1>1. /\ UNCHANGED <<mercari, sales, decision, blind, reset, notices>>
      /\ job[r] = "send" /\ Go(r, "settle") /\ \E v : Knows(r, v)
      /\ defied' = (defied \/ view[r].decided \in Against)
  BY DEF SyncSends, Against
<1>2. /\ job'[r] = "settle"
      /\ \A q \in Run \ {r} : job'[q] = job[q] /\ view'[q] = view[q]
  BY <1>1, Others
<1>3. view'[r].decided = ""
  <2> DEFINE v == [view[r] EXCEPT !.left = view[r].lines, !.decided = ""]
  <2>1. \E w \in Status : Knows(r, [v EXCEPT !.word = w])
    BY DEF SyncSends, Status, Applied, Open
  <2>2. \E w \in Status : view'[r] = [v EXCEPT !.word = w]
    BY <2>1, Others
  <2>3. v \in JobView /\ v.decided = ""
    <3> DEFINE x == view[r]
               k == view[r].lines
    <3>1. x \in JobView /\ k \in SUBSET Line /\ "" \in Review
      BY ViewsTyped DEF Review
    <3>2. v = [x EXCEPT !.left = k, !.decided = ""]
      OBVIOUS
    <3> HIDE DEF x, k, v
    <3> QED  BY <3>1, <3>2 DEF JobView
  <2> HIDE DEF v
  <2> QED  BY <2>2, <2>3 DEF JobView
<1>4. Overridden' = Overridden
  BY <1>1 DEF Overridden
<1>5. ASSUME ~Overridden PROVE Standing'
  <2>1. Standing /\ view[r].decided \notin Against
    BY <1>1, <1>5 DEF ReviewInv, ReviewRun, Pushing
  <2>2. ~defied'
    BY <1>1, <2>1 DEF Standing
  <2>3. decision = "CANCELED" => blind
    BY <1>1, <2>1 DEF Standing, Pushing
  <2>4. \A q \in Run : job'[q] = "notice" => job[q] = "notice"
    BY <1>2
  <2>5. Present' = Present
    BY <1>1 DEF Present
  <2> QED  BY <1>1, <2>1, <2>2, <2>3, <2>4, <2>5 DEF Standing
<1>6. ReviewRun(r)'
  BY <1>2, <1>3 DEF ReviewRun, Sweeping, Against
<1> QED  BY <1>1, <1>2, <1>4, <1>5, <1>6, ReviewRunKept DEF ReviewInv

LEMMA SyncReview ==
  ASSUME TypeInv, ReviewInv, NEW r \in Run, Syncs(r)
  PROVE  ReviewInv'
<1>1. CASE BoxesList(r) \/ BoxesScan(r) \/ BoxesCreate(r) \/ SyncCollects(r)
  <2> USE DEF BoxesList, BoxesScan, BoxesCreate, SyncCollects
  <2>1. /\ UNCHANGED <<mercari, sales, supplied, decision, defied, blind, reset, notices>>
        /\ \/ \E s \in {"idle", "scan", "create", "recheck"} : Go(r, s)
           \/ UNCHANGED job /\ job[r] = "create"
        /\ \E v : Knows(r, v)
    BY <1>1
  <2>2. job'[r] \notin Watched \cup {"notice"}
    BY <2>1, Others DEF Watched, Sweeping, Pushing
  <2> QED  BY <2>1, <2>2, Others, Passing
<1>2. CASE SyncClaims(r)
  <2> DEFINE v == [view[r] EXCEPT !.left = view[r].lines]
             w == [v EXCEPT !.word = "ALREADY_APPLIED", !.decided = ""]
  <2>1. /\ UNCHANGED <<mercari, sales, supplied, decision, defied, blind, reset, notices>>
        /\ job[r] = "claim"
        /\ \/ Go(r, "attempt") /\ Knows(r, v)
           \/ Go(r, "label") /\ Knows(r, w)
           \/ Quit(r)
    BY <1>2 DEF SyncClaims
  <2>2. v.decided = view[r].decided /\ w.decided = ""
    <3>1. v \in JobView /\ v.decided = view[r].decided
      <4> DEFINE x == view[r]
                 k == view[r].lines
      <4>1. x \in JobView /\ k \in SUBSET Line /\ v = [x EXCEPT !.left = k]
        BY ViewsTyped
      <4> HIDE DEF x, k, v
      <4>2. v \in JobView /\ v.decided = x.decided
        BY <4>1 DEF JobView
      <4> QED  BY <4>2 DEF x
    <3> HIDE DEF v
    <3> QED  BY <3>1 DEF JobView
  <2>3. Blank.decided = ""
    BY DEF Blank
  <2>4. /\ job'[r] \in {"attempt", "label", "idle"}
        /\ view'[r] \in {v, w, Blank}
        /\ \A q \in Run \ {r} : job'[q] = job[q] /\ view'[q] = view[q]
    <3> HIDE DEF v, w
    <3> QED  BY <2>1, Others
  <2>5. view'[r].decided \in {view[r].decided, ""}
    <3> HIDE DEF v, w
    <3> QED  BY <2>2, <2>3, <2>4
  <2> QED  BY <2>1, <2>4, <2>5, Pushes DEF Pushing
<1>3. CASE \/ SyncAttempts(r) \/ SyncAttemptFails(r) \/ SyncAborts(r) \/ SyncSettles(r)
           \/ SyncLabels(r) \/ SyncLabelFails(r)
  <2> USE DEF SyncAttempts, SyncAttemptFails, SyncAborts, SyncSettles, SyncLabels, SyncLabelFails
  <2>1. /\ UNCHANGED <<mercari, sales, supplied, decision, defied, blind, reset, notices>>
        /\ job[r] \in Pushing
    BY <1>3 DEF Pushing
  <2>2. \/ Quit(r)
        \/ /\ \/ \E s \in Pushing : Go(r, s)
              \/ UNCHANGED job
           /\ \/ UNCHANGED view
              \/ \E S : Knows(r, [view[r] EXCEPT !.left = S])
              \/ Knows(r, [view[r] EXCEPT !.word = "UNKNOWN_RESULT"])
              \/ Knows(r, [view[r] EXCEPT !.word = "UNKNOWN_RESULT", !.left = view[r].lines])
    BY <1>3 DEF Pushing
  <2>3. Blank.decided = ""
    BY DEF Blank
  <2>4. /\ \A S : [view[r] EXCEPT !.left = S].decided = view[r].decided
        /\ [view[r] EXCEPT !.word = "UNKNOWN_RESULT"].decided = view[r].decided
        /\ [view[r] EXCEPT !.word = "UNKNOWN_RESULT",
                           !.left = view[r].lines].decided = view[r].decided
    <3> DEFINE x == view[r]
               k == view[r].lines
    <3>1. x \in JobView
      BY ViewsTyped
    <3> HIDE DEF x, k
    <3>2. /\ \A S : [x EXCEPT !.left = S].decided = x.decided
          /\ [x EXCEPT !.word = "UNKNOWN_RESULT"].decided = x.decided
          /\ [x EXCEPT !.word = "UNKNOWN_RESULT", !.left = k].decided = x.decided
      BY <3>1 DEF JobView
    <3> QED  BY <3>2 DEF x, k
  <2> HIDE DEF SyncAttempts, SyncAttemptFails, SyncAborts, SyncSettles, SyncLabels, SyncLabelFails
  <2>5. /\ job'[r] \in Pushing \cup {"idle"}
        /\ \A q \in Run \ {r} : job'[q] = job[q] /\ view'[q] = view[q]
    BY <2>1, <2>2, Others
  <2>6. view'[r].decided \in {view[r].decided, ""}
    <3>1. ASSUME NEW S, Knows(r, [view[r] EXCEPT !.left = S])
          PROVE  view'[r].decided = view[r].decided
      <4>1. view'[r] = [view[r] EXCEPT !.left = S]
        BY <3>1, Others
      <4> QED  BY <2>4, <4>1
    <3>2. ASSUME Knows(r, [view[r] EXCEPT !.word = "UNKNOWN_RESULT"])
          PROVE  view'[r].decided = view[r].decided
      <4>1. view'[r] = [view[r] EXCEPT !.word = "UNKNOWN_RESULT"]
        BY <3>2, Others
      <4> QED  BY <2>4, <4>1
    <3>3. ASSUME Knows(r, [view[r] EXCEPT !.word = "UNKNOWN_RESULT", !.left = view[r].lines])
          PROVE  view'[r].decided = view[r].decided
      <4>1. view'[r] = [view[r] EXCEPT !.word = "UNKNOWN_RESULT", !.left = view[r].lines]
        BY <3>3, Others
      <4> QED  BY <2>4, <4>1
    <3>4. Quit(r) => view'[r].decided = ""
      BY <2>3, Others
    <3> QED  BY <2>2, <3>1, <3>2, <3>3, <3>4
  <2> QED  BY <2>1, <2>5, <2>6, Pushes
<1> QED  BY <1>1, <1>2, <1>3, RecheckReview, SendReview DEF Syncs

LEMMA ReviewInit == MInit => ReviewInv
<1> SUFFICES ASSUME MInit PROVE ReviewInv
  OBVIOUS
<1>1. PICK s \in Openings :
        /\ mercari = s.status
        /\ sales = [l \in Line |->
            IF l # Item THEN NoLine
            ELSE [status |-> s.status,
                  review |-> IF s.status = "SHIPPING" THEN "PENDING_REVIEW" ELSE ""]]
  BY DEF MInit
<1>2. mercari \in MercariStatus
  BY <1>1, OpeningAssumption
<1>3. sales[Item].status # "" /\ \A l \in Line : sales[l].status = "CANCELED" => mercari = "CANCELED"
  BY <1>1, <1>2, LineAssumption DEF NoLine, MercariStatus
<1>4. Standing
  <2>1. notices = 0 /\ decision = "" /\ ~defied /\ \A q \in Run : job[q] # "notice"
    BY DEF MInit
  <2>2. notices <= 1 /\ ~(notices > 0) /\ notices # 1
    <3>1. notices = 0
      BY <2>1
    <3> QED  BY <3>1
  <2> QED  BY <2>1, <2>2 DEF Standing
<1>5. \A r \in Run : ReviewRun(r)
  BY DEF MInit, ReviewRun, Sweeping, Pushing
<1> QED  BY <1>3, <1>4, <1>5 DEF ReviewInv

LEMMA ReviewNext ==
  TypeInv /\ PushInv /\ ReviewInv /\ [MNext]_<<lvars, mvars>> => ReviewInv'
<1> SUFFICES ASSUME TypeInv, PushInv, ReviewInv, [MNext]_<<lvars, mvars>> PROVE ReviewInv'
  OBVIOUS
<1>1. ASSUME NEW r \in Run, Breaks(r) PROVE ReviewInv'
  <2>1. job'[r] \notin Watched \cup {"notice"}
    BY <1>1, Others DEF Breaks, Watched, Sweeping, Pushing
  <2> QED  BY <1>1, <2>1, Others, Passing DEF Breaks
<1>2. CASE MercariMoves \/ UNCHANGED <<lvars, mvars>>
  <2>1. /\ UNCHANGED <<sales, supplied, job, view, history>>
        /\ mercari = "CANCELED" => mercari' = "CANCELED"
    BY <1>2 DEF MercariMoves, mvars
  <2>2. Overridden => Overridden'
    BY <2>1 DEF Overridden
  <2>3. Standing => Standing'
    <3>1. Present' = Present
      BY <2>1 DEF Present
    <3> QED  BY <2>1, <3>1, StandingKept
  <2> QED  BY <2>1, <2>2, <2>3, ReviewRunKept DEF ReviewInv
<1> QED  BY <1>1, <1>2, IngestReview, ReconcileReview, DecideReview, SyncReview DEF MNext

LEMMA ReviewInvariant == MSpec => []ReviewInv
BY TypeInvariant, PushInvariant, ReviewInit, ReviewNext, PTL DEF MSpec

\* The operator's decision holds against every overlap, up to the exceptions
\* the statement names.
THEOREM DecisionCorrect == MSpec => []DecisionHonoured
<1>1. ReviewInv => DecisionHonoured
  BY DEF ReviewInv, Standing, Overridden, DecisionHonoured
<1> QED  BY <1>1, ReviewInvariant, PTL

\* However many runs of the job overlap, the buyer is told once and no
\* operator's decision is replaced.
THEOREM AutoApprovalCorrect == MSpec => []AutoApprovalYields
<1>1. ReviewInv => AutoApprovalYields
  BY DEF ReviewInv, Standing, Overridden, AutoApprovalYields
<1> QED  BY <1>1, ReviewInvariant, PTL
=============================================================================
