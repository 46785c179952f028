------------------------- MODULE MercariClose_proofs -------------------------
(***************************************************************************)
(* Proofs about MercariClose, for every set of orders, every finite set of *)
(* invocations and every bound on faults and releases:                     *)
(*   - type correctness;                                                   *)
(*   - refinement of SubmissionPermits, and from it EveryCallAccounted;    *)
(*   - AppliedMeansAccepted and LocalCompletionProven, from an invariant   *)
(*     that says what every remembered marketplace status still implies.   *)
(***************************************************************************)
EXTENDS MercariClose, TLAPS, FiniteSetTheorems

\* TypeOK is inductive once it says that what is patched is a local status.
TypeInv == TypeOK /\ \A r \in Run : At(r, "patch") => note[r] \in Note

LEMMA TypeInit == Init => TypeInv
<1> SUFFICES ASSUME Init PROVE TypeInv
  OBVIOUS
<1>1. LedgerTypeOK
  BY DEF Init, LedgerInit, LedgerTypeOK, Row, Status, Free
<1>2. /\ market \in [Key -> MarketStatus]
      /\ calls \in [Key -> Nat]
      /\ shopClose \in [Key -> Note]
      /\ pending \subseteq Run \X Key
      /\ accepted \subseteq Run
  BY DEF Init, MarketStatus, Note
<1>3. /\ pc \in [Run -> PC]
      /\ todo \in [Run -> SUBSET Key]
      /\ cur \in [Run -> Key]
      /\ seen \in [Run -> MarketStatus \cup {""}]
      /\ note \in [Run -> Note \cup Status]
      /\ failed \in [Run -> BOOLEAN]
  BY DEF Init, PC, Note
<1>4. op \in Resolution \cup {NoOp} /\ faults = 0
  BY DEF Init
<1>5. faults \in 0..MaxFaults
  BY <1>4, BoundsAssumption
<1>6. \A r \in Run : At(r, "patch") => note[r] \in Note
  BY DEF Init, At, Note
<1> QED BY <1>1, <1>2, <1>3, <1>4, <1>5, <1>6 DEF TypeInv, TypeOK

LEMMA TypeLedger ==
  ASSUME LedgerTypeOK, NEW k \in Key, NEW r \in Run \cup {NoRun}
  PROVE  /\ Claim(k, r) => LedgerTypeOK'
         /\ \A s : Finalize(k, r, s) => LedgerTypeOK'
         /\ \A e, o : Resolve(k, e, o) => LedgerTypeOK'
         /\ UNCHANGED lvars => LedgerTypeOK'
<1>1. ASSUME Claim(k, r) PROVE LedgerTypeOK'
  BY <1>1 DEF Claim, LedgerTypeOK, Row, Status, Open
<1>2. ASSUME NEW s, Finalize(k, r, s) PROVE LedgerTypeOK'
  BY <1>2 DEF Finalize, LedgerTypeOK, Row, Status, Terminal, Open
<1>3. ASSUME NEW e, NEW o, Resolve(k, e, o) PROVE LedgerTypeOK'
  BY <1>3 DEF Resolve, LedgerTypeOK, lvars, Row, Status, Applied, Free
<1>4. ASSUME UNCHANGED lvars PROVE LedgerTypeOK'
  BY <1>4 DEF LedgerTypeOK, lvars
<1> QED BY <1>1, <1>2, <1>3, <1>4

LEMMA TypeFault ==
  ASSUME faults \in 0..MaxFaults
  PROVE  Fault \/ UNCHANGED faults => faults' \in 0..MaxFaults
BY BoundsAssumption DEF Fault

\* One step per action: which of the typed variables it changes, and to what.
LEMMA TypeStep == ASSUME TypeInv, NEW r \in Run, Step(r) PROVE TypeInv'
<1> USE DEF TypeInv, TypeOK, At, Goto, mvars
<1>0. UNCHANGED lvars => LedgerTypeOK'
  BY DEF LedgerTypeOK, lvars
<1>l. /\ Claim(cur[r], r) => LedgerTypeOK'
      /\ \A s : Finalize(cur[r], r, s) => LedgerTypeOK'
      /\ \A e, o : Resolve(cur[r], e, o) => LedgerTypeOK'
  BY TypeLedger
<1>1. CASE Start(r)
  BY <1>0, <1>1 DEF Start, PC
<1>2. CASE Finish(r)
  BY <1>0, <1>2 DEF Finish, PC
<1>3. ASSUME NEW k \in Key, Preflight(r, k) PROVE TypeInv'
  BY <1>0, <1>3 DEF Preflight, PC, Note
<1>4. CASE ClaimCall(r)
  <2>1. /\ note' \in [Run -> Note \cup Status]
        /\ \A q \in Run : pc'[q] = "patch" => note'[q] \in Note
    BY <1>4 DEF ClaimCall, ClaimSeenCompleted, ClaimSeenWaiting, LedgerTypeOK,
                Row, Note, Status, Applied
  <2>2. pc' \in [Run -> PC]
    BY <1>4 DEF ClaimCall, ClaimSeenCompleted, ClaimSeenWaiting, PC
  <2> QED BY <1>l, <1>4, <2>1, <2>2 DEF ClaimCall
<1>5. CASE Execute(r)
  <2> DEFINE k == cur[r]
  <2>k. k \in Key /\ calls \in [Key -> Nat] /\ pending \subseteq Run \X Key
    OBVIOUS
  <2>a. /\ calls' = [calls EXCEPT ![k] = @ + 1]
        /\ pending' = pending \cup {<<r, k>>}
    BY <1>5 DEF Execute
  <2> HIDE DEF k
  <2>1. calls' \in [Key -> Nat] /\ pending' \subseteq Run \X Key
    <3> HIDE DEF TypeOK, TypeInv, At, Goto, mvars
    <3> QED BY <2>k, <2>a
  <2> QED BY <1>0, <1>5, <2>1 DEF Execute, PC
<1>6. CASE ExecuteReturns(r)
  BY <1>0, <1>6 DEF ExecuteReturns, PC
<1>7. CASE ExecuteThrows(r)
  <2>1. faults' \in 0..MaxFaults
    BY <1>7, TypeFault DEF ExecuteThrows
  <2>2. UNCHANGED <<lvars, market, pending, calls, shopClose, todo, cur, seen, note, op>>
    BY <1>7 DEF ExecuteThrows
  <2>3. /\ accepted' \subseteq Run
        /\ failed' \in [Run -> BOOLEAN]
        /\ pc' = [pc EXCEPT ![r] = "readback"]
    BY <1>7 DEF ExecuteThrows
  <2> QED BY <1>0, <2>1, <2>2, <2>3 DEF PC
<1>8. CASE ReadBack(r)
  <2>1. faults' \in 0..MaxFaults
    BY <1>8, TypeFault DEF ReadBack
  <2>2. PICK s \in {market[cur[r]], ""} :
           /\ seen' = [seen EXCEPT ![r] = s]
           /\ note' = [note EXCEPT ![r] =
                     IF ~failed[r] THEN "CONFIRMED"
                     ELSE IF s = "COMPLETED" THEN "ALREADY_APPLIED"
                     ELSE "UNKNOWN_RESULT"]
    BY <1>8 DEF ReadBack
  <2>3. /\ note' \in [Run -> Note \cup Status]
        /\ seen' \in [Run -> MarketStatus \cup {""}]
    BY <2>2 DEF Status, Applied, Open
  <2>4. UNCHANGED <<lvars, mvars, shopClose, todo, cur, failed, op>>
        /\ pc' = [pc EXCEPT ![r] = "finalize"]
    BY <1>8 DEF ReadBack
  <2> QED BY <1>0, <2>1, <2>2, <2>3, <2>4 DEF PC
<1>9. CASE FinalizeCall(r)
  <2>1. /\ note' \in [Run -> Note \cup Status] /\ pc' \in [Run -> PC]
        /\ \A q \in Run : pc'[q] = "patch" => note'[q] \in Note
    BY <1>9 DEF FinalizeCall, FailClosed, Note, PC
  <2> QED BY <1>l, <1>9, <2>1 DEF FinalizeCall
<1>10. CASE ResolveCall(r)
  <2>1. /\ note' \in [Run -> Note \cup Status] /\ pc' \in [Run -> PC]
        /\ \A q \in Run : pc'[q] = "patch" => note'[q] \in Note
    BY <1>10 DEF ResolveCall, FailClosed, Note, PC
  <2> QED BY <1>l, <1>10, <2>1 DEF ResolveCall
<1>11. CASE Complete(r)
  BY <1>0, <1>11 DEF Complete, Leave, Note, PC
<1>12. CASE Patch(r)
  BY <1>0, <1>12 DEF Patch, Leave, Note, PC
<1> QED
  BY <1>1, <1>2, <1>3, <1>4, <1>5, <1>6, <1>7, <1>8, <1>9, <1>10, <1>11, <1>12
  DEF Step

LEMMA TypeFailure == ASSUME TypeInv, NEW r \in Run, Failure(r) PROVE TypeInv'
<1> USE DEF TypeInv, TypeOK, At, Goto, mvars
<1>0. UNCHANGED lvars => LedgerTypeOK'
  BY DEF LedgerTypeOK, lvars
<1>l. /\ Claim(cur[r], r) => LedgerTypeOK'
      /\ \A s : Finalize(cur[r], r, s) => LedgerTypeOK'
      /\ \A e, o : Resolve(cur[r], e, o) => LedgerTypeOK'
  BY TypeLedger
<1>f. Fault => faults' \in 0..MaxFaults
  BY TypeFault
<1>1. ASSUME NEW k \in Key, PreflightFails(r, k) PROVE TypeInv'
  BY <1>0, <1>f, <1>1 DEF PreflightFails
<1>2. ASSUME NEW k \in Key, CallLost(r, k) PROVE TypeInv'
  BY <1>0, <1>f, <1>2 DEF CallLost, rvars
<1>3. CASE ClaimFails(r)
  BY <1>0, <1>l, <1>f, <1>3 DEF ClaimFails, FailClosed, Note, PC
<1>4. CASE FinalizeFails(r)
  BY <1>0, <1>l, <1>f, <1>4 DEF FinalizeFails, FailClosed, Note, PC
<1>5. CASE ResolveFails(r)
  BY <1>0, <1>l, <1>f, <1>5 DEF ResolveFails, FailClosed, Note, PC
<1>6. CASE WriteFails(r)
  BY <1>0, <1>f, <1>6 DEF WriteFails, Leave, Note, PC
<1>7. CASE Crash(r)
  BY <1>0, <1>f, <1>7 DEF Crash, Leave, Note, PC
<1> QED BY <1>1, <1>2, <1>3, <1>4, <1>5, <1>6, <1>7 DEF Failure

LEMMA TypeOutside == ASSUME TypeInv, Outside PROVE TypeInv'
<1> USE DEF TypeInv, TypeOK, At, rvars
<1>0. UNCHANGED lvars => LedgerTypeOK'
  BY DEF LedgerTypeOK, lvars
<1>1. ASSUME NEW r \in Run, NEW k \in Key, Process(r, k) PROVE TypeInv'
  BY <1>0, <1>1 DEF Process, MarketStatus
<1>2. ASSUME NEW k \in Key, MarketMoves(k) PROVE TypeInv'
  BY <1>0, <1>2 DEF MarketMoves, MarketStatus
<1>3. ASSUME NEW k \in Key, OperatorReads(k) PROVE TypeInv'
  BY <1>0, <1>3 DEF OperatorReads, mvars, Resolution, Evidence
<1>4. CASE OperatorResolves
  <2>1. op.key \in Key
    BY <1>4 DEF OperatorResolves, Resolution
  <2>2. LedgerTypeOK'
    BY <1>4, <2>1, TypeLedger DEF OperatorResolves
  <2> QED BY <1>4, <2>2 DEF OperatorResolves, mvars
<1> QED BY <1>1, <1>2, <1>3, <1>4 DEF Outside

LEMMA TypeNext == TypeInv /\ [Next]_vars => TypeInv'
<1> SUFFICES ASSUME TypeInv, [Next]_vars PROVE TypeInv'
  OBVIOUS
<1>1. CASE UNCHANGED vars
  BY <1>1 DEF vars, lvars, rvars, mvars, LedgerTypeOK, TypeInv, TypeOK, At
<1>2. CASE Next
  BY <1>2, TypeStep, TypeFailure, TypeOutside DEF Next
<1> QED BY <1>1, <1>2

LEMMA TypeInvariant == Spec => []TypeInv
<1> QED BY TypeInit, TypeNext, PTL DEF Spec

\* Every variable keeps its type, in particular no run, resolver or lost
\* response ever stores a ledger status outside the ones the table allows.
THEOREM TypeCorrect == Spec => []TypeOK
<1>1. TypeInv => TypeOK
  BY DEF TypeInv
<1> QED BY <1>1, TypeInvariant, PTL

-----------------------------------------------------------------------------
(* What an invocation remembers about the marketplace stays true.          *)

Done(k) == market[k] \in {"COMPLETING", "COMPLETED"}

\* What invocation r relies on at each point of its iteration.
RunInv(r) ==
  /\ r \in accepted => pc[r] = "wait" /\ Done(cur[r])
  /\ pc[r] = "readback" /\ ~failed[r] => Done(cur[r])
  /\ pc[r] = "finalize" /\ note[r] \in Applied => Done(cur[r])
  /\ pc[r] \in {"claim", "finalize"} /\ seen[r] = "COMPLETED"
        => market[cur[r]] = "COMPLETED"
  /\ pc[r] \in {"resolve", "complete"} => market[cur[r]] = "COMPLETED"
  /\ pc[r] = "patch" => note[r] # "Completed"

OpInv == op # NoOp /\ op.outcome = "APPLIED" => Done(op.key)

MarketInv == /\ AppliedMeansAccepted
             /\ LocalCompletionProven
             /\ OpInv
             /\ \A r \in Run : RunInv(r)

\* The marketplace never takes back a completion.
LEMMA MarketStable ==
  ASSUME TypeInv, [Next]_vars, NEW k \in Key
  PROVE  /\ Done(k) => Done(k)'
         /\ market[k] = "COMPLETED" => market'[k] = "COMPLETED"
<1> USE DEF Done, mvars, TypeInv, TypeOK
<1>1. CASE UNCHANGED vars
  BY <1>1 DEF vars
<1>2. ASSUME NEW r \in Run, Step(r) PROVE UNCHANGED market
  BY <1>2 DEF Step, Start, Finish, Preflight, ClaimCall, Execute, ExecuteReturns,
     ExecuteThrows, ReadBack, FinalizeCall, ResolveCall, Complete, Patch
<1>3. ASSUME NEW r \in Run, Failure(r) PROVE UNCHANGED market
  BY <1>3 DEF Failure, PreflightFails, CallLost, ClaimFails, FinalizeFails,
     ResolveFails, WriteFails, Crash
<1>4. ASSUME NEW r \in Run, NEW j \in Key, Process(r, j)
      PROVE  /\ Done(k) => Done(k)'
             /\ market[k] = "COMPLETED" => market'[k] = "COMPLETED"
  BY <1>4 DEF Process
<1>5. ASSUME NEW j \in Key, MarketMoves(j)
      PROVE  /\ Done(k) => Done(k)'
             /\ market[k] = "COMPLETED" => market'[k] = "COMPLETED"
  BY <1>5 DEF MarketMoves
<1>6. ASSUME NEW j \in Key, OperatorReads(j) PROVE UNCHANGED market
  BY <1>6 DEF OperatorReads
<1>7. CASE OperatorResolves
  BY <1>7 DEF OperatorResolves
<1> QED BY <1>1, <1>2, <1>3, <1>4, <1>5, <1>6, <1>7 DEF Next, Outside

LEMMA MarketInit == Init => MarketInv
<1> SUFFICES ASSUME Init PROVE MarketInv
  OBVIOUS
<1>1. AppliedMeansAccepted
  BY DEF Init, LedgerInit, AppliedMeansAccepted, Applied
<1>2. LocalCompletionProven /\ OpInv
  BY DEF Init, LocalCompletionProven, OpInv
<1>3. ASSUME NEW r \in Run PROVE RunInv(r)
  BY <1>3 DEF Init, RunInv
<1> QED BY <1>1, <1>2, <1>3 DEF MarketInv

\* A ledger row becomes applied only through a caller who knows Done.
LEMMA LedgerApplied ==
  ASSUME LedgerTypeOK, NEW k \in Key, NEW j \in Key
  PROVE  /\ \A r : Claim(k, r) /\ ledger'[j].status \in Applied
                     => ledger[j].status \in Applied
         /\ \A r, s : Finalize(k, r, s) /\ ledger'[j].status \in Applied
                     => ledger[j].status \in Applied \/ (j = k /\ s \in Applied)
         /\ \A e, o : Resolve(k, e, o) /\ ledger'[j].status \in Applied
                     => ledger[j].status \in Applied \/ (j = k /\ o = "APPLIED")
<1> USE DEF LedgerTypeOK, Row, Applied
<1>1. ASSUME NEW r, Claim(k, r), ledger'[j].status \in Applied
      PROVE  ledger[j].status \in Applied
  BY <1>1 DEF Claim
<1>2. ASSUME NEW r, NEW s, Finalize(k, r, s), ledger'[j].status \in Applied
      PROVE  ledger[j].status \in Applied \/ (j = k /\ s \in Applied)
  BY <1>2 DEF Finalize
<1>3. ASSUME NEW e, NEW o, Resolve(k, e, o), ledger'[j].status \in Applied
      PROVE  ledger[j].status \in Applied \/ (j = k /\ o = "APPLIED")
  BY <1>3 DEF Resolve, lvars
<1> QED BY <1>1, <1>2, <1>3

\* A step of one invocation leaves the others where they were.
LEMMA OtherRuns ==
  ASSUME TypeInv, NEW r \in Run, Step(r) \/ Failure(r)
  PROVE  /\ op' = op
         /\ \A q \in Run \ {r} :
              /\ UNCHANGED <<pc[q], cur[q], seen[q], note[q], failed[q]>>
              /\ q \in accepted' => q \in accepted
<1> USE DEF TypeInv, TypeOK, Goto, Leave, mvars, rvars
<1>1. CASE Step(r)
  <2>1. CASE Start(r) \/ Finish(r) \/ (\E k \in Key : Preflight(r, k))
    BY <2>1 DEF Start, Finish, Preflight
  <2>2. CASE ClaimCall(r) \/ Execute(r) \/ ExecuteReturns(r) \/ ExecuteThrows(r)
    BY <2>2 DEF ClaimCall, ClaimSeenCompleted, ClaimSeenWaiting, Execute,
                ExecuteReturns, ExecuteThrows
  <2>3. CASE ReadBack(r)
    BY <2>3 DEF ReadBack
  <2>4. CASE FinalizeCall(r) \/ ResolveCall(r)
    BY <2>4 DEF FinalizeCall, ResolveCall, FailClosed
  <2>5. CASE Complete(r) \/ Patch(r)
    BY <2>5 DEF Complete, Patch
  <2> QED BY <1>1, <2>1, <2>2, <2>3, <2>4, <2>5 DEF Step
<1>2. CASE Failure(r)
  BY <1>2 DEF Failure, PreflightFails, CallLost, ClaimFails, FinalizeFails,
     ResolveFails, WriteFails, Crash, FailClosed
<1> QED BY <1>1, <1>2

\* What an invocation that does not move relies on survives any step.
LEMMA RunInvFrame ==
  ASSUME TypeInv, [Next]_vars, NEW q \in Run, RunInv(q),
         UNCHANGED <<pc[q], cur[q], seen[q], note[q], failed[q]>>,
         q \in accepted' => q \in accepted
  PROVE  RunInv(q)'
<1>1. cur[q] \in Key
  BY DEF TypeInv, TypeOK
<1>2. /\ Done(cur[q]) => Done(cur[q])'
      /\ market[cur[q]] = "COMPLETED" => market'[cur[q]] = "COMPLETED"
  BY <1>1, MarketStable DEF Done
<1> QED BY <1>2 DEF RunInv, Done

\* Its own step keeps what the invocation relies on next.
LEMMA RunInvStep ==
  ASSUME TypeInv, NEW r \in Run, Step(r) \/ Failure(r), RunInv(r)
  PROVE  RunInv(r)'
<1> USE DEF TypeInv, TypeOK, RunInv, Done, At, Goto, Leave, mvars, rvars
<1>1. CASE Start(r) \/ Finish(r)
  BY <1>1 DEF Start, Finish
<1>9. ASSUME NEW k \in Key, Preflight(r, k) PROVE RunInv(r)'
  <2>1. cur'[r] = k /\ seen'[r] = market[k] /\ UNCHANGED market
    BY <1>9 DEF Preflight
  <2>2. r \notin accepted'
    BY <1>9 DEF Preflight
  <2>3. \/ pc'[r] = "claim"
        \/ pc'[r] = "patch" /\ note'[r] # "Completed"
    BY <1>9 DEF Preflight
  <2> QED BY <2>1, <2>2, <2>3
<1>2. CASE ClaimCall(r)
  BY <1>2 DEF ClaimCall, ClaimSeenCompleted, ClaimSeenWaiting, Note
<1>3. CASE Execute(r)
  BY <1>3 DEF Execute
<1>4. CASE ExecuteReturns(r) \/ ExecuteThrows(r)
  BY <1>4 DEF ExecuteReturns, ExecuteThrows
<1>5. CASE ReadBack(r)
  BY <1>5 DEF ReadBack, Applied
<1>6. CASE FinalizeCall(r) \/ ResolveCall(r)
  BY <1>6 DEF FinalizeCall, ResolveCall, FailClosed
<1>7. CASE Complete(r) \/ Patch(r)
  BY <1>7 DEF Complete, Patch
<1>8. CASE Failure(r)
  BY <1>8 DEF Failure, PreflightFails, CallLost, ClaimFails, FinalizeFails,
              ResolveFails, WriteFails, Crash, FailClosed
<1> QED BY <1>1, <1>9, <1>2, <1>3, <1>4, <1>5, <1>6, <1>7, <1>8 DEF Step

LEMMA MarketRun ==
  ASSUME TypeInv, MarketInv, NEW r \in Run, Step(r) \/ Failure(r)
  PROVE  MarketInv'
<1>0. [Next]_vars
  BY DEF Next
<1>k. cur[r] \in Key /\ RunInv(r)
  BY DEF TypeInv, TypeOK, MarketInv
<1>s. \A k \in Key : /\ Done(k) => Done(k)'
                     /\ market[k] = "COMPLETED" => market'[k] = "COMPLETED"
  BY <1>0, MarketStable
<1>1. AppliedMeansAccepted'
  <2>1. SUFFICES ASSUME NEW k \in Key, ledger'[k].status \in Applied
                 PROVE  ledger[k].status \in Applied \/ Done(k)
    BY <1>s DEF AppliedMeansAccepted, MarketInv, Done
  <2> USE <1>k, <2>1, LedgerApplied DEF TypeInv, TypeOK
  <2>2. CASE ClaimCall(r) \/ ClaimFails(r)
    BY <2>2 DEF ClaimCall, ClaimFails, lvars
  <2>3. CASE FinalizeCall(r) \/ FinalizeFails(r)
    BY <2>3 DEF FinalizeCall, FinalizeFails, lvars, RunInv, At
  <2>4. CASE ResolveCall(r) \/ ResolveFails(r)
    BY <2>4 DEF ResolveCall, ResolveFails, lvars, RunInv, At, Done
  <2>5. CASE UNCHANGED ledger
    BY <2>5
  <2> QED
    BY <2>2, <2>3, <2>4, <2>5 DEF lvars, Step, Failure, Start, Finish, Preflight,
       Execute, ExecuteReturns, ExecuteThrows, ReadBack, Complete, Patch,
       PreflightFails, CallLost, WriteFails, Crash
<1>2. LocalCompletionProven'
  <2>1. SUFFICES ASSUME NEW k \in Key, shopClose'[k] = "Completed"
                 PROVE  market[k] = "COMPLETED"
    BY <1>s DEF LocalCompletionProven
  <2>2. shopClose[k] = "Completed" => market[k] = "COMPLETED"
    BY DEF MarketInv, LocalCompletionProven
  <2>3. CASE Complete(r)
    BY <1>k, <2>1, <2>2, <2>3 DEF Complete, RunInv, At, TypeInv, TypeOK
  <2>4. CASE Patch(r)
    BY <1>k, <2>1, <2>2, <2>4 DEF Patch, RunInv, At, TypeInv, TypeOK
  <2>5. CASE UNCHANGED shopClose
    BY <2>1, <2>2, <2>5
  <2> QED
    BY <2>3, <2>4, <2>5 DEF Step, Failure, Start, Finish, Preflight, ClaimCall,
       Execute, ExecuteReturns, ExecuteThrows, ReadBack, FinalizeCall, ResolveCall,
       PreflightFails, CallLost, ClaimFails, FinalizeFails, ResolveFails,
       WriteFails, Crash
<1>3. OpInv'
  <2>1. op' = op
    BY OtherRuns
  <2>2. op # NoOp => op.key \in Key
    BY DEF TypeInv, TypeOK, Resolution
  <2> QED BY <1>s, <2>1, <2>2 DEF OpInv, MarketInv, Done
<1>4. ASSUME NEW q \in Run PROVE RunInv(q)'
  <2>1. CASE q = r
    BY <2>1, <1>k, RunInvStep
  <2>2. CASE q # r
    BY <2>2, <1>0, OtherRuns, RunInvFrame DEF MarketInv
  <2> QED BY <2>1, <2>2
<1> QED BY <1>1, <1>2, <1>3, <1>4 DEF MarketInv

LEMMA MarketOutside == ASSUME TypeInv, MarketInv, Outside PROVE MarketInv'
<1>0. [Next]_vars
  BY DEF Next
<1>s. \A k \in Key : /\ Done(k) => Done(k)'
                     /\ market[k] = "COMPLETED" => market'[k] = "COMPLETED"
  BY <1>0, MarketStable
<1>t. op # NoOp => op.key \in Key
  BY DEF TypeInv, TypeOK, Resolution
<1>1. ASSUME NEW r \in Run, NEW k \in Key, Process(r, k) PROVE MarketInv'
  <2>1. UNCHANGED <<ledger, shopClose, op>>
    BY <1>1 DEF Process, lvars
  <2>2. AppliedMeansAccepted' /\ LocalCompletionProven' /\ OpInv'
    BY <1>s, <1>t, <2>1 DEF MarketInv, AppliedMeansAccepted, LocalCompletionProven,
                            OpInv, Done
  <2>3. ASSUME NEW q \in Run PROVE RunInv(q)'
    <3>1. UNCHANGED <<pc[q], cur[q], seen[q], note[q], failed[q]>>
      BY <1>1 DEF Process, rvars
    <3>2. CASE q \in accepted' => q \in accepted
      BY <1>0, <3>1, <3>2, RunInvFrame DEF MarketInv
    <3>3. CASE q \in accepted' /\ q \notin accepted
      <4>1. q = r /\ pc[r] = "wait" /\ cur[r] = k
        BY <1>1, <3>3 DEF Process, At
      <4>2. Done(k)'
        BY <1>1, <3>3 DEF Process, Done, TypeInv, TypeOK
      <4> QED BY <3>1, <4>1, <4>2 DEF RunInv, Done
    <3> QED BY <3>2, <3>3
  <2> QED BY <2>2, <2>3 DEF MarketInv
<1>2. ASSUME NEW k \in Key, MarketMoves(k) \/ OperatorReads(k) PROVE MarketInv'
  <2>1. UNCHANGED <<ledger, shopClose, accepted, rvars>>
    BY <1>2 DEF MarketMoves, OperatorReads, lvars, mvars
  <2>2. AppliedMeansAccepted' /\ LocalCompletionProven'
    BY <1>s, <2>1 DEF MarketInv, AppliedMeansAccepted, LocalCompletionProven, Done
  <2>3. OpInv'
    <3>1. CASE MarketMoves(k)
      BY <1>s, <1>t, <3>1 DEF MarketMoves, MarketInv, OpInv
    <3>2. CASE OperatorReads(k)
      BY <3>2 DEF OperatorReads, OpInv, Evidence, Done, mvars
    <3> QED BY <1>2, <3>1, <3>2
  <2>4. \A q \in Run : RunInv(q)'
    BY <1>0, <2>1, RunInvFrame DEF MarketInv, rvars
  <2> QED BY <2>2, <2>3, <2>4 DEF MarketInv
<1>3. CASE OperatorResolves
  <2>1. UNCHANGED <<market, shopClose, accepted, rvars>> /\ op' = NoOp
    BY <1>3 DEF OperatorResolves, mvars
  <2>2. AppliedMeansAccepted'
    <3>1. SUFFICES ASSUME NEW k \in Key, ledger'[k].status \in Applied
                   PROVE  ledger[k].status \in Applied \/ Done(k)
      BY <1>s DEF AppliedMeansAccepted, MarketInv, Done
    <3>2. op # NoOp /\ op.key \in Key /\ Resolve(op.key, op.expected, op.outcome)
      BY <1>3, <1>t DEF OperatorResolves
    <3>3. ledger[k].status \in Applied \/ (k = op.key /\ op.outcome = "APPLIED")
      BY <3>1, <3>2, LedgerApplied DEF TypeInv, TypeOK
    <3> QED BY <3>2, <3>3 DEF MarketInv, OpInv
  <2>3. LocalCompletionProven' /\ OpInv'
    BY <2>1 DEF MarketInv, LocalCompletionProven, OpInv
  <2>4. \A q \in Run : RunInv(q)'
    BY <1>0, <2>1, RunInvFrame DEF MarketInv, rvars
  <2> QED BY <2>2, <2>3, <2>4 DEF MarketInv
<1> QED BY <1>1, <1>2, <1>3 DEF Outside

LEMMA MarketNext == TypeInv /\ MarketInv /\ [Next]_vars => MarketInv'
<1> SUFFICES ASSUME TypeInv, MarketInv, [Next]_vars PROVE MarketInv'
  OBVIOUS
<1>1. CASE UNCHANGED vars
  BY <1>1 DEF vars, lvars, mvars, rvars, MarketInv, AppliedMeansAccepted,
     LocalCompletionProven, OpInv, RunInv, Done
<1>2. CASE Next
  BY <1>2, MarketRun, MarketOutside DEF Next
<1> QED BY <1>1, <1>2

LEMMA MarketInvariant == Spec => []MarketInv
<1> QED BY TypeInvariant, MarketInit, MarketNext, PTL DEF Spec

\* A ledger row is applied only for an order the marketplace accepted, for any
\* number of overlapping invocations, crashes, lost answers and resolutions.
THEOREM AppliedCorrect == Spec => []AppliedMeansAccepted
<1>1. MarketInv => AppliedMeansAccepted
  BY DEF MarketInv
<1> QED BY <1>1, MarketInvariant, PTL

\* The local order is completed only for one the marketplace has completed.
THEOREM CompletionCorrect == Spec => []LocalCompletionProven
<1>1. MarketInv => LocalCompletionProven
  BY DEF MarketInv
<1> QED BY <1>1, MarketInvariant, PTL

-----------------------------------------------------------------------------
(* The ledger hands out submission permits.                                *)

\* The permits of k: won claims not yet acted on, and the claim still open.
PermitsOf(k) == Cardinality(Holders(k)) + Bit(ledger[k].status \in Free)

LEMMA HoldersFinite ==
  ASSUME NEW k \in Key
  PROVE  /\ IsFiniteSet(Holders(k)) /\ Cardinality(Holders(k)) \in Nat
         /\ PermitsOf(k) \in Nat
         /\ ledger[k].status \in Free => PermitsOf(k) > 0
<1>1. Holders(k) \subseteq Run
  BY DEF Holders
<1>2. IsFiniteSet(Holders(k))
  BY <1>1, FS_Subset, RunAssumption
<1>3. Cardinality(Holders(k)) \in Nat
  BY <1>2, FS_CardinalityType
<1> QED BY <1>2, <1>3 DEF PermitsOf, Bit

\* The three steps of SubmissionPermits, seen through the refinement mapping.
LEMMA MapStutter ==
  ASSUME \A j \in Key : PermitsOf(j)' = PermitsOf(j), UNCHANGED <<released, calls>>
  PROVE  UNCHANGED Permits!pvars
BY DEF Permits!pvars, PermitsOf

LEMMA MapLose ==
  ASSUME NEW k \in Key, PermitsOf(k) > 0, PermitsOf(k)' = PermitsOf(k) - 1,
         \A j \in Key \ {k} : PermitsOf(j)' = PermitsOf(j),
         UNCHANGED <<released, calls>>
  PROVE  Permits!PNext
<1>1. Permits!Lose(k)
  BY DEF Permits!Lose, PermitsOf
<1> QED BY <1>1 DEF Permits!PNext

LEMMA MapSubmit ==
  ASSUME NEW k \in Key, PermitsOf(k) > 0, PermitsOf(k)' = PermitsOf(k) - 1,
         \A j \in Key \ {k} : PermitsOf(j)' = PermitsOf(j),
         calls' = [calls EXCEPT ![k] = @ + 1], UNCHANGED released
  PROVE  Permits!PNext
<1>1. Permits!Submit(k)
  BY DEF Permits!Submit, PermitsOf
<1> QED BY <1>1 DEF Permits!PNext

LEMMA MapAuthorise ==
  ASSUME NEW k \in Key, PermitsOf(k)' = PermitsOf(k) + 1,
         \A j \in Key \ {k} : PermitsOf(j)' = PermitsOf(j),
         released' = [released EXCEPT ![k] = @ + 1], UNCHANGED calls
  PROVE  Permits!PNext
<1>1. Permits!Authorise(k)
  BY DEF Permits!Authorise, PermitsOf
<1> QED BY <1>1 DEF Permits!PNext

\* Which runs hold a permit after a step of r.
LEMMA HoldersStep ==
  ASSUME TypeInv, NEW r \in Run, NEW k \in Key,
         \A q \in Run \ {r} : UNCHANGED <<pc[q], cur[q]>>
  PROVE  /\ pc[r] # "execute" /\ pc'[r] # "execute" => Holders(k)' = Holders(k)
         /\ UNCHANGED cur /\ cur[r] # k => Holders(k)' = Holders(k)
         /\ UNCHANGED cur /\ cur[r] = k /\ pc[r] = "execute" /\ pc'[r] # "execute"
              => Cardinality(Holders(k))' = Cardinality(Holders(k)) - 1
                 /\ Cardinality(Holders(k)) > 0
         /\ UNCHANGED cur /\ cur[r] = k /\ pc[r] # "execute" /\ pc'[r] = "execute"
              => Cardinality(Holders(k))' = Cardinality(Holders(k)) + 1
<1>1. ASSUME pc[r] # "execute", pc'[r] # "execute" PROVE Holders(k)' = Holders(k)
  BY <1>1 DEF Holders
<1>2. ASSUME UNCHANGED cur, cur[r] # k PROVE Holders(k)' = Holders(k)
  BY <1>2 DEF Holders
<1>3. ASSUME UNCHANGED cur, cur[r] = k, pc[r] = "execute", pc'[r] # "execute"
      PROVE  /\ Cardinality(Holders(k))' = Cardinality(Holders(k)) - 1
             /\ Cardinality(Holders(k)) > 0
  <2>1. Holders(k)' = Holders(k) \ {r} /\ r \in Holders(k)
    BY <1>3 DEF Holders
  <2>2. /\ Cardinality(Holders(k) \ {r}) = Cardinality(Holders(k)) - 1
        /\ Cardinality(Holders(k) \ {r}) \in Nat
    BY <2>1, HoldersFinite, FS_RemoveElement, FS_CardinalityType
  <2> QED BY <2>1, <2>2, HoldersFinite
<1>4. ASSUME UNCHANGED cur, cur[r] = k, pc[r] # "execute", pc'[r] = "execute"
      PROVE  Cardinality(Holders(k))' = Cardinality(Holders(k)) + 1
  <2>1. Holders(k)' = Holders(k) \cup {r} /\ r \notin Holders(k)
    BY <1>4 DEF Holders
  <2> QED BY <2>1, HoldersFinite, FS_AddElement
<1> QED BY <1>1, <1>2, <1>3, <1>4

\* Only a won claim closes a key, only a NOT_APPLIED resolution reopens one.
LEMMA LedgerFree ==
  ASSUME LedgerTypeOK, NEW k \in Key
  PROVE  /\ \A r : Claim(k, r) =>
              /\ UNCHANGED released
              /\ \A j \in Key \ {k} : ledger'[j] = ledger[j]
              /\ IF Claimable(k) THEN ledger'[k].status \notin Free
                                 ELSE ledger' = ledger
         /\ \A r, s : Finalize(k, r, s) =>
              /\ UNCHANGED released
              /\ \A j \in Key : ledger'[j].status \in Free <=> ledger[j].status \in Free
         /\ \A e : Resolve(k, e, "APPLIED") =>
              /\ UNCHANGED released
              /\ \A j \in Key : ledger'[j].status \in Free <=> ledger[j].status \in Free
         /\ \A e : Resolve(k, e, "NOT_APPLIED") =>
              \/ UNCHANGED lvars
              \/ /\ released' = [released EXCEPT ![k] = @ + 1]
                 /\ ledger[k].status \notin Free /\ ledger'[k].status \in Free
                 /\ \A j \in Key \ {k} : ledger'[j] = ledger[j]
<1> USE DEF LedgerTypeOK, Row, Free
<1>1. ASSUME NEW r, Claim(k, r)
      PROVE  /\ UNCHANGED released
             /\ \A j \in Key \ {k} : ledger'[j] = ledger[j]
             /\ IF Claimable(k) THEN ledger'[k].status \notin Free
                                ELSE ledger' = ledger
  BY <1>1 DEF Claim
<1>2. ASSUME NEW r, NEW s, Finalize(k, r, s)
      PROVE  /\ UNCHANGED released
             /\ \A j \in Key : ledger'[j].status \in Free <=> ledger[j].status \in Free
  BY <1>2 DEF Finalize, Owns, Terminal, Applied
<1>3. ASSUME NEW e, Resolve(k, e, "APPLIED")
      PROVE  /\ UNCHANGED released
             /\ \A j \in Key : ledger'[j].status \in Free <=> ledger[j].status \in Free
  BY <1>3 DEF Resolve, Resolvable, Open, lvars
<1>4. ASSUME NEW e, Resolve(k, e, "NOT_APPLIED")
      PROVE  \/ UNCHANGED lvars
             \/ /\ released' = [released EXCEPT ![k] = @ + 1]
                /\ ledger[k].status \notin Free /\ ledger'[k].status \in Free
                /\ \A j \in Key \ {k} : ledger'[j] = ledger[j]
  BY <1>4 DEF Resolve, Resolvable, Open
<1> QED BY <1>1, <1>2, <1>3, <1>4

\* Each step of an invocation keeps the permits, loses one, or submits on one.
LEMMA RefineRun ==
  ASSUME TypeInv, NEW r \in Run, Step(r) \/ Failure(r)
  PROVE  Permits!PNext \/ UNCHANGED Permits!pvars
<1>c. PICK k \in Key : k = cur[r]
  BY DEF TypeInv, TypeOK
<1>k. k \in Key /\ LedgerTypeOK
  BY DEF TypeInv, TypeOK
<1>q. \A q \in Run \ {r} : UNCHANGED <<pc[q], cur[q]>>
  BY OtherRuns
<1>t. pc \in [Run -> PC]
  BY DEF TypeInv, TypeOK
<1> DEFINE Same(j) == ledger'[j].status \in Free <=> ledger[j].status \in Free
<1>quiet. ASSUME pc[r] # "execute", pc'[r] # "execute",
                 \A j \in Key : Same(j), UNCHANGED <<released, calls>>
          PROVE  UNCHANGED Permits!pvars
  BY <1>quiet, <1>q, HoldersStep, MapStutter DEF PermitsOf, Bit
<1>won. ASSUME Claim(k, r), Claimable(k), pc[r] # "execute", pc'[r] # "execute",
               UNCHANGED calls
        PROVE  Permits!PNext
  <2>1. /\ UNCHANGED released /\ ledger'[k].status \notin Free
        /\ \A j \in Key \ {k} : ledger'[j] = ledger[j]
    BY <1>won, <1>k, LedgerFree
  <2>2. \A j \in Key : Holders(j)' = Holders(j)
    BY <1>won, <1>q, HoldersStep
  <2>3. PermitsOf(k) > 0 /\ PermitsOf(k)' = PermitsOf(k) - 1
    BY <1>won, <1>k, <2>1, <2>2, HoldersFinite DEF Claimable, PermitsOf, Bit
  <2>4. \A j \in Key \ {k} : PermitsOf(j)' = PermitsOf(j)
    BY <2>1, <2>2 DEF PermitsOf, Bit
  <2> QED BY <1>won, <1>k, <2>1, <2>3, <2>4, MapLose
<1>left. ASSUME pc[r] = "execute", pc'[r] # "execute", UNCHANGED <<lvars, cur>>
         PROVE  /\ PermitsOf(k) > 0 /\ PermitsOf(k)' = PermitsOf(k) - 1
                /\ \A j \in Key \ {k} : PermitsOf(j)' = PermitsOf(j)
  <2>1. \A j \in Key : Bit(ledger[j].status \in Free)' = Bit(ledger[j].status \in Free)
                       /\ Bit(ledger[j].status \in Free) \in {0, 1}
    BY <1>left DEF lvars, Bit
  <2>2. /\ Cardinality(Holders(k))' = Cardinality(Holders(k)) - 1
        /\ Cardinality(Holders(k)) > 0
        /\ \A j \in Key \ {k} : Holders(j)' = Holders(j)
    BY <1>c, <1>left, <1>k, <1>q, HoldersStep
  <2> QED BY <1>k, <2>1, <2>2, HoldersFinite DEF PermitsOf
<1> USE DEF At, Goto, Leave, mvars
<1>1. CASE Start(r) \/ Finish(r) \/ (\E j \in Key : Preflight(r, j))
  BY <1>1, <1>quiet, <1>t DEF Start, Finish, Preflight, lvars
<1>2. CASE ClaimCall(r)
  <2>1. Claim(k, r) /\ pc[r] = "claim" /\ UNCHANGED <<calls, cur>>
    BY <1>c, <1>2 DEF ClaimCall
  <2>2. CASE ~Claimable(k)
    <3>1. pc'[r] # "execute"
      BY <1>c, <1>2, <1>t, <2>2 DEF ClaimCall, ClaimSeenCompleted, ClaimSeenWaiting
    <3> QED BY <1>quiet, <1>k, <2>1, <2>2, <3>1, LedgerFree
  <2>3. CASE Claimable(k) /\ pc'[r] # "execute"
    BY <1>won, <2>1, <2>3
  <2>4. CASE Claimable(k) /\ pc'[r] = "execute"
    <3>1. /\ UNCHANGED released /\ ledger'[k].status \notin Free
          /\ \A j \in Key \ {k} : ledger'[j] = ledger[j]
      BY <1>k, <2>1, <2>4, LedgerFree
    <3>2. /\ Cardinality(Holders(k))' = Cardinality(Holders(k)) + 1
          /\ \A j \in Key \ {k} : Holders(j)' = Holders(j)
      BY <1>c, <1>k, <1>q, <2>1, <2>4, HoldersStep
    <3>3. PermitsOf(k)' = PermitsOf(k)
      BY <1>k, <2>4, <3>1, <3>2, HoldersFinite DEF PermitsOf, Bit, Claimable
    <3>4. \A j \in Key \ {k} : PermitsOf(j)' = PermitsOf(j)
      BY <3>1, <3>2 DEF PermitsOf, Bit
    <3> QED BY <2>1, <3>1, <3>3, <3>4, MapStutter
  <2> QED BY <2>2, <2>3, <2>4
<1>3. CASE Execute(r)
  <2>1. /\ pc[r] = "execute" /\ pc'[r] # "execute" /\ UNCHANGED <<lvars, cur>>
        /\ calls' = [calls EXCEPT ![k] = @ + 1]
    BY <1>c, <1>3, <1>t DEF Execute
  <2> QED BY <1>left, <1>k, <2>1, MapSubmit DEF lvars
<1>4. CASE ExecuteReturns(r) \/ ExecuteThrows(r) \/ ReadBack(r)
  BY <1>4, <1>quiet, <1>t DEF ExecuteReturns, ExecuteThrows, ReadBack, lvars
<1>5. CASE FinalizeCall(r) \/ FinalizeFails(r)
  <2>1. /\ pc[r] # "execute" /\ pc'[r] # "execute" /\ UNCHANGED calls
        /\ Finalize(k, r, note[r]) \/ UNCHANGED lvars
    BY <1>c, <1>5, <1>t DEF FinalizeCall, FinalizeFails, FailClosed
  <2> QED BY <1>quiet, <1>k, <2>1, LedgerFree DEF lvars
<1>6. CASE ResolveCall(r) \/ ResolveFails(r)
  <2>1. /\ pc[r] # "execute" /\ pc'[r] # "execute" /\ UNCHANGED calls
        /\ Resolve(k, note[r], "APPLIED") \/ UNCHANGED lvars
    BY <1>c, <1>6, <1>t DEF ResolveCall, ResolveFails, FailClosed
  <2> QED BY <1>quiet, <1>k, <2>1, LedgerFree DEF lvars
<1>7. CASE Complete(r) \/ Patch(r) \/ WriteFails(r)
  BY <1>7, <1>quiet, <1>t DEF Complete, Patch, WriteFails, lvars
<1>8. CASE \E j \in Key : PreflightFails(r, j) \/ CallLost(r, j)
  <2>1. UNCHANGED <<ledger, released, calls, pc, cur>>
    BY <1>8 DEF PreflightFails, CallLost, lvars, rvars
  <2> QED BY <2>1, MapStutter DEF PermitsOf, Holders
<1>9. CASE ClaimFails(r)
  <2>1. /\ pc[r] # "execute" /\ pc'[r] # "execute" /\ UNCHANGED calls
        /\ Claim(k, r) \/ UNCHANGED lvars
    BY <1>c, <1>9, <1>t DEF ClaimFails, FailClosed
  <2>2. CASE Claim(k, r) /\ Claimable(k)
    BY <1>won, <2>1, <2>2
  <2>3. CASE Claim(k, r) /\ ~Claimable(k)
    BY <1>quiet, <1>k, <2>1, <2>3, LedgerFree
  <2>4. CASE UNCHANGED lvars
    BY <1>quiet, <2>1, <2>4 DEF lvars
  <2> QED BY <2>1, <2>2, <2>3, <2>4
<1>10. CASE Crash(r)
  <2>1. pc'[r] # "execute" /\ UNCHANGED <<lvars, calls, cur>>
    BY <1>10, <1>t DEF Crash
  <2>2. CASE pc[r] = "execute"
    BY <1>left, <1>k, <2>1, <2>2, MapLose DEF lvars
  <2>3. CASE pc[r] # "execute"
    BY <1>quiet, <2>1, <2>3 DEF lvars
  <2> QED BY <2>2, <2>3
<1> QED
  BY <1>1, <1>2, <1>3, <1>4, <1>5, <1>6, <1>7, <1>8, <1>9, <1>10 DEF Step, Failure

\* Outside the invocations only a NOT_APPLIED resolution makes a permit.
LEMMA RefineOutside ==
  ASSUME TypeInv, Outside
  PROVE  Permits!PNext \/ UNCHANGED Permits!pvars
<1>1. ASSUME NEW j \in Key,
             MarketMoves(j) \/ OperatorReads(j) \/ (\E r \in Run : Process(r, j))
      PROVE  UNCHANGED Permits!pvars
  <2>1. UNCHANGED <<ledger, released, calls, pc, cur>>
    BY <1>1 DEF MarketMoves, OperatorReads, Process, lvars, rvars, mvars
  <2> QED BY <2>1, MapStutter DEF PermitsOf, Holders
<1>2. CASE OperatorResolves
  <2>1. PICK k \in Key, e \in Open, o \in {"APPLIED", "NOT_APPLIED"} :
           Resolve(k, e, o) /\ LedgerTypeOK
    <3>1. op \in Resolution /\ Resolve(op.key, op.expected, op.outcome)
      BY <1>2 DEF OperatorResolves, TypeInv, TypeOK
    <3>2. /\ op.key \in Key /\ op.expected \in Open
          /\ op.outcome \in {"APPLIED", "NOT_APPLIED"}
      BY <3>1 DEF Resolution
    <3> QED BY <3>1, <3>2 DEF TypeInv, TypeOK
  <2>2. UNCHANGED calls /\ \A j \in Key : Holders(j)' = Holders(j)
    BY <1>2 DEF OperatorResolves, mvars, rvars, Holders
  <2>3. CASE /\ UNCHANGED released
             /\ \A j \in Key : ledger'[j].status \in Free <=> ledger[j].status \in Free
    BY <2>2, <2>3, MapStutter DEF PermitsOf, Bit
  <2>4. CASE /\ o = "NOT_APPLIED"
             /\ released' = [released EXCEPT ![k] = @ + 1]
             /\ ledger[k].status \notin Free /\ ledger'[k].status \in Free
             /\ \A j \in Key \ {k} : ledger'[j] = ledger[j]
    <3>1. PermitsOf(k)' = PermitsOf(k) + 1
      BY <2>2, <2>4, HoldersFinite DEF PermitsOf, Bit
    <3>2. \A j \in Key \ {k} : PermitsOf(j)' = PermitsOf(j)
      BY <2>2, <2>4 DEF PermitsOf, Bit
    <3> QED BY <2>2, <2>4, <3>1, <3>2, MapAuthorise
  <2> QED BY <2>1, <2>3, <2>4, LedgerFree DEF lvars
<1> QED BY <1>1, <1>2 DEF Outside

LEMMA RefineInit == Init => Permits!PInit
<1> SUFFICES ASSUME Init PROVE Permits!PInit
  OBVIOUS
<1>1. ASSUME NEW k \in Key PROVE PermitsOf(k) = 1
  <2>1. Holders(k) = {} /\ ledger[k].status \in Free
    BY <1>1 DEF Init, Holders, LedgerInit, Free
  <2> QED BY <2>1, FS_EmptySet DEF PermitsOf, Bit
<1>2. released = [k \in Key |-> 0] /\ calls = [k \in Key |-> 0]
  BY DEF Init, LedgerInit
<1> QED BY <1>1, <1>2 DEF Permits!PInit, PermitsOf

LEMMA RefineNext == TypeInv /\ [Next]_vars => [Permits!PNext]_(Permits!pvars)
<1> SUFFICES ASSUME TypeInv, [Next]_vars
             PROVE  Permits!PNext \/ UNCHANGED Permits!pvars
  OBVIOUS
<1>1. CASE UNCHANGED vars
  <2>1. UNCHANGED <<ledger, released, calls, pc, cur>>
    BY <1>1 DEF vars, lvars, rvars, mvars
  <2> QED BY <2>1, MapStutter DEF PermitsOf, Holders
<1>2. CASE Next
  BY <1>2, RefineRun, RefineOutside DEF Next
<1> QED BY <1>1, <1>2

\* The ledger, the invocations and the operator together make marketplace
\* calls only on a permit, and only a NOT_APPLIED resolution makes a new one.
THEOREM RefinesPermits == Spec => ImplementsPermits
<1> QED BY TypeInvariant, RefineInit, RefineNext, PTL
        DEF Spec, ImplementsPermits, Permits!PSpec

\* The bound on calls, carried through the abstract steps.
CallInv == \A k \in Key : calls[k] + PermitsOf(k) <= released[k] + 1

LEMMA CallNext == TypeInv /\ CallInv /\ [Next]_vars => CallInv'
<1> SUFFICES ASSUME TypeInv, TypeInv', CallInv, Permits!PNext \/ UNCHANGED Permits!pvars,
                    NEW k \in Key
             PROVE  calls'[k] + PermitsOf(k)' <= released'[k] + 1
  BY TypeNext, RefineNext DEF CallInv
<1>1. /\ calls[k] \in Nat /\ released[k] \in Nat /\ PermitsOf(k) \in Nat
      /\ calls[k] + PermitsOf(k) <= released[k] + 1
      /\ calls \in [Key -> Nat] /\ released \in [Key -> Nat]
  BY HoldersFinite DEF CallInv, TypeInv, TypeOK, LedgerTypeOK
<1>2. CASE UNCHANGED Permits!pvars
  <2>1. PermitsOf(k)' = PermitsOf(k) /\ UNCHANGED <<released, calls>>
    BY <1>2 DEF Permits!pvars, PermitsOf
  <2> QED BY <1>1, <2>1
<1>3. ASSUME NEW j \in Key, Permits!Submit(j) \/ Permits!Lose(j) \/ Permits!Authorise(j)
      PROVE  calls'[k] + PermitsOf(k)' <= released'[k] + 1
  <2>1. /\ released' = released \/ released' = [released EXCEPT ![j] = @ + 1]
        /\ calls' = calls \/ calls' = [calls EXCEPT ![j] = @ + 1]
    BY <1>3 DEF Permits!Submit, Permits!Lose, Permits!Authorise
  <2>2. CASE j # k
    <3>1. PermitsOf(k)' = PermitsOf(k)
      BY <1>3, <2>2 DEF Permits!Submit, Permits!Lose, Permits!Authorise, PermitsOf
    <3> QED BY <1>1, <2>1, <2>2, <3>1
  <2>3. CASE j = k
    <3>1. CASE Permits!Submit(k)
      BY <1>1, <3>1 DEF Permits!Submit, PermitsOf
    <3>2. CASE Permits!Lose(k)
      BY <1>1, <3>2 DEF Permits!Lose, PermitsOf
    <3>3. CASE Permits!Authorise(k)
      BY <1>1, <3>3 DEF Permits!Authorise, PermitsOf
    <3> QED BY <1>3, <2>3, <3>1, <3>2, <3>3
  <2> QED BY <2>2, <2>3
<1> QED BY <1>2, <1>3 DEF Permits!PNext

\* No number of retries, crashes or overlapping invocations submits a close
\* that neither the row nor a NOT_APPLIED resolution accounts for.
THEOREM CallsCorrect == Spec => []EveryCallAccounted
<1>1. Init => CallInv
  BY RefineInit DEF CallInv, Permits!PInit, PermitsOf
<1>2. TypeInv /\ CallInv => EveryCallAccounted
  <2> SUFFICES ASSUME TypeInv, CallInv, NEW k \in Key
               PROVE  calls[k] <= released[k] + Bit(ledger[k].status \notin Free)
    BY DEF EveryCallAccounted
  <2>1. /\ calls[k] \in Nat /\ released[k] \in Nat /\ PermitsOf(k) \in Nat
        /\ calls[k] + PermitsOf(k) <= released[k] + 1
    BY HoldersFinite DEF CallInv, TypeInv, TypeOK, LedgerTypeOK
  <2>2. CASE ledger[k].status \in Free
    <3>1. PermitsOf(k) > 0
      BY <2>2, HoldersFinite
    <3> QED BY <2>1, <2>2, <3>1 DEF Bit
  <2>3. CASE ledger[k].status \notin Free
    BY <2>1, <2>3 DEF Bit
  <2> QED BY <2>2, <2>3
<1> QED BY <1>1, <1>2, TypeInvariant, CallNext, PTL DEF Spec
=============================================================================
