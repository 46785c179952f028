------------------------ MODULE PaymentReminders_proofs ------------------------
(***************************************************************************)
(* Proofs about PaymentReminders, for any slots, any finite number of      *)
(* runs, any cutoff and any bounds on sends and faults.                    *)
(***************************************************************************)
EXTENDS PaymentReminders, FiniteSetTheorems, TLAPS

(* Types and places *)

\* TypeOK without its bound on sends.
BaseOK ==
  /\ row \in [Slot -> [state : Delivery, age : 0..Cutoff]]
  /\ shown \subseteq Slot
  /\ calls \in [Slot -> Nat] /\ delivered \in [Slot -> Nat]
  /\ call \in [Run -> Slot \cup {NoSlot}] /\ accepted \subseteq Run
  /\ since \in [Run -> 0..Cutoff]
  /\ pc \in [Run -> PC]
  /\ amb \in [Run -> [Slot -> Ambiguous \cup {""}]]
  /\ hit \in [Run -> SUBSET Slot] /\ old \in [Run -> SUBSET Slot]
  /\ bad \in [Run -> BOOLEAN]
  /\ todo \in [Run -> SUBSET Slot]
  /\ cur \in [Run -> Slot \cup {NoSlot}]
  /\ late \subseteq Slot /\ stale \subseteq Slot
  /\ faults \in 0..MaxFaults

\* What a run relies on where it stands: it has a slot at hand; an update
\* has read that slot; a send is the only call of its run, and the call a
\* run waits for is for the slot at hand.
Place(r) ==
  /\ pc[r] \in {"update", "reserve", "send", "wait", "confirm", "mark"} => cur[r] \in Slot
  /\ At(r, "update") => amb[r][cur[r]] # ""
  /\ At(r, "send") => ~InFlight(r)
  /\ At(r, "wait") /\ InFlight(r) => call[r] = cur[r]
  /\ r \in accepted => At(r, "wait")

BaseInv == BaseOK /\ \A r \in Run : Place(r)

LEMMA Numbers == Cutoff \in Nat /\ Cutoff > 0 /\ MaxCalls \in Nat /\ MaxFaults \in Nat
                 /\ 0 \in 0..Cutoff /\ Cutoff \in 0..Cutoff /\ NoSlot \notin Slot
BY ReminderBounds, SlotAssumption

LEMMA OlderType == \A n \in 0..Cutoff : /\ Older(n) \in 0..Cutoff /\ n <= Older(n)
                                        /\ \A m \in 0..Cutoff : n <= m => Older(n) <= Older(m)
                                        /\ n = Cutoff => Older(n) = Cutoff
                                        /\ Older(n) < Cutoff => n < Cutoff
BY Numbers DEF Older

LEMMA BaseInit == Init => BaseInv
<1> SUFFICES ASSUME Init PROVE BaseInv
  OBVIOUS
<1>1. 0 \in 0..MaxFaults /\ 0 \in Nat
  BY Numbers
<1>2. Nothing \in [Slot -> Ambiguous \cup {""}]
  BY DEF Nothing
<1>3. BaseOK
  BY <1>1, <1>2, Numbers DEF Init, BaseOK, Delivery, PC
<1>4. \A r \in Run : Place(r)
  BY DEF Init, Place, At, InFlight
<1> QED BY <1>3, <1>4 DEF BaseInv

LEMMA FaultType == faults \in 0..MaxFaults /\ Fault => faults' \in 0..MaxFaults
BY Numbers DEF Fault

LEMMA RowSet ==
  ASSUME BaseOK, NEW s \in Slot, NEW st \in Delivery
  PROVE  /\ [row EXCEPT ![s].state = st] \in [Slot -> [state : Delivery, age : 0..Cutoff]]
         /\ [row EXCEPT ![s] = [state |-> st, age |-> 0]]
              \in [Slot -> [state : Delivery, age : 0..Cutoff]]
<1>1. [state |-> st, age |-> 0] \in [state : Delivery, age : 0..Cutoff]
  BY Numbers
<1> QED BY <1>1 DEF BaseOK

\* What a write changes, and what it leaves alone.
LEMMA RowWrite ==
  ASSUME BaseOK, NEW c \in Slot, NEW st
  PROVE  /\ \A s \in Slot : s # c => /\ [row EXCEPT ![c].state = st][s] = row[s]
                                    /\ [row EXCEPT ![c] = st][s] = row[s]
         /\ [row EXCEPT ![c].state = st][c].state = st
         /\ [row EXCEPT ![c].state = st][c].age = row[c].age
         /\ [row EXCEPT ![c] = st][c] = st
<1>1. row[c] \in [state : Delivery, age : 0..Cutoff] /\ c \in DOMAIN row /\ DOMAIN row = Slot
  BY DEF BaseOK
<1> QED BY <1>1

\* A count goes up by one.
LEMMA CountUp ==
  ASSUME NEW f \in [Slot -> Nat], NEW s \in Slot
  PROVE  [f EXCEPT ![s] = @ + 1] \in [Slot -> Nat]
OBVIOUS

LEMMA States == {"RESERVED", "UNKNOWN_RESULT", "SENT", "RECONCILED_SENT", "RELEASED"} \subseteq Delivery
BY DEF Delivery, Ambiguous

LEMMA BaseStep == BaseInv /\ [Next]_vars => BaseInv'
<1> SUFFICES ASSUME BaseInv, [Next]_vars PROVE BaseInv'
  OBVIOUS
<1> USE DEF BaseInv
<1>0. BaseOK /\ \A r \in Run : Place(r)
  OBVIOUS
<1>n. Nothing \in [Slot -> Ambiguous \cup {""}]
  BY DEF Nothing
<1>1. ASSUME NEW r \in Run, Start(r) PROVE BaseInv'
  <2>1. amb'[r] \in [Slot -> Ambiguous \cup {""}] /\ amb' = [amb EXCEPT ![r] = amb'[r]]
    BY <1>0, <1>1 DEF Start, BaseOK, Unresolved
  <2>2. BaseOK'
    BY <1>0, <1>1, <2>1 DEF Start, BaseOK, Goto, PC, market, ghosts, Unresolved
  <2>3. \A q \in Run : Place(q)'
    BY <1>0, <1>1 DEF Start, BaseOK, Place, Goto, At, InFlight, market
  <2> QED BY <2>2, <2>3
<1>2. ASSUME NEW r \in Run, NEW s \in Slot, Fetch(r, s) PROVE BaseInv'
  <2>1. BaseOK'
    BY <1>0, <1>2 DEF Fetch, BaseOK, Goto, PC, market, ghosts
  <2>2. \A q \in Run : Place(q)'
    BY <1>0, <1>2 DEF Fetch, BaseOK, Place, Goto, At, InFlight, market
  <2> QED BY <2>1, <2>2
<1>3. ASSUME NEW r \in Run, NEW s \in Slot, FetchFails(r, s) PROVE BaseInv'
  <2>1. BaseOK'
    BY <1>0, <1>3, FaultType DEF FetchFails, Forget, BaseOK, market
  <2>2. \A q \in Run : Place(q)'
    BY <1>0, <1>3 DEF FetchFails, Forget, BaseOK, Place, At, InFlight, market
  <2> QED BY <2>1, <2>2
<1>4. ASSUME NEW r \in Run, Update(r) PROVE BaseInv'
  <2>1. cur[r] \in Slot
    BY <1>0, <1>4 DEF Update, Place, At
  <2>2. row' \in [Slot -> [state : Delivery, age : 0..Cutoff]]
    <3>1. Verdict(r, cur[r]) \in Delivery
      BY States DEF Verdict
    <3>2. row' = row \/ row' = [row EXCEPT ![cur[r]].state = Verdict(r, cur[r])]
      BY <1>4 DEF Update
    <3>3. [row EXCEPT ![cur[r]].state = Verdict(r, cur[r])]
            \in [Slot -> [state : Delivery, age : 0..Cutoff]]
      BY <1>0, <2>1, <3>1, RowSet
    <3> QED BY <1>0, <3>2, <3>3 DEF BaseOK
  <2>3. stale' \subseteq Slot
    BY <1>0, <1>4, <2>1 DEF Update, BaseOK
  <2>4. bad' \in [Run -> BOOLEAN] /\ faults' \in 0..MaxFaults
    BY <1>0, <1>4, FaultType DEF Update, BaseOK
  <2>5. /\ amb' \in [Run -> [Slot -> Ambiguous \cup {""}]]
        /\ hit' \in [Run -> SUBSET Slot] /\ old' \in [Run -> SUBSET Slot]
    BY <1>0, <1>4, <2>1 DEF Update, Forget, BaseOK
  <2>6. BaseOK'
    BY <1>0, <1>4, <2>2, <2>3, <2>4, <2>5 DEF Update, BaseOK, Goto, PC, market
  <2>7. \A q \in Run : Place(q)'
    BY <1>0, <1>4, <2>1 DEF Update, Forget, BaseOK, Place, Goto, At, InFlight, market
  <2> QED BY <2>6, <2>7
<1>5. ASSUME NEW r \in Run, Candidates(r) PROVE BaseInv'
  <2>0. todo' \in [Run -> SUBSET Slot]
    <3>1. \E due \in SUBSET Slot : todo' = todo \/ todo' = [todo EXCEPT ![r] = due]
      BY <1>5 DEF Candidates
    <3> QED BY <1>0, <3>1 DEF BaseOK
  <2>1. BaseOK'
    BY <1>0, <1>5, <2>0 DEF Candidates, BaseOK, Goto, PC, market, ghosts
  <2>2. \A q \in Run : Place(q)'
    BY <1>0, <1>5 DEF Candidates, BaseOK, Place, Goto, At, InFlight, market
  <2> QED BY <2>1, <2>2
<1>6. ASSUME NEW r \in Run, Finish(r) PROVE BaseInv'
  <2>1. BaseOK'
    BY <1>0, <1>6 DEF Finish, BaseOK, Goto, PC, market, ghosts
  <2>2. \A q \in Run : Place(q)'
    BY <1>0, <1>6 DEF Finish, BaseOK, Place, Goto, At, InFlight, market
  <2> QED BY <2>1, <2>2
<1>7. ASSUME NEW r \in Run, NEW s \in Slot, Pick(r, s) PROVE BaseInv'
  <2>0. todo' \in [Run -> SUBSET Slot]
    BY <1>0, <1>7 DEF Pick, BaseOK
  <2>a. pc' \in [Run -> PC] /\ cur' \in [Run -> Slot \cup {NoSlot}]
    <3>1. \/ pc' = [pc EXCEPT ![r] = "reserve"] /\ cur' = [cur EXCEPT ![r] = s]
          \/ pc' = pc /\ cur' = cur
      BY <1>7 DEF Pick, Goto
    <3>2. "reserve" \in PC
      BY DEF PC
    <3>3. pc \in [Run -> PC] /\ cur \in [Run -> Slot \cup {NoSlot}]
      BY <1>0 DEF BaseOK
    <3>4. pc' \in [Run -> PC]
      BY <3>1, <3>2, <3>3
    <3>5. cur' \in [Run -> Slot \cup {NoSlot}]
      BY <3>1, <3>3
    <3> QED BY <3>4, <3>5
  <2>1. BaseOK'
    BY <1>0, <1>7, <2>0, <2>a DEF Pick, BaseOK, Goto, PC, market, ghosts
  <2>2. \A q \in Run : Place(q)'
    BY <1>0, <1>7 DEF Pick, BaseOK, Place, Goto, At, InFlight, market
  <2> QED BY <2>1, <2>2
<1>8. ASSUME NEW r \in Run, Reserve(r) PROVE BaseInv'
  <2>1. cur[r] \in Slot /\ ~InFlight(r)
    BY <1>0, <1>8 DEF Reserve, Place, At
  <2>2. /\ row' \in [Slot -> [state : Delivery, age : 0..Cutoff]]
        /\ shown' \subseteq Slot /\ since' \in [Run -> 0..Cutoff]
        /\ old' \in [Run -> SUBSET Slot] /\ faults' \in 0..MaxFaults
    <3>1. row' = row \/ row' = [row EXCEPT ![cur[r]] = [state |-> "RESERVED", age |-> 0]]
      BY <1>8 DEF Reserve
    <3>2. row' \in [Slot -> [state : Delivery, age : 0..Cutoff]]
      <4>1. "RESERVED" \in Delivery
        BY States
      <4>2. [row EXCEPT ![cur[r]] = [state |-> "RESERVED", age |-> 0]]
              \in [Slot -> [state : Delivery, age : 0..Cutoff]]
        BY <1>0, <2>1, <4>1, RowSet
      <4> QED BY <1>0, <3>1, <4>2 DEF BaseOK
    <3>3. \A q \in Run : old[q] \cup {cur[r]} \in SUBSET Slot /\ old[q] \in SUBSET Slot
      BY <1>0, <2>1 DEF BaseOK
    <3>4. old' \in [Run -> SUBSET Slot]
      BY <1>0, <1>8, <3>3 DEF Reserve, BaseOK
    <3>a. since' = since \/ since' = [since EXCEPT ![r] = 0]
      BY <1>8 DEF Reserve
    <3>b. faults' = faults \/ Fault
      BY <1>8 DEF Reserve
    <3>c. shown' \subseteq shown
      BY <1>8 DEF Reserve
    <3>d. since' \in [Run -> 0..Cutoff]
      BY <1>0, <3>a, Numbers DEF BaseOK
    <3>e. faults' \in 0..MaxFaults
      BY <1>0, <3>b, FaultType DEF BaseOK
    <3>5. since' \in [Run -> 0..Cutoff] /\ faults' \in 0..MaxFaults /\ shown' \subseteq Slot
      BY <1>0, <3>c, <3>d, <3>e DEF BaseOK
    <3> QED BY <3>2, <3>4, <3>5
  <2>3. pc' \in [Run -> PC] /\ cur' \in [Run -> Slot \cup {NoSlot}]
    BY <1>0, <1>8 DEF Reserve, BaseOK, Leave, Goto, PC
  <2>4. BaseOK'
    BY <1>0, <1>8, <2>2, <2>3 DEF Reserve, BaseOK
  <2>5. /\ UNCHANGED <<call, amb, accepted>>
        /\ \/ pc' = [pc EXCEPT ![r] = "send"] /\ cur' = cur
           \/ pc' = [pc EXCEPT ![r] = "next"] /\ cur' = [cur EXCEPT ![r] = NoSlot]
    BY <1>8 DEF Reserve, Leave, Goto
  <2>6. \A q \in Run : Place(q)'
    BY <1>0, <1>8, <2>1, <2>5 DEF Reserve, BaseOK, Place, At, InFlight
  <2> QED BY <2>4, <2>6
<1>9. ASSUME NEW r \in Run, ReserveFails(r) PROVE BaseInv'
  <2>1. BaseOK'
    BY <1>0, <1>9, FaultType DEF ReserveFails, BaseOK, Leave, Goto, PC, market, ghosts
  <2>2. \A q \in Run : Place(q)'
    BY <1>0, <1>9 DEF ReserveFails, BaseOK, Place, Leave, Goto, At, InFlight, market
  <2> QED BY <2>1, <2>2
<1>10. ASSUME NEW r \in Run, Send(r) PROVE BaseInv'
  <2>1. cur[r] \in Slot
    BY <1>0, <1>10 DEF Send, Place, At
  <2>a. calls' \in [Slot -> Nat] /\ call' \in [Run -> Slot \cup {NoSlot}]
    <3>1. [calls EXCEPT ![cur[r]] = @ + 1] \in [Slot -> Nat]
      BY <1>0, <2>1, CountUp DEF BaseOK
    <3> QED BY <1>0, <1>10, <2>1, <3>1 DEF Send, BaseOK
  <2>2. BaseOK'
    BY <1>0, <1>10, <2>1, <2>a DEF Send, BaseOK, Goto, PC, ghosts
  <2>3. \A q \in Run : Place(q)'
    BY <1>0, <1>10, <2>1 DEF Send, BaseOK, Place, Goto, At, InFlight
  <2> QED BY <2>2, <2>3
<1>11. ASSUME NEW r \in Run, Return(r) PROVE BaseInv'
  <2>1. BaseOK'
    BY <1>0, <1>11, FaultType DEF Return, BaseOK, Goto, PC, ghosts
  <2>2. \A q \in Run : Place(q)'
    BY <1>0, <1>11 DEF Return, BaseOK, Place, Goto, At, InFlight
  <2> QED BY <2>1, <2>2
<1>12. ASSUME NEW r \in Run, Confirm(r) \/ Mark(r) PROVE BaseInv'
  <2>1. cur[r] \in Slot
    BY <1>0, <1>12 DEF Confirm, Mark, Place, At
  <2>2. row' \in [Slot -> [state : Delivery, age : 0..Cutoff]] /\ faults' \in 0..MaxFaults
    <3>1. \E st \in {"SENT", "UNKNOWN_RESULT"} :
            row' = row \/ row' = [row EXCEPT ![cur[r]].state = st]
      BY <1>12 DEF Confirm, Mark, Marking
    <3>2. row' \in [Slot -> [state : Delivery, age : 0..Cutoff]]
      <4>1. "SENT" \in Delivery /\ "UNKNOWN_RESULT" \in Delivery
        BY States
      <4>2. \A st \in {"SENT", "UNKNOWN_RESULT"} :
              [row EXCEPT ![cur[r]].state = st] \in [Slot -> [state : Delivery, age : 0..Cutoff]]
        BY <1>0, <2>1, <4>1, RowSet
      <4>3. PICK st \in {"SENT", "UNKNOWN_RESULT"} :
              row' = row \/ row' = [row EXCEPT ![cur[r]].state = st]
        BY <3>1
      <4>4. [row EXCEPT ![cur[r]].state = st] \in [Slot -> [state : Delivery, age : 0..Cutoff]]
        BY <4>2
      <4> QED BY <1>0, <4>3, <4>4 DEF BaseOK
    <3> QED BY <1>0, <1>12, <3>2, FaultType DEF Confirm, Mark, BaseOK
  <2>3. BaseOK'
    BY <1>0, <1>12, <2>2 DEF Confirm, Mark, BaseOK, Leave, Goto, PC, market, ghosts
  <2>4. \A q \in Run : Place(q)'
    BY <1>0, <1>12 DEF Confirm, Mark, BaseOK, Place, Leave, Goto, At, InFlight, market
  <2> QED BY <2>3, <2>4
<1>13. ASSUME NEW r \in Run, Crash(r) PROVE BaseInv'
  <2>1. BaseOK'
    BY <1>0, <1>13, <1>n, FaultType DEF Crash, BaseOK, PC
  <2>2. \A q \in Run : Place(q)'
    BY <1>0, <1>13 DEF Crash, BaseOK, Place, At, InFlight
  <2> QED BY <2>1, <2>2
<1>14. ASSUME NEW r \in Run, Deliver(r) PROVE BaseInv'
  <2>1. call[r] \in Slot
    BY <1>0, <1>14 DEF Deliver, InFlight, BaseOK
  <2>2. hit' \in [Run -> SUBSET Slot] /\ delivered' \in [Slot -> Nat] /\ late' \subseteq Slot
        /\ accepted' \subseteq Run
    <3>1. hit' \in [Run -> SUBSET Slot]
      <4>1. \A q \in Run : hit[q] \cup {call[r]} \in SUBSET Slot /\ hit[q] \in SUBSET Slot
        BY <1>0, <2>1 DEF BaseOK
      <4> QED BY <1>14, <4>1 DEF Deliver
    <3>2. delivered' \in [Slot -> Nat]
      <4>1. delivered' = [delivered EXCEPT ![call[r]] = @ + 1]
        BY <1>14 DEF Deliver
      <4> QED BY <1>0, <2>1, <4>1, CountUp DEF BaseOK
    <3> QED BY <1>0, <1>14, <2>1, <3>1, <3>2 DEF Deliver, BaseOK
  <2>3. BaseOK'
    BY <1>0, <1>14, <2>1, <2>2 DEF Deliver, BaseOK
  <2>4. \A q \in Run : Place(q)'
    BY <1>0, <1>14, <2>1 DEF Deliver, BaseOK, Place, At, InFlight
  <2> QED BY <2>3, <2>4
<1>15. ASSUME NEW r \in Run, Drop(r) PROVE BaseInv'
  <2>1. BaseOK'
    BY <1>0, <1>15 DEF Drop, BaseOK, rvars, ghosts
  <2>2. \A q \in Run : Place(q)'
    BY <1>0, <1>15 DEF Drop, BaseOK, Place, At, InFlight, rvars
  <2> QED BY <2>1, <2>2
<1>16. CASE Tick
  <2>1. row' \in [Slot -> [state : Delivery, age : 0..Cutoff]] /\ since' \in [Run -> 0..Cutoff]
    BY <1>0, <1>16, OlderType DEF Tick, BaseOK
  <2>2. BaseOK'
    BY <1>0, <1>16, <2>1 DEF Tick, BaseOK, rvars, ghosts
  <2>3. \A q \in Run : Place(q)'
    BY <1>0, <1>16 DEF Tick, Place, At, InFlight, rvars
  <2> QED BY <2>2, <2>3
<1>17. CASE UNCHANGED vars
  BY <1>0, <1>17 DEF vars, market, rvars, ghosts, BaseOK, Place, At, InFlight
<1> QED BY <1>1, <1>2, <1>3, <1>4, <1>5, <1>6, <1>7, <1>8, <1>9, <1>10, <1>11, <1>12,
           <1>13, <1>14, <1>15, <1>16, <1>17 DEF Next, Step, Failure

-----------------------------------------------------------------------------
(* Sends stay within their bound *)

Sends(s) == {q \in Run : At(q, "send") /\ cur[q] = s}
Flying(s) == {q \in Run : call[q] = s}

\* Every reservation about to be sent has its call within the bound, and every
\* delivered message and call under way was sent.
Bounds == \A s \in Slot : /\ calls[s] + Cardinality(Sends(s)) <= MaxCalls
                         /\ delivered[s] + Cardinality(Flying(s)) <= calls[s]

LEMMA RunSets == \A S \in SUBSET Run : IsFiniteSet(S) /\ Cardinality(S) \in Nat
BY RunsAssumption, FS_Subset, FS_CardinalityType

LEMMA Smaller ==
  ASSUME NEW S \in SUBSET Run, NEW T \in SUBSET S
  PROVE  Cardinality(T) <= Cardinality(S)
BY RunSets, FS_Subset

LEMMA OneMore ==
  ASSUME NEW S \in SUBSET Run, NEW r \in Run, r \notin S
  PROVE  Cardinality(S \cup {r}) = Cardinality(S) + 1
BY RunSets, FS_AddElement

LEMMA OneLess ==
  ASSUME NEW S \in SUBSET Run, NEW r \in S
  PROVE  Cardinality(S \ {r}) = Cardinality(S) - 1
BY RunSets, FS_RemoveElement

LEMMA BoundsInit == Init => Bounds
<1> SUFFICES ASSUME Init, NEW s \in Slot
             PROVE  /\ calls[s] + Cardinality(Sends(s)) <= MaxCalls
                    /\ delivered[s] + Cardinality(Flying(s)) <= calls[s]
  BY DEF Bounds
<1>1. Sends(s) = {} /\ Flying(s) = {} /\ calls[s] = 0 /\ delivered[s] = 0
  BY Numbers DEF Init, Sends, Flying, At
<1>2. Cardinality({}) = 0
  BY FS_EmptySet
<1> QED BY <1>1, <1>2, Numbers

\* A step that starts no send and makes no call.
LEMMA BoundsKept ==
  ASSUME BaseInv, Bounds, UNCHANGED <<calls, delivered>>,
         \A s \in Slot : Sends(s)' \subseteq Sends(s) /\ Flying(s)' \subseteq Flying(s)
  PROVE  Bounds'
<1> SUFFICES ASSUME NEW s \in Slot
             PROVE  /\ calls'[s] + Cardinality(Sends(s)') <= MaxCalls
                    /\ delivered'[s] + Cardinality(Flying(s)') <= calls'[s]
  BY DEF Bounds
<1>1. /\ Sends(s) \in SUBSET Run /\ Sends(s)' \in SUBSET Sends(s)
      /\ Flying(s) \in SUBSET Run /\ Flying(s)' \in SUBSET Flying(s)
  BY DEF Sends, Flying
<1>2. /\ Cardinality(Sends(s)') <= Cardinality(Sends(s))
      /\ Cardinality(Flying(s)') <= Cardinality(Flying(s))
  BY <1>1, Smaller
<1>3. /\ Cardinality(Sends(s)') \in Nat /\ Cardinality(Sends(s)) \in Nat
      /\ Cardinality(Flying(s)') \in Nat /\ Cardinality(Flying(s)) \in Nat
  BY <1>1, RunSets
<1>4. calls[s] \in Nat /\ delivered[s] \in Nat /\ calls'[s] = calls[s] /\ delivered'[s] = delivered[s]
  BY DEF BaseInv, BaseOK
<1> QED BY <1>2, <1>3, <1>4, Numbers DEF Bounds

LEMMA BoundsStep == BaseInv /\ BaseInv' /\ Bounds /\ [Next]_vars => Bounds'
<1> SUFFICES ASSUME BaseInv, BaseInv', Bounds, [Next]_vars PROVE Bounds'
  OBVIOUS
<1>0. BaseOK /\ BaseOK' /\ \A r \in Run : Place(r)
  BY DEF BaseInv
<1>s. ASSUME NEW s \in Slot
      PROVE  /\ Sends(s) \in SUBSET Run /\ Flying(s) \in SUBSET Run
             /\ Cardinality(Sends(s)) \in Nat /\ Cardinality(Flying(s)) \in Nat
             /\ calls[s] \in Nat /\ delivered[s] \in Nat
             /\ calls[s] + Cardinality(Sends(s)) <= MaxCalls
             /\ delivered[s] + Cardinality(Flying(s)) <= calls[s]
  <2>1. Sends(s) \in SUBSET Run /\ Flying(s) \in SUBSET Run
    BY DEF Sends, Flying
  <2> QED BY <1>0, <2>1, RunSets DEF Bounds, BaseOK
<1>1. ASSUME NEW r \in Run, NEW l \in PC \ {"send"}, pc' = [pc EXCEPT ![r] = l],
             \A q \in Run \ {r} : cur'[q] = cur[q], UNCHANGED <<calls, delivered, call>>
      PROVE  Bounds'
  <2>1. \A s \in Slot : Sends(s)' \subseteq Sends(s) /\ Flying(s)' \subseteq Flying(s)
    BY <1>0, <1>1 DEF Sends, Flying, At, BaseOK
  <2> QED BY <1>1, <2>1, BoundsKept
<1>2. ASSUME UNCHANGED <<calls, delivered, pc>>, \A q \in Run : cur'[q] = cur[q],
             \A q \in Run : call'[q] = call[q] \/ call'[q] = NoSlot
      PROVE  Bounds'
  <2>1. \A s \in Slot : Sends(s)' \subseteq Sends(s) /\ Flying(s)' \subseteq Flying(s)
    BY <1>2, Numbers DEF Sends, Flying, At
  <2> QED BY <1>2, <2>1, BoundsKept
<1>3. ASSUME NEW r \in Run, \/ Start(r) \/ Candidates(r) \/ Finish(r) \/ Update(r)
                             \/ \E s \in Slot : Fetch(r, s)
      PROVE  Bounds'
  <2>1. PICK l \in PC \ {"send"} : pc' = [pc EXCEPT ![r] = l]
    BY <1>3 DEF Start, Candidates, Finish, Update, Fetch, Goto, PC
  <2>2. \A q \in Run \ {r} : cur'[q] = cur[q]
    BY <1>0, <1>3 DEF Start, Candidates, Finish, Update, Fetch, BaseOK
  <2>3. UNCHANGED <<calls, delivered, call>>
    BY <1>3 DEF Start, Candidates, Finish, Update, Fetch, market
  <2> QED BY <1>1, <2>1, <2>2, <2>3
<1>4. ASSUME NEW r \in Run, ReserveFails(r) \/ Return(r) \/ Confirm(r) \/ Mark(r) \/ Crash(r)
      PROVE  Bounds'
  <2>1. PICK l \in PC \ {"send"} : pc' = [pc EXCEPT ![r] = l]
    BY <1>4 DEF ReserveFails, Return, Confirm, Mark, Crash, Leave, Goto, PC
  <2>2. \A q \in Run \ {r} : cur'[q] = cur[q]
    BY <1>0, <1>4 DEF ReserveFails, Return, Confirm, Mark, Crash, Leave, BaseOK
  <2>3. UNCHANGED <<calls, delivered, call>>
    BY <1>4 DEF ReserveFails, Return, Confirm, Mark, Crash, market
  <2> QED BY <1>1, <2>1, <2>2, <2>3
<1>5. ASSUME NEW r \in Run, NEW s \in Slot, FetchFails(r, s) PROVE Bounds'
  BY <1>2, <1>5 DEF FetchFails, market
<1>6. ASSUME NEW r \in Run, NEW s \in Slot, Pick(r, s) PROVE Bounds'
  <2>1. CASE Goto(r, "reserve") /\ cur' = [cur EXCEPT ![r] = s]
    <3>1. "reserve" \in PC \ {"send"} /\ \A q \in Run \ {r} : cur'[q] = cur[q]
      BY <1>0, <2>1 DEF PC, BaseOK
    <3> QED BY <1>1, <1>6, <2>1, <3>1 DEF Pick, Goto, market
  <2>2. CASE UNCHANGED <<pc, cur>>
    BY <1>2, <1>6, <2>2 DEF Pick, market
  <2> QED BY <1>6, <2>1, <2>2 DEF Pick
<1>7. ASSUME NEW r \in Run, Reserve(r) PROVE Bounds'
  <2>1. CASE Leave(r)
    <3>1. "next" \in PC \ {"send"} /\ \A q \in Run \ {r} : cur'[q] = cur[q]
      BY <1>0, <2>1 DEF PC, BaseOK, Leave
    <3> QED BY <1>1, <1>7, <2>1, <3>1 DEF Reserve, Leave, Goto
  <2>2. CASE Reservable(cur[r]) /\ Goto(r, "send") /\ UNCHANGED cur
    <3>c. PICK c \in Slot : c = cur[r]
      BY <1>0, <1>7 DEF Reserve, Place, At
    <3>1. c = cur[r] /\ ~At(r, "send") /\ UNCHANGED <<calls, delivered, call>>
      BY <1>7, <3>c DEF Reserve, At
    <3>2. /\ Sends(c)' = Sends(c) \cup {r} /\ r \notin Sends(c)
          /\ \A s \in Slot : s # c => Sends(s)' = Sends(s)
      <4>1. /\ \A q \in Run : q # r => pc'[q] = pc[q]
            /\ pc'[r] = "send" /\ pc[r] # "send" /\ cur' = cur
        BY <1>0, <2>2, <3>1 DEF Goto, BaseOK, At
      <4>2. ASSUME NEW s \in Slot, NEW q \in Run
            PROVE  q \in Sends(s)' <=> q \in Sends(s) \/ (q = r /\ s = c)
        BY <3>1, <4>1 DEF Sends, At
      <4>3. \A s \in Slot : Sends(s)' \subseteq Run /\ Sends(s) \subseteq Run /\ r \notin Sends(s)
        BY <4>1 DEF Sends, At
      <4> QED BY <3>1, <4>2, <4>3
    <3>3. Cardinality(Sends(c)') = Cardinality(Sends(c)) + 1
      BY <1>s, <3>1, <3>2, OneMore
    <3>4. calls[c] + Cardinality(Sends(c)) < MaxCalls
      BY <2>2, <3>1 DEF Reservable, Due, Sends
    <3>6. \A s \in Slot : Flying(s)' = Flying(s)
      BY <3>1 DEF Flying
    <3>7. ASSUME NEW s \in Slot
          PROVE  /\ calls'[s] + Cardinality(Sends(s)') <= MaxCalls
                 /\ delivered'[s] + Cardinality(Flying(s)') <= calls'[s]
      <4>1. CASE s = c
        <5>1. /\ Cardinality(Sends(s)') = Cardinality(Sends(s)) + 1
              /\ calls[s] + Cardinality(Sends(s)) < MaxCalls
          BY <3>3, <3>4, <4>1
        <5>2. calls'[s] = calls[s] /\ delivered'[s] = delivered[s] /\ Flying(s)' = Flying(s)
          BY <3>1, <3>6
        <5>3. calls'[s] + Cardinality(Sends(s)') <= MaxCalls
          BY <1>s, <5>1, <5>2, Numbers
        <5> QED BY <1>s, <5>2, <5>3
      <4>2. CASE s # c
        BY <1>s, <3>1, <3>2, <3>6, <4>2
      <4> QED BY <4>1, <4>2
    <3> QED BY <3>7 DEF Bounds
  <2> QED BY <1>7, <2>1, <2>2 DEF Reserve
<1>8. ASSUME NEW r \in Run, Send(r) PROVE Bounds'
  <2>c. PICK c \in Slot : c = cur[r]
    BY <1>0, <1>8 DEF Send, Place, At
  <2>1. /\ c = cur[r] /\ At(r, "send") /\ call[r] = NoSlot
        /\ UNCHANGED <<delivered, cur>> /\ pc' = [pc EXCEPT ![r] = "wait"]
        /\ call' = [call EXCEPT ![r] = c]
        /\ calls' = [calls EXCEPT ![c] = @ + 1]
    BY <1>0, <1>8, <2>c DEF Send, Place, At, InFlight, Goto
  <2>a. /\ \A q \in Run : q # r => pc'[q] = pc[q] /\ call'[q] = call[q]
        /\ pc'[r] = "wait" /\ call'[r] = c /\ NoSlot \notin Slot
    BY <1>0, <2>1, Numbers DEF BaseOK
  <2>2. /\ Sends(c)' = Sends(c) \ {r} /\ r \in Sends(c)
        /\ \A s \in Slot : s # c => Sends(s)' = Sends(s)
    <3>1. ASSUME NEW s \in Slot, NEW q \in Run
          PROVE  q \in Sends(s)' <=> q \in Sends(s) /\ q # r
      BY <2>1, <2>a DEF Sends, At
    <3>2. \A s \in Slot : Sends(s)' \subseteq Run /\ Sends(s) \subseteq Run
      BY DEF Sends
    <3>3. r \in Sends(c) /\ \A s \in Slot : s # c => r \notin Sends(s)
      BY <2>1 DEF Sends
    <3> QED BY <2>1, <3>1, <3>2, <3>3
  <2>3. /\ Flying(c)' = Flying(c) \cup {r} /\ r \notin Flying(c)
        /\ \A s \in Slot : s # c => Flying(s)' = Flying(s)
    <3>1. ASSUME NEW s \in Slot, NEW q \in Run
          PROVE  q \in Flying(s)' <=> q \in Flying(s) \/ (q = r /\ s = c)
      BY <2>1, <2>a DEF Flying
    <3>2. \A s \in Slot : Flying(s)' \subseteq Run /\ Flying(s) \subseteq Run /\ r \notin Flying(s)
      BY <2>1, <2>a DEF Flying
    <3> QED BY <2>1, <3>1, <3>2
  <2>4. /\ Cardinality(Sends(c)') = Cardinality(Sends(c)) - 1
        /\ Cardinality(Flying(c)') = Cardinality(Flying(c)) + 1
    BY <1>s, <2>1, <2>2, <2>3, OneMore, OneLess
  <2>5. calls'[c] = calls[c] + 1 /\ \A s \in Slot : s # c => calls'[s] = calls[s]
    BY <1>0, <2>1 DEF BaseOK
  <2>6. ASSUME NEW s \in Slot
        PROVE  /\ calls'[s] + Cardinality(Sends(s)') <= MaxCalls
               /\ delivered'[s] + Cardinality(Flying(s)') <= calls'[s]
    <3>1. CASE s = c
      BY <1>s, <2>1, <2>4, <2>5, <3>1, Numbers
    <3>2. CASE s # c
      BY <1>s, <2>1, <2>2, <2>3, <2>5, <3>2
    <3> QED BY <3>1, <3>2
  <2> QED BY <2>6 DEF Bounds
<1>9. ASSUME NEW r \in Run, Deliver(r) PROVE Bounds'
  <2>c. PICK c \in Slot : c = call[r]
    BY <1>0, <1>9 DEF Deliver, InFlight, BaseOK
  <2>1. /\ c = call[r] /\ call' = [call EXCEPT ![r] = NoSlot]
        /\ delivered' = [delivered EXCEPT ![c] = @ + 1] /\ UNCHANGED <<calls, pc, cur>>
    BY <1>9, <2>c DEF Deliver
  <2>2. /\ Flying(c)' = Flying(c) \ {r} /\ r \in Flying(c)
        /\ \A s \in Slot : s # c => Flying(s)' = Flying(s)
    <3>a. /\ \A q \in Run : q # r => call'[q] = call[q]
          /\ call'[r] = NoSlot /\ NoSlot \notin Slot
      BY <1>0, <2>1, Numbers DEF BaseOK
    <3>1. ASSUME NEW s \in Slot, NEW q \in Run
          PROVE  q \in Flying(s)' <=> q \in Flying(s) /\ q # r
      BY <2>1, <3>a DEF Flying
    <3>2. \A s \in Slot : Flying(s)' \subseteq Run /\ Flying(s) \subseteq Run
      BY DEF Flying
    <3>3. r \in Flying(c) /\ \A s \in Slot : s # c => r \notin Flying(s)
      BY <2>1 DEF Flying
    <3> QED BY <2>1, <3>1, <3>2, <3>3
  <2>3. \A s \in Slot : Sends(s)' = Sends(s)
    BY <2>1 DEF Sends, At
  <2>4. Cardinality(Flying(c)') = Cardinality(Flying(c)) - 1
    BY <1>s, <2>1, <2>2, OneLess
  <2>5. /\ delivered'[c] = delivered[c] + 1
        /\ \A s \in Slot : s # c => delivered'[s] = delivered[s]
    BY <1>0, <2>1 DEF BaseOK
  <2>6. ASSUME NEW s \in Slot
        PROVE  /\ calls'[s] + Cardinality(Sends(s)') <= MaxCalls
               /\ delivered'[s] + Cardinality(Flying(s)') <= calls'[s]
    <3>1. CASE s = c
      <4>1. /\ delivered'[s] = delivered[s] + 1 /\ calls'[s] = calls[s]
            /\ Cardinality(Flying(s)') = Cardinality(Flying(s)) - 1 /\ Sends(s)' = Sends(s)
        BY <2>1, <2>3, <2>4, <2>5, <3>1
      <4> QED BY <1>s, <4>1
    <3>2. CASE s # c
      BY <1>s, <2>1, <2>2, <2>3, <2>5, <3>2
    <3> QED BY <3>1, <3>2
  <2> QED BY <2>6 DEF Bounds
<1>10. ASSUME NEW r \in Run, Drop(r) PROVE Bounds'
  <2>1. /\ \A q \in Run : call'[q] = call[q] \/ call'[q] = NoSlot
        /\ UNCHANGED <<calls, delivered, pc, cur>>
    BY <1>0, <1>10 DEF Drop, rvars, BaseOK
  <2> QED BY <1>2, <2>1
<1>11. CASE Tick \/ UNCHANGED vars
  BY <1>2, <1>11 DEF Tick, vars, market, rvars
<1> QED BY <1>3, <1>4, <1>5, <1>6, <1>7, <1>8, <1>9, <1>10, <1>11 DEF Next, Step, Failure

-----------------------------------------------------------------------------
(* A row closed as sent has its message *)

\* Whatever a run goes by when it closes a row, a message in the marketplace,
\* one it has read, or an answer, stands for a message delivered.
SentInv ==
  /\ \A s \in shown : delivered[s] > 0
  /\ \A r \in Run : \A s \in hit[r] : delivered[s] > 0
  /\ \A r \in Run : r \in accepted \/ At(r, "confirm") => delivered[cur[r]] > 0
  /\ SentMeansDelivered

LEMMA SentInit == Init => SentInv
BY DEF Init, SentInv, SentMeansDelivered, At

\* A step that delivers nothing and closes no row.
LEMMA SentKept ==
  ASSUME BaseInv, SentInv, UNCHANGED delivered, shown' \subseteq shown,
         \A r \in Run : hit'[r] \subseteq hit[r],
         \A r \in Run : (r \in accepted \/ At(r, "confirm"))' =>
                          (r \in accepted \/ At(r, "confirm")) /\ cur'[r] = cur[r],
         \A s \in Slot : row'[s].state \in {"SENT", "RECONCILED_SENT"} =>
                          row[s].state \in {"SENT", "RECONCILED_SENT"} \/ delivered[s] > 0
  PROVE  SentInv'
BY DEF BaseInv, BaseOK, SentInv, SentMeansDelivered

LEMMA SentStep == BaseInv /\ BaseInv' /\ SentInv /\ [Next]_vars => SentInv'
<1> SUFFICES ASSUME BaseInv, BaseInv', SentInv, [Next]_vars PROVE SentInv'
  OBVIOUS
<1>0. BaseOK /\ BaseOK' /\ \A r \in Run : Place(r)
  BY DEF BaseInv
<1>1. ASSUME NEW r \in Run, Start(r) PROVE SentInv'
  <2>1. \A q \in Run : q # r => hit'[q] = hit[q] /\ pc'[q] = pc[q]
    BY <1>0, <1>1 DEF Start, Goto, BaseOK
  <2>2. hit'[r] \subseteq shown /\ pc'[r] = "reconcile"
    BY <1>0, <1>1 DEF Start, Goto, BaseOK
  <2>3. UNCHANGED <<row, shown, delivered, accepted, cur>>
    BY <1>1 DEF Start, market
  <2>4. \A q \in Run : \A s \in hit'[q] : delivered'[s] > 0
    BY <2>1, <2>2, <2>3 DEF SentInv
  <2>5. \A q \in Run : q \in accepted' \/ pc'[q] = "confirm" => delivered'[cur'[q]] > 0
    BY <2>1, <2>2, <2>3 DEF SentInv, At
  <2> QED BY <2>3, <2>4, <2>5 DEF SentInv, At, SentMeansDelivered
<1>2. ASSUME NEW r \in Run, \/ Candidates(r) \/ Finish(r) \/ ReserveFails(r)
                             \/ \E s \in Slot : Fetch(r, s)
      PROVE  SentInv'
  <2>1. UNCHANGED <<row, shown, delivered, accepted, hit>>
    BY <1>2 DEF Fetch, Candidates, Finish, ReserveFails, market
  <2>2. /\ r \notin accepted /\ pc'[r] # "confirm"
        /\ \A q \in Run : q # r => pc'[q] = pc[q] /\ cur'[q] = cur[q]
    BY <1>0, <1>2 DEF Fetch, Candidates, Finish, ReserveFails, Leave, Goto, Place, At, BaseOK
  <2> QED BY <2>1, <2>2, SentKept DEF At
<1>3. ASSUME NEW r \in Run, NEW s \in Slot, FetchFails(r, s) PROVE SentInv'
  <2>1. UNCHANGED <<row, shown, delivered, accepted, pc, cur>> /\ \A q \in Run : hit'[q] \subseteq hit[q]
    BY <1>0, <1>3 DEF FetchFails, Forget, market, BaseOK
  <2> QED BY <2>1, SentKept DEF At
<1>4. ASSUME NEW r \in Run, Update(r) PROVE SentInv'
  <2>1. UNCHANGED <<shown, delivered, accepted>>
    BY <1>4 DEF Update, market
  <2>2. \A q \in Run : hit'[q] \subseteq hit[q]
    BY <1>0, <1>4 DEF Update, Forget, BaseOK
  <2>3. /\ r \notin accepted /\ pc'[r] # "confirm"
        /\ \A q \in Run : q # r => pc'[q] = pc[q] /\ cur'[q] = cur[q]
    BY <1>0, <1>4 DEF Update, Goto, Place, At, BaseOK
  <2>4. cur[r] \in Slot
    BY <1>0, <1>4 DEF Update, Place, At
  <2>5. row' = row \/ row' = [row EXCEPT ![cur[r]].state = Verdict(r, cur[r])]
    BY <1>4 DEF Update
  <2>6. \A s \in Slot : s # cur[r] => row'[s] = row[s]
    <3> DEFINE new == [row EXCEPT ![cur[r]].state = Verdict(r, cur[r])]
    <3>1. \A s \in Slot : s # cur[r] => new[s] = row[s]
      BY <1>0, <2>4, RowWrite
    <3> QED BY <2>5, <3>1
  <2>7. row' = row \/ row'[cur[r]].state = Verdict(r, cur[r])
    <3> DEFINE new == [row EXCEPT ![cur[r]].state = Verdict(r, cur[r])]
    <3>1. new[cur[r]].state = Verdict(r, cur[r])
      BY <1>0, <2>4, RowWrite
    <3> QED BY <2>5, <3>1
  <2>8. Verdict(r, cur[r]) \in {"SENT", "RECONCILED_SENT"} => delivered[cur[r]] > 0
    BY DEF Verdict, SentInv
  <2>9. \A s \in Slot : row'[s].state \in {"SENT", "RECONCILED_SENT"} =>
                        row[s].state \in {"SENT", "RECONCILED_SENT"} \/ delivered[s] > 0
    BY <2>4, <2>6, <2>7, <2>8
  <2> QED BY <2>1, <2>2, <2>3, <2>9, SentKept DEF At
<1>5. ASSUME NEW r \in Run, NEW s \in Slot, Pick(r, s) PROVE SentInv'
  <2>1. UNCHANGED <<row, shown, delivered, accepted, hit>>
    BY <1>5 DEF Pick, market
  <2>2. /\ r \notin accepted /\ pc'[r] # "confirm"
        /\ \A q \in Run : q # r => pc'[q] = pc[q] /\ cur'[q] = cur[q]
    BY <1>0, <1>5 DEF Pick, Goto, Place, At, BaseOK
  <2> QED BY <2>1, <2>2, SentKept DEF At
<1>6. ASSUME NEW r \in Run, Reserve(r) PROVE SentInv'
  <2>1. UNCHANGED <<delivered, accepted, hit>> /\ shown' \subseteq shown
    BY <1>6 DEF Reserve
  <2>2. /\ r \notin accepted /\ pc'[r] # "confirm"
        /\ \A q \in Run : q # r => pc'[q] = pc[q] /\ cur'[q] = cur[q]
    <3>1. r \notin accepted
      BY <1>0, <1>6 DEF Reserve, Place, At
    <3>2. \/ pc' = [pc EXCEPT ![r] = "send"] /\ cur' = cur
          \/ pc' = [pc EXCEPT ![r] = "next"] /\ cur' = [cur EXCEPT ![r] = NoSlot]
      BY <1>6 DEF Reserve, Leave, Goto
    <3> QED BY <1>0, <3>1, <3>2 DEF BaseOK
  <2>3. row' = row \/ row' = [row EXCEPT ![cur[r]] = [state |-> "RESERVED", age |-> 0]]
    BY <1>6 DEF Reserve
  <2>4. \A s \in Slot : row'[s] = row[s] \/ row'[s].state = "RESERVED"
    <3>1. cur[r] \in Slot
      BY <1>0, <1>6 DEF Reserve, Place, At
    <3> QED BY <1>0, <2>3, <3>1, RowWrite
  <2> QED BY <2>1, <2>2, <2>4, SentKept DEF At
<1>7. ASSUME NEW r \in Run, Send(r) PROVE SentInv'
  <2>1. UNCHANGED <<row, shown, delivered, accepted, hit, cur>>
    BY <1>7 DEF Send
  <2>2. pc'[r] # "confirm" /\ r \notin accepted /\ \A q \in Run : q # r => pc'[q] = pc[q]
    BY <1>0, <1>7 DEF Send, Goto, Place, At, BaseOK
  <2> QED BY <2>1, <2>2, SentKept DEF At
<1>8. ASSUME NEW r \in Run, Return(r) PROVE SentInv'
  <2>1. UNCHANGED <<row, shown, delivered, hit, cur>> /\ accepted' \subseteq accepted
    BY <1>8 DEF Return
  <2>2. /\ pc'[r] = "confirm" => r \in accepted
        /\ r \notin accepted' /\ \A q \in Run : q # r => pc'[q] = pc[q]
    BY <1>0, <1>8 DEF Return, Goto, BaseOK
  <2> QED BY <2>1, <2>2, SentKept DEF At
<1>9. ASSUME NEW r \in Run, Confirm(r) \/ Mark(r) PROVE SentInv'
  <2>1. UNCHANGED <<shown, delivered, accepted, hit>>
    BY <1>9 DEF Confirm, Mark, market
  <2>2. /\ r \notin accepted /\ pc'[r] # "confirm"
        /\ \A q \in Run : q # r => pc'[q] = pc[q] /\ cur'[q] = cur[q]
    BY <1>0, <1>9 DEF Confirm, Mark, Leave, Goto, Place, At, BaseOK
  <2>3. cur[r] \in Slot
    BY <1>0, <1>9 DEF Confirm, Mark, Place, At
  <2>4. \/ row' = row
        \/ row' = [row EXCEPT ![cur[r]].state = "SENT"] /\ At(r, "confirm")
        \/ row' = [row EXCEPT ![cur[r]].state = "UNKNOWN_RESULT"]
    BY <1>9 DEF Confirm, Mark, Marking
  <2>5. \A s \in Slot : \/ row'[s] = row[s]
                        \/ row'[s].state = "UNKNOWN_RESULT"
                        \/ s = cur[r] /\ At(r, "confirm")
    <3> DEFINE new(st) == [row EXCEPT ![cur[r]].state = st]
    <3>1. \A st : /\ \A s \in Slot : s # cur[r] => new(st)[s] = row[s]
                 /\ new(st)[cur[r]].state = st
      <4>1. ASSUME NEW st PROVE /\ \A s \in Slot : s # cur[r] => new(st)[s] = row[s]
                                /\ new(st)[cur[r]].state = st
        BY <1>0, <2>3, RowWrite
      <4> QED BY <4>1
    <3>2. CASE row' = row
      BY <3>2
    <3>3. CASE row' = new("SENT") /\ At(r, "confirm")
      BY <3>1, <3>3
    <3>4. CASE row' = new("UNKNOWN_RESULT")
      BY <3>1, <3>4
    <3> QED BY <2>4, <3>2, <3>3, <3>4
  <2>6. At(r, "confirm") => delivered[cur[r]] > 0
    BY DEF SentInv
  <2> QED BY <2>1, <2>2, <2>5, <2>6, SentKept DEF At
<1>10. ASSUME NEW r \in Run, Crash(r) PROVE SentInv'
  <2>1. UNCHANGED <<row, shown, delivered>> /\ accepted' = accepted \ {r}
        /\ \A q \in Run : hit'[q] \subseteq hit[q]
    BY <1>0, <1>10 DEF Crash, BaseOK
  <2>2. pc'[r] = "idle" /\ \A q \in Run : q # r => pc'[q] = pc[q] /\ cur'[q] = cur[q]
    BY <1>0, <1>10 DEF Crash, BaseOK
  <2> QED BY <2>1, <2>2, SentKept DEF At
<1>11. ASSUME NEW r \in Run, Deliver(r) PROVE SentInv'
  <2>c. PICK c \in Slot : c = call[r]
    BY <1>0, <1>11 DEF Deliver, InFlight, BaseOK
  <2>1. /\ delivered' = [delivered EXCEPT ![c] = @ + 1] /\ UNCHANGED <<row, pc, cur>>
        /\ shown' = shown \cup {c} /\ \A q \in Run : hit'[q] \subseteq hit[q] \cup {c}
        /\ accepted' = IF At(r, "wait") THEN accepted \cup {r} ELSE accepted
    BY <1>11, <2>c DEF Deliver
  <2>2. delivered'[c] > 0 /\ \A s \in Slot : delivered[s] > 0 => delivered'[s] > 0
    <3>1. /\ delivered'[c] = delivered[c] + 1 /\ delivered[c] \in Nat
          /\ \A s \in Slot : s # c => delivered'[s] = delivered[s]
      BY <1>0, <2>1 DEF BaseOK
    <3>2. \A s \in Slot : delivered[s] \in Nat
      BY <1>0 DEF BaseOK
    <3> QED BY <3>1, <3>2
  <2>3. At(r, "wait") => cur[r] = c
    BY <1>0, <1>11, <2>c DEF Deliver, Place
  <2>4. \A s \in shown' : delivered'[s] > 0
    BY <1>0, <2>1, <2>2 DEF SentInv, BaseOK
  <2>5. \A q \in Run : \A s \in hit'[q] : delivered'[s] > 0
    BY <1>0, <2>1, <2>2 DEF SentInv, BaseOK
  <2>6. \A q \in Run : q \in accepted' \/ At(q, "confirm")' => delivered'[cur'[q]] > 0
    <3>1. ASSUME NEW q \in Run, q \in accepted \/ At(q, "confirm") PROVE delivered'[cur[q]] > 0
      <4>1. cur[q] \in Slot /\ delivered[cur[q]] > 0
        BY <1>0, <3>1 DEF Place, At, SentInv
      <4> QED BY <2>2, <4>1
    <3> QED BY <2>1, <2>2, <2>3, <3>1 DEF At
  <2>7. SentMeansDelivered'
    BY <2>1, <2>2 DEF SentInv, SentMeansDelivered
  <2> QED BY <2>4, <2>5, <2>6, <2>7 DEF SentInv
<1>12. CASE (\E r \in Run : Drop(r)) \/ UNCHANGED vars
  <2>1. UNCHANGED <<row, shown, delivered, accepted, pc, cur, hit>>
    BY <1>12 DEF Drop, vars, market, rvars
  <2> QED BY <2>1, SentKept DEF At
<1>13. CASE Tick
  <2>1. UNCHANGED <<shown, delivered, accepted, pc, cur, hit>>
    BY <1>13 DEF Tick, rvars
  <2>2. \A s \in Slot : row'[s].state = row[s].state
    BY <1>0, <1>13 DEF Tick, BaseOK
  <2> QED BY <2>1, <2>2, SentKept DEF At
<1>14. ASSUME NEW r \in Run, Step(r) PROVE SentInv'
  BY <1>1, <1>2, <1>4, <1>5, <1>6, <1>7, <1>8, <1>9, <1>14 DEF Step
<1>15. ASSUME NEW r \in Run, Failure(r) PROVE SentInv'
  BY <1>2, <1>3, <1>10, <1>15 DEF Failure
<1> QED BY <1>11, <1>12, <1>13, <1>14, <1>15 DEF Next

-----------------------------------------------------------------------------
(* Duplicates *)

\* Runs with a message for the slot under way, or about to be.
Sender(q, s) == (At(q, "send") /\ cur[q] = s) \/ call[q] = s
\* Every such message is as old as the cutoff, so that it would come late.
AllOld(s) == \A q \in Run : Sender(q, s) => since[q] = Cutoff

\* As long as no message of a slot came late and no reservation of it was
\* released on an older read: one message at most was delivered, and then it
\* is visible and the row cannot be reserved again; whoever may release the
\* row has read it past the cutoff, so that all its messages are old, and has
\* the delivered one among its hits; at most one message is young.
Single(s) ==
  /\ delivered[s] \in {0, 1}
  /\ delivered[s] = 1 => s \in shown /\ AllOld(s)
  /\ row[s].state \in {"NONE", "RELEASED"} => delivered[s] = 0 /\ AllOld(s)
  /\ row[s].state \in Ambiguous => \A q \in Run : Sender(q, s) => row[s].age <= since[q]
  /\ \A p, q \in Run : Sender(p, s) /\ Sender(q, s) /\ since[p] < Cutoff /\ since[q] < Cutoff
                     => p = q
  /\ \A r \in Run : amb[r][s] # "" /\ s \notin old[r]
                    => AllOld(s) /\ (delivered[s] = 1 => s \in hit[r])

DupInv == \A s \in Slot : s \notin late \cup stale => Single(s)

LEMMA DupInit == Init => DupInv
<1> SUFFICES ASSUME Init, NEW s \in Slot PROVE Single(s)
  BY DEF DupInv
<1>1. \A q \in Run : ~Sender(q, s)
  BY Numbers DEF Init, Sender, At
<1>2. AllOld(s) /\ delivered[s] = 0
  BY <1>1 DEF AllOld, Init
<1>a. \A r \in Run : amb[r][s] = ""
  BY DEF Init, Nothing
<1>3. delivered[s] \in {0, 1} /\ delivered[s] # 1
  BY <1>2
<1>4. \A r \in Run : amb[r][s] # "" /\ s \notin old[r]
                    => AllOld(s) /\ (delivered[s] = 1 => s \in hit[r])
  BY <1>a
<1> QED BY <1>1, <1>2, <1>3, <1>4 DEF Single

\* A step that leaves a slot's row, messages and senders alone.
LEMMA SingleKept ==
  ASSUME BaseInv, NEW s \in Slot, Single(s),
         delivered'[s] = delivered[s], s \in shown => s \in shown', row'[s] = row[s],
         \A q \in Run : Sender(q, s)' => Sender(q, s) /\ since'[q] = since[q],
         \A r \in Run : amb'[r][s] # "" /\ s \notin old'[r] =>
                          /\ amb[r][s] # "" /\ s \notin old[r]
                          /\ s \in hit[r] => s \in hit'[r]
  PROVE  Single(s)'
<1>1. AllOld(s) => AllOld(s)'
  BY DEF AllOld
<1>2. delivered'[s] \in {0, 1} /\ (delivered'[s] = 1 => s \in shown' /\ AllOld(s)')
  BY <1>1 DEF Single
<1>3. row'[s].state \in {"NONE", "RELEASED"} => delivered'[s] = 0 /\ AllOld(s)'
  BY <1>1 DEF Single
<1>4. row'[s].state \in Ambiguous => \A q \in Run : Sender(q, s)' => row'[s].age <= since'[q]
  BY DEF Single
<1>5. \A p, q \in Run : Sender(p, s)' /\ Sender(q, s)' /\ since'[p] < Cutoff /\ since'[q] < Cutoff
                     => p = q
  BY DEF Single
<1>6. \A r \in Run : amb'[r][s] # "" /\ s \notin old'[r]
                    => AllOld(s)' /\ (delivered'[s] = 1 => s \in hit'[r])
  BY <1>1 DEF Single
<1> QED BY <1>2, <1>3, <1>4, <1>5, <1>6 DEF Single, Ambiguous

\* The same, when the slot's row is closed, or is marked unresolved again.
LEMMA SingleClosed ==
  ASSUME BaseInv, NEW s \in Slot, Single(s), UNCHANGED <<delivered, shown, since, call, amb, old, hit>>,
         \A q \in Run : Sender(q, s)' => Sender(q, s),
         \/ row'[s].state \in {"SENT", "RECONCILED_SENT"}
         \/ row[s].state \in Ambiguous /\ row'[s].state \in Ambiguous /\ row'[s].age = row[s].age
  PROVE  Single(s)'
<1>1. AllOld(s) => AllOld(s)'
  BY DEF AllOld
<1>2. delivered'[s] \in {0, 1} /\ (delivered'[s] = 1 => s \in shown' /\ AllOld(s)')
  BY <1>1 DEF Single
<1>3. row'[s].state \notin {"NONE", "RELEASED"}
  BY DEF Ambiguous
<1>4. row'[s].state \in Ambiguous => \A q \in Run : Sender(q, s)' => row'[s].age <= since'[q]
  BY DEF Single, Ambiguous
<1>5. \A p, q \in Run : Sender(p, s)' /\ Sender(q, s)' /\ since'[p] < Cutoff /\ since'[q] < Cutoff
                     => p = q
  BY DEF Single
<1>6. \A r \in Run : amb'[r][s] # "" /\ s \notin old'[r]
                    => AllOld(s)' /\ (delivered'[s] = 1 => s \in hit'[r])
  BY <1>1 DEF Single
<1> QED BY <1>2, <1>3, <1>4, <1>5, <1>6 DEF Single, Ambiguous

LEMMA SingleStart ==
  ASSUME BaseInv, NEW s \in Slot, Single(s), NEW r \in Run, Start(r)
  PROVE  Single(s)'
<1>0. BaseOK
  BY DEF BaseInv
<1>1. /\ UNCHANGED <<row, shown, delivered, call, since, old, cur>>
      /\ \A q \in Run : q # r => amb'[q] = amb[q] /\ hit'[q] = hit[q] /\ pc'[q] = pc[q]
      /\ amb'[r][s] = (IF Unresolved(s) THEN row[s].state ELSE "")
      /\ (s \in hit'[r] <=> s \in shown /\ Unresolved(s))
      /\ pc'[r] = "reconcile"
  BY <1>0 DEF Start, BaseOK, Goto, market, ghosts
<1>2. \A q \in Run : Sender(q, s)' => Sender(q, s)
  BY <1>1 DEF Sender, At
<1>3. AllOld(s) => AllOld(s)'
  BY <1>1, <1>2 DEF AllOld
<1>4. Unresolved(s) => AllOld(s)
  <2>1. ASSUME Unresolved(s), NEW q \in Run, Sender(q, s) PROVE since[q] = Cutoff
    <3>1. row[s].state \in Ambiguous /\ row[s].age = Cutoff
      BY <2>1 DEF Unresolved
    <3>2. row[s].age <= since[q]
      BY <2>1, <3>1 DEF Single
    <3>3. since[q] \in 0..Cutoff
      BY <1>0 DEF BaseOK
    <3> QED BY <3>1, <3>2, <3>3, Numbers
  <2> QED BY <2>1 DEF AllOld
<1>5. \A q \in Run : amb'[q][s] # "" /\ s \notin old'[q]
                    => AllOld(s)' /\ (delivered'[s] = 1 => s \in hit'[q])
  <2>1. ASSUME NEW q \in Run, amb'[q][s] # "", s \notin old'[q]
        PROVE  AllOld(s)' /\ (delivered'[s] = 1 => s \in hit'[q])
    <3>1. CASE q = r
      <4>1. Unresolved(s)
        BY <1>1, <2>1, <3>1
      <4> QED BY <1>1, <1>3, <1>4, <3>1, <4>1 DEF Single
    <3>2. CASE q # r
      BY <1>1, <1>3, <2>1, <3>2 DEF Single
    <3> QED BY <3>1, <3>2
  <2> QED BY <2>1
<1>6. delivered'[s] \in {0, 1} /\ (delivered'[s] = 1 => s \in shown' /\ AllOld(s)')
  BY <1>1, <1>3 DEF Single
<1>7. row'[s].state \in {"NONE", "RELEASED"} => delivered'[s] = 0 /\ AllOld(s)'
  BY <1>1, <1>3 DEF Single
<1>8. row'[s].state \in Ambiguous => \A q \in Run : Sender(q, s)' => row'[s].age <= since'[q]
  BY <1>1, <1>2 DEF Single
<1>9. \A p, q \in Run : Sender(p, s)' /\ Sender(q, s)' /\ since'[p] < Cutoff /\ since'[q] < Cutoff
                     => p = q
  BY <1>1, <1>2 DEF Single
<1> QED BY <1>5, <1>6, <1>7, <1>8, <1>9 DEF Single, Ambiguous

LEMMA SingleUpdate ==
  ASSUME BaseInv, NEW s \in Slot, Single(s), NEW r \in Run, Update(r), s \notin stale'
  PROVE  Single(s)'
<1>0. BaseOK /\ Place(r)
  BY DEF BaseInv
<1>c. PICK c \in Slot : c = cur[r]
  BY <1>0 DEF Update, Place, At
<1>1. /\ UNCHANGED <<shown, delivered, call, since>>
      /\ \A q \in Run : q # r => /\ amb'[q] = amb[q] /\ hit'[q] = hit[q] /\ old'[q] = old[q]
                                /\ pc'[q] = pc[q] /\ cur'[q] = cur[q]
      /\ amb'[r] = [amb[r] EXCEPT ![c] = ""] /\ hit'[r] = hit[r] \ {c} /\ old'[r] = old[r] \ {c}
      /\ pc'[r] = "reconcile" /\ amb[r][c] # ""
  BY <1>0, <1>c DEF Update, Forget, Goto, BaseOK, market, Place
<1>2. \A q \in Run : Sender(q, s)' => Sender(q, s) /\ since'[q] = since[q]
  BY <1>1 DEF Sender, At
<1>3. \A q \in Run : amb'[q][s] # "" /\ s \notin old'[q] =>
                      /\ amb[q][s] # "" /\ s \notin old[q]
                      /\ s \in hit[q] => s \in hit'[q]
  <2>1. s = c => amb'[r][s] = ""
    BY <1>0, <1>1 DEF BaseOK
  <2>2. s # c => amb'[r][s] = amb[r][s]
    BY <1>0, <1>1 DEF BaseOK
  <2> QED BY <1>1, <2>1, <2>2
<1>4. CASE row'[s] = row[s]
  BY <1>1, <1>2, <1>3, <1>4, SingleKept
<1>5. CASE row'[s] # row[s]
  <2>1. /\ row' = [row EXCEPT ![c].state = Verdict(r, c)] /\ Unmoved(r, c)
        /\ stale' = IF c \in old[r] /\ Verdict(r, c) = "RELEASED" THEN stale \cup {c} ELSE stale
    BY <1>5, <1>c DEF Update
  <2> DEFINE new == [row EXCEPT ![c].state = Verdict(r, c)]
  <2>2. new[c].state = Verdict(r, c) /\ \A t \in Slot : t # c => new[t] = row[t]
    BY <1>0, RowWrite
  <2>3. s = c /\ row'[s].state = Verdict(r, s)
    BY <1>5, <2>1, <2>2
  <2>4. row'[s].state = "RELEASED" => s \notin hit[r] /\ s \notin old[r]
    BY <2>1, <2>3 DEF Verdict
  <2>5. row'[s].state = "RELEASED" => delivered[s] = 0 /\ AllOld(s)
    BY <1>1, <2>3, <2>4 DEF Single
  <2>6. row'[s].state \in {"RELEASED", "RECONCILED_SENT"}
    BY <2>3 DEF Verdict
  <2>7. AllOld(s) => AllOld(s)'
    BY <1>2 DEF AllOld
  <2>8. delivered'[s] \in {0, 1} /\ (delivered'[s] = 1 => s \in shown' /\ AllOld(s)')
    BY <1>1, <2>7 DEF Single
  <2>9. row'[s].state \in {"NONE", "RELEASED"} => delivered'[s] = 0 /\ AllOld(s)'
    BY <1>1, <2>5, <2>6, <2>7
  <2>10. \A p, q \in Run : Sender(p, s)' /\ Sender(q, s)' /\ since'[p] < Cutoff /\ since'[q] < Cutoff
                     => p = q
    BY <1>2 DEF Single
  <2>11. \A q \in Run : amb'[q][s] # "" /\ s \notin old'[q]
                    => AllOld(s)' /\ (delivered'[s] = 1 => s \in hit'[q])
    BY <1>1, <1>3, <2>7 DEF Single
  <2> QED BY <2>6, <2>8, <2>9, <2>10, <2>11 DEF Single, Ambiguous
<1> QED BY <1>4, <1>5

LEMMA SingleReserve ==
  ASSUME BaseInv, NEW s \in Slot, Single(s), NEW r \in Run, Reserve(r)
  PROVE  Single(s)'
<1>0. BaseOK /\ Place(r)
  BY DEF BaseInv
<1>c. PICK c \in Slot : c = cur[r]
  BY <1>0 DEF Reserve, Place, At
<1>1. /\ UNCHANGED <<delivered, call, amb, hit>> /\ call[r] = NoSlot
      /\ \A q \in Run : q # r => pc'[q] = pc[q] /\ cur'[q] = cur[q] /\ since'[q] = since[q]
      /\ pc'[r] = "send" => cur'[r] = c /\ since'[r] = 0 /\ Reservable(c)
      /\ pc[r] = "reserve"
  <2>1. \/ /\ Reservable(cur[r]) /\ pc' = [pc EXCEPT ![r] = "send"] /\ cur' = cur
           /\ since' = [since EXCEPT ![r] = 0]
        \/ pc' = [pc EXCEPT ![r] = "next"] /\ cur' = [cur EXCEPT ![r] = NoSlot] /\ since' = since
    BY DEF Reserve, Leave, Goto
  <2>2. UNCHANGED <<delivered, call, amb, hit>> /\ call[r] = NoSlot /\ pc[r] = "reserve"
    BY DEF Reserve, InFlight, At
  <2> QED BY <1>0, <1>c, <2>1, <2>2 DEF BaseOK
<1>2. \A q \in Run : Sender(q, s)' => (Sender(q, s) /\ q # r) \/ (q = r /\ s = c /\ Reservable(c))
  <2>1. ASSUME Sender(r, s)' PROVE s = c /\ Reservable(c)
    <3>1. call'[r] # s
      BY <1>1, Numbers
    <3>2. pc'[r] = "send" /\ cur'[r] = s
      BY <2>1, <3>1 DEF Sender, At
    <3> QED BY <1>1, <3>2
  <2> SUFFICES ASSUME NEW q \in Run, Sender(q, s)'
               PROVE  (Sender(q, s) /\ q # r) \/ (q = r /\ s = c /\ Reservable(c))
    OBVIOUS
  <2>3. CASE q = r
    BY <2>1, <2>3
  <2>4. CASE q # r
    <3>1. pc'[q] = pc[q] /\ cur'[q] = cur[q] /\ call'[q] = call[q]
      BY <1>1, <2>4
    <3> QED BY <2>4, <3>1 DEF Sender, At
  <2> QED BY <2>3, <2>4
<1>3. \A q \in Run : old'[q] = IF Reservable(c) /\ amb[q][c] # "" THEN old[q] \cup {c} ELSE old[q]
  <2>1. CASE Reservable(c)
    <3>1. old' = [q \in Run |-> IF amb[q][c] # "" THEN old[q] \cup {c} ELSE old[q]]
      BY <1>c, <2>1 DEF Reserve
    <3> QED BY <2>1, <3>1
  <2>2. CASE ~Reservable(c)
    BY <1>c, <2>2 DEF Reserve
  <2> QED BY <2>1, <2>2
<1>4. CASE s # c \/ ~Reservable(c)
  <2>1. row'[s] = row[s] /\ (s \in shown => s \in shown')
    <3>1. CASE ~Reservable(c)
      BY <1>c, <3>1 DEF Reserve
    <3>2. CASE s # c
      <4>1. row' = row \/ row' = [row EXCEPT ![c] = [state |-> "RESERVED", age |-> 0]]
        BY <1>c DEF Reserve
      <4>2. [row EXCEPT ![c] = [state |-> "RESERVED", age |-> 0]][s] = row[s]
        BY <1>0, <3>2, RowWrite
      <4>3. shown' = shown \/ shown' = shown \ {c}
        BY <1>c DEF Reserve
      <4> QED BY <3>2, <4>1, <4>2, <4>3
    <3> QED BY <1>4, <3>1, <3>2
  <2>2. \A q \in Run : Sender(q, s)' => Sender(q, s) /\ since'[q] = since[q]
    BY <1>1, <1>2, <1>4
  <2> QED BY <1>1, <1>3, <2>1, <2>2, SingleKept
<1>5. CASE s = c /\ Reservable(c)
  <2>1. row' = [row EXCEPT ![c] = [state |-> "RESERVED", age |-> 0]]
    BY <1>c, <1>5 DEF Reserve
  <2>2. [row EXCEPT ![c] = [state |-> "RESERVED", age |-> 0]][c] = [state |-> "RESERVED", age |-> 0]
    BY <1>0, RowWrite
  <2>3. row'[s].state = "RESERVED" /\ row'[s].age = 0
    BY <1>5, <2>1, <2>2
  <2>4. delivered[s] = 0 /\ AllOld(s)
    BY <1>5 DEF Reservable, Single
  <2>5. \A q \in Run : amb'[q][s] # "" => s \in old'[q]
    BY <1>1, <1>3, <1>5
  <2>6. \A q \in Run : since'[q] \in 0..Cutoff
    <3>1. since' = since \/ since' = [since EXCEPT ![r] = 0]
      BY DEF Reserve
    <3> QED BY <1>0, <3>1, Numbers DEF BaseOK
  <2>7. \A q \in Run : Sender(q, s)' /\ since'[q] < Cutoff => q = r
    BY <1>1, <1>2, <2>4, Numbers DEF AllOld
  <2>8. \A q \in Run : row'[s].age <= since'[q]
    BY <2>3, <2>6, Numbers
  <2>9. delivered'[s] = 0
    BY <1>1, <2>4
  <2>10. row'[s].state \notin {"NONE", "RELEASED"}
    BY <2>3
  <2>11. \A p, q \in Run : Sender(p, s)' /\ Sender(q, s)' /\ since'[p] < Cutoff /\ since'[q] < Cutoff
                     => p = q
    BY <2>7
  <2>12. delivered'[s] \in {0, 1} /\ delivered'[s] # 1
    BY <2>9
  <2> QED BY <2>5, <2>8, <2>10, <2>11, <2>12 DEF Single
<1> QED BY <1>4, <1>5

LEMMA SingleDeliver ==
  ASSUME BaseInv, NEW s \in Slot, Single(s), NEW r \in Run, Deliver(r), s \notin late'
  PROVE  Single(s)'
<1>0. BaseOK /\ Place(r)
  BY DEF BaseInv
<1>c. PICK c \in Slot : c = call[r]
  BY <1>0 DEF Deliver, InFlight, BaseOK
<1>1. /\ UNCHANGED <<row, since, pc, amb, cur, old>>
      /\ delivered' = [delivered EXCEPT ![c] = @ + 1] /\ shown' = shown \cup {c}
      /\ \A q \in Run : hit[q] \subseteq hit'[q]
      /\ call'[r] = NoSlot /\ \A q \in Run : q # r => call'[q] = call[q]
      /\ pc[r] # "send"
  BY <1>0, <1>c DEF Deliver, BaseOK, Place, At
<1>2. \A q \in Run : Sender(q, s)' => Sender(q, s) /\ q # r
  BY <1>1, Numbers DEF Sender, At
<1>3. CASE s # c
  <2>1. delivered'[s] = delivered[s]
    BY <1>0, <1>1, <1>3 DEF BaseOK
  <2> QED BY <1>1, <1>2, <2>1, SingleKept
<1>4. CASE s = c
  <2>1. since[r] \in 0..Cutoff /\ since[r] # Cutoff
    BY <1>0, <1>c, <1>4 DEF Deliver, BaseOK
  <2>2. Sender(r, s) /\ since[r] < Cutoff
    BY <1>c, <1>4, <2>1, Numbers DEF Sender
  <2>3. ~AllOld(s)
    BY <2>1, <2>2 DEF AllOld
  <2>4. /\ delivered[s] = 0 /\ row[s].state \notin {"NONE", "RELEASED"}
        /\ \A q \in Run : amb[q][s] # "" => s \in old[q]
    BY <2>3 DEF Single
  <2>5. delivered'[s] = 1 /\ s \in shown'
    <3>1. delivered'[c] = delivered[c] + 1
      BY <1>0, <1>1 DEF BaseOK
    <3>2. delivered'[c] = 0 + 1
      BY <1>4, <2>4, <3>1
    <3>3. c \in shown'
      BY <1>1
    <3> QED BY <1>4, <3>2, <3>3
  <2>6. AllOld(s)'
    <3>1. ASSUME NEW q \in Run, Sender(q, s)' PROVE since'[q] = Cutoff
      <4>1. ~(since[q] < Cutoff)
        BY <1>2, <2>2, <3>1 DEF Single
      <4>2. since[q] \in 0..Cutoff
        BY <1>0 DEF BaseOK
      <4> QED BY <1>1, <4>1, <4>2, Numbers
    <3> QED BY <3>1 DEF AllOld
  <2>7. row'[s].state \in Ambiguous => \A q \in Run : Sender(q, s)' => row'[s].age <= since'[q]
    BY <1>1, <1>2 DEF Single
  <2>8. \A p, q \in Run : Sender(p, s)' /\ Sender(q, s)' /\ since'[p] < Cutoff /\ since'[q] < Cutoff
                     => p = q
    BY <1>1, <1>2 DEF Single
  <2> QED BY <1>1, <2>4, <2>5, <2>6, <2>7, <2>8 DEF Single, Ambiguous
<1> QED BY <1>3, <1>4

LEMMA SingleTick ==
  ASSUME BaseInv, NEW s \in Slot, Single(s), Tick
  PROVE  Single(s)'
<1>0. BaseOK
  BY DEF BaseInv
<1>1. UNCHANGED <<shown, delivered, call, pc, amb, hit, cur, old>>
  BY DEF Tick, rvars, ghosts
<1>2. \A q \in Run : Sender(q, s)' <=> Sender(q, s)
  BY <1>1 DEF Sender, At
<1>3. \A q \in Run : Sender(q, s) => since'[q] = Older(since[q]) /\ since[q] \in 0..Cutoff
  <2>1. \A q \in Run : Sender(q, s) => Sending(q)
    BY Numbers DEF Sender, Sending, InFlight
  <2> QED BY <1>0, <2>1 DEF Tick, BaseOK
<1>4. /\ row'[s].state = row[s].state
      /\ row[s].state \in Ambiguous => row'[s].age = Older(row[s].age) /\ row[s].age \in 0..Cutoff
  <2>1. row[s] \in [state : Delivery, age : 0..Cutoff]
    BY <1>0 DEF BaseOK
  <2>2. row'[s] = IF row[s].state \in Ambiguous THEN [row[s] EXCEPT !.age = Older(@)] ELSE row[s]
    BY DEF Tick
  <2>3. CASE row[s].state \in Ambiguous
    BY <2>1, <2>2, <2>3
  <2>4. CASE row[s].state \notin Ambiguous
    BY <2>1, <2>2, <2>4
  <2> QED BY <2>3, <2>4
<1>5. AllOld(s) => AllOld(s)'
  BY <1>2, <1>3, OlderType DEF AllOld
<1>6. row'[s].state \in Ambiguous => \A q \in Run : Sender(q, s)' => row'[s].age <= since'[q]
  <2>1. ASSUME row'[s].state \in Ambiguous, NEW q \in Run, Sender(q, s)'
        PROVE  row'[s].age <= since'[q]
    <3>1. row[s].age <= since[q]
      BY <1>2, <1>4, <2>1 DEF Single
    <3>2. Older(row[s].age) <= Older(since[q])
      BY <1>2, <1>3, <1>4, <2>1, <3>1, OlderType
    <3> QED BY <1>2, <1>3, <1>4, <2>1, <3>2
  <2> QED BY <2>1
<1>7. \A p, q \in Run : Sender(p, s)' /\ Sender(q, s)' /\ since'[p] < Cutoff /\ since'[q] < Cutoff
                     => p = q
  <2>1. ASSUME NEW q \in Run, Sender(q, s)', since'[q] < Cutoff PROVE since[q] < Cutoff
    BY <1>2, <1>3, <2>1, OlderType
  <2> QED BY <1>2, <2>1 DEF Single
<1>8. delivered'[s] \in {0, 1} /\ (delivered'[s] = 1 => s \in shown' /\ AllOld(s)')
  BY <1>1, <1>5 DEF Single
<1>9. row'[s].state \in {"NONE", "RELEASED"} => delivered'[s] = 0 /\ AllOld(s)'
  BY <1>1, <1>4, <1>5 DEF Single
<1>10. \A q \in Run : amb'[q][s] # "" /\ s \notin old'[q]
                    => AllOld(s)' /\ (delivered'[s] = 1 => s \in hit'[q])
  BY <1>1, <1>5 DEF Single
<1> QED BY <1>6, <1>7, <1>8, <1>9, <1>10 DEF Single, Ambiguous

LEMMA DupStep == BaseInv /\ DupInv /\ [Next]_vars => DupInv'
<1> SUFFICES ASSUME BaseInv, DupInv, [Next]_vars, NEW s \in Slot, s \notin late' \cup stale'
             PROVE  Single(s)'
  BY DEF DupInv
<1>0. BaseOK /\ \A r \in Run : Place(r)
  BY DEF BaseInv
<1>s. Single(s) /\ s \notin late' /\ s \notin stale'
  <2>1. late \subseteq late' /\ stale \subseteq stale'
    <3>1. CASE UNCHANGED <<late, stale>>
      BY <3>1
    <3>2. ASSUME NEW r \in Run, Update(r) PROVE late \subseteq late' /\ stale \subseteq stale'
      BY <3>2 DEF Update
    <3>3. ASSUME NEW r \in Run, Deliver(r) PROVE late \subseteq late' /\ stale \subseteq stale'
      BY <3>3 DEF Deliver
    <3>4. ASSUME NEW r \in Run, Step(r), ~Update(r) PROVE UNCHANGED <<late, stale>>
      BY <3>4 DEF Step, Start, Fetch, Candidates, Finish, Pick, Reserve, Send, Return, Confirm,
                  Mark, ghosts
    <3>5. ASSUME NEW r \in Run, Failure(r) \/ Drop(r) PROVE UNCHANGED <<late, stale>>
      BY <3>5 DEF Failure, FetchFails, ReserveFails, Crash, Drop, ghosts
    <3>6. Tick \/ UNCHANGED vars => UNCHANGED <<late, stale>>
      BY DEF Tick, vars, ghosts
    <3> QED BY <3>1, <3>2, <3>3, <3>4, <3>5, <3>6 DEF Next
  <2> QED BY <2>1 DEF DupInv
<1>1. ASSUME NEW r \in Run, Start(r) PROVE Single(s)'
  BY <1>1, <1>s, SingleStart
<1>2. ASSUME NEW r \in Run, Update(r) PROVE Single(s)'
  BY <1>2, <1>s, SingleUpdate
<1>3. ASSUME NEW r \in Run, Reserve(r) PROVE Single(s)'
  BY <1>3, <1>s, SingleReserve
<1>4. ASSUME NEW r \in Run, Deliver(r) PROVE Single(s)'
  BY <1>4, <1>s, SingleDeliver
<1>5. ASSUME Tick PROVE Single(s)'
  BY <1>5, <1>s, SingleTick
<1>6. ASSUME NEW r \in Run,
             \/ (\E t \in Slot : Fetch(r, t) \/ Pick(r, t))
             \/ Candidates(r) \/ Finish(r) \/ Return(r) \/ ReserveFails(r)
      PROVE  Single(s)'
  <2>1. /\ UNCHANGED <<row, shown, delivered, call, since, amb, hit, old>>
        /\ pc'[r] # "send"
        /\ \A q \in Run : q # r => pc'[q] = pc[q] /\ cur'[q] = cur[q]
    <3>1. CASE \E t \in Slot : Fetch(r, t)
      BY <1>0, <3>1 DEF Fetch, Goto, BaseOK, market, ghosts
    <3>2. CASE \E t \in Slot : Pick(r, t)
      BY <1>0, <3>2 DEF Pick, At, Goto, BaseOK, market, ghosts
    <3>3. CASE Candidates(r) \/ Finish(r) \/ Return(r)
      BY <1>0, <3>3 DEF Candidates, Finish, Return, Goto, BaseOK, market, ghosts
    <3>4. CASE ReserveFails(r)
      BY <1>0, <3>4 DEF ReserveFails, Leave, Goto, BaseOK, market, ghosts
    <3> QED BY <1>6, <3>1, <3>2, <3>3, <3>4
  <2>2. \A q \in Run : Sender(q, s)' => Sender(q, s) /\ since'[q] = since[q]
    BY <2>1 DEF Sender, At
  <2> QED BY <1>s, <2>1, <2>2, SingleKept
<1>7. ASSUME NEW r \in Run, NEW t \in Slot, FetchFails(r, t) PROVE Single(s)'
  <2>1. /\ UNCHANGED <<row, shown, delivered, call, since, pc, cur>>
        /\ \A q \in Run : q # r => amb'[q] = amb[q] /\ hit'[q] = hit[q] /\ old'[q] = old[q]
        /\ amb'[r] = [amb[r] EXCEPT ![t] = ""] /\ hit'[r] = hit[r] \ {t} /\ old'[r] = old[r] \ {t}
    BY <1>0, <1>7 DEF FetchFails, Forget, BaseOK, market
  <2>2. \A q \in Run : Sender(q, s)' => Sender(q, s) /\ since'[q] = since[q]
    BY <2>1 DEF Sender, At
  <2>3. \A q \in Run : amb'[q][s] # "" /\ s \notin old'[q] =>
                        /\ amb[q][s] # "" /\ s \notin old[q]
                        /\ s \in hit[q] => s \in hit'[q]
    <3>1. s = t => amb'[r][s] = ""
      BY <1>0, <2>1 DEF BaseOK
    <3>2. s # t => amb'[r][s] = amb[r][s]
      BY <1>0, <2>1 DEF BaseOK
    <3> QED BY <2>1, <3>1, <3>2
  <2> QED BY <1>s, <2>1, <2>2, <2>3, SingleKept
<1>8. ASSUME NEW r \in Run, Send(r) PROVE Single(s)'
  <2>1. /\ UNCHANGED <<row, shown, delivered, since, amb, hit, old, cur>>
        /\ pc[r] = "send" /\ pc'[r] = "wait" /\ call'[r] = cur[r]
        /\ \A q \in Run : q # r => pc'[q] = pc[q] /\ call'[q] = call[q]
    BY <1>0, <1>8 DEF Send, Goto, At, BaseOK, ghosts
  <2>2. \A q \in Run : Sender(q, s)' => Sender(q, s) /\ since'[q] = since[q]
    <3>1. Sender(r, s)' => Sender(r, s)
      BY <2>1 DEF Sender, At
    <3>2. ASSUME NEW q \in Run, q # r PROVE Sender(q, s)' => Sender(q, s)
      BY <2>1, <3>2 DEF Sender, At
    <3> QED BY <2>1, <3>1, <3>2
  <2> QED BY <1>s, <2>1, <2>2, SingleKept
<1>9. ASSUME NEW r \in Run, Confirm(r) \/ Mark(r) PROVE Single(s)'
  <2>c. PICK c \in Slot : c = cur[r]
    BY <1>0, <1>9 DEF Confirm, Mark, Place, At
  <2>1. /\ UNCHANGED <<delivered, shown, since, call, amb, old, hit>>
        /\ pc'[r] = "next" /\ \A q \in Run : q # r => pc'[q] = pc[q] /\ cur'[q] = cur[q]
    BY <1>0, <1>9 DEF Confirm, Mark, Leave, Goto, BaseOK, market, ghosts
  <2>2. \A q \in Run : Sender(q, s)' => Sender(q, s)
    BY <2>1 DEF Sender, At
  <2>3. \/ row' = row
        \/ row' = [row EXCEPT ![c].state = "SENT"]
        \/ row[c].state = "RESERVED" /\ row' = [row EXCEPT ![c].state = "UNKNOWN_RESULT"]
    BY <1>9, <2>c DEF Confirm, Mark, Marking
  <2> DEFINE new(st) == [row EXCEPT ![c].state = st]
  <2>4. \A st : /\ \A t \in Slot : t # c => new(st)[t] = row[t]
               /\ new(st)[c].state = st /\ new(st)[c].age = row[c].age
    <3>1. ASSUME NEW st PROVE /\ \A t \in Slot : t # c => new(st)[t] = row[t]
                              /\ new(st)[c].state = st /\ new(st)[c].age = row[c].age
      BY <1>0, RowWrite
    <3> QED BY <3>1
  <2>5. CASE row'[s] = row[s]
    BY <1>s, <2>1, <2>2, <2>5, SingleKept
  <2>6. CASE row'[s] # row[s]
    <3>1. CASE row' = new("SENT")
      <4>1. s = c /\ row'[s].state = "SENT"
        BY <2>4, <2>6, <3>1
      <4> QED BY <1>s, <2>1, <2>2, <4>1, SingleClosed
    <3>2. CASE row[c].state = "RESERVED" /\ row' = new("UNKNOWN_RESULT")
      <4>1. s = c /\ row'[s].state = "UNKNOWN_RESULT" /\ row'[s].age = row[s].age
        BY <2>4, <2>6, <3>2
      <4>2. row[s].state \in Ambiguous /\ row'[s].state \in Ambiguous
        BY <3>2, <4>1 DEF Ambiguous
      <4> QED BY <1>s, <2>1, <2>2, <4>1, <4>2, SingleClosed
    <3> QED BY <2>3, <2>6, <3>1, <3>2
  <2> QED BY <2>5, <2>6
<1>10. ASSUME NEW r \in Run, Crash(r) PROVE Single(s)'
  <2>1. /\ UNCHANGED <<row, shown, delivered, call, since>>
        /\ pc'[r] = "idle" /\ amb'[r] = Nothing
        /\ \A q \in Run : q # r => /\ amb'[q] = amb[q] /\ hit'[q] = hit[q] /\ old'[q] = old[q]
                                  /\ pc'[q] = pc[q] /\ cur'[q] = cur[q]
    BY <1>0, <1>10 DEF Crash, BaseOK
  <2>2. \A q \in Run : Sender(q, s)' => Sender(q, s) /\ since'[q] = since[q]
    BY <2>1 DEF Sender, At
  <2>3. amb'[r][s] = ""
    BY <2>1 DEF Nothing
  <2> QED BY <1>s, <2>1, <2>2, <2>3, SingleKept
<1>11. ASSUME NEW r \in Run, Drop(r) PROVE Single(s)'
  <2>1. /\ UNCHANGED <<row, shown, delivered, since, pc, cur, amb, hit, old>>
        /\ call'[r] = NoSlot /\ \A q \in Run : q # r => call'[q] = call[q]
    BY <1>0, <1>11 DEF Drop, BaseOK, rvars, ghosts
  <2>2. \A q \in Run : Sender(q, s)' => Sender(q, s) /\ since'[q] = since[q]
    BY <2>1, Numbers DEF Sender, At
  <2> QED BY <1>s, <2>1, <2>2, SingleKept
<1>12. ASSUME UNCHANGED vars PROVE Single(s)'
  <2>1. UNCHANGED <<row, shown, delivered, call, since, pc, cur, amb, hit, old>>
    BY <1>12 DEF vars, market, rvars, ghosts
  <2>2. \A q \in Run : Sender(q, s)' => Sender(q, s) /\ since'[q] = since[q]
    BY <2>1 DEF Sender, At
  <2> QED BY <1>s, <2>1, <2>2, SingleKept
<1>13. ASSUME NEW r \in Run, Step(r) PROVE Single(s)'
  BY <1>1, <1>2, <1>3, <1>6, <1>8, <1>9, <1>13 DEF Step
<1>14. ASSUME NEW r \in Run, Failure(r) PROVE Single(s)'
  BY <1>6, <1>7, <1>10, <1>14 DEF Failure
<1> QED BY <1>4, <1>5, <1>11, <1>12, <1>13, <1>14 DEF Next

-----------------------------------------------------------------------------
(* Theorems *)

\* The inductive invariant: types and places, bounds, and the delivered
\* counts that the rows, the answers and the readers rely on.
Inv == BaseInv /\ Bounds /\ SentInv /\ DupInv

LEMMA InvHolds == Spec => []Inv
<1>1. Init => Inv
  BY BaseInit, BoundsInit, SentInit, DupInit DEF Inv
<1>2. Inv /\ [Next]_vars => Inv'
  BY BaseStep, BoundsStep, SentStep, DupStep DEF Inv
<1> QED BY <1>1, <1>2, PTL DEF Spec

\* Every variable keeps its type, and no slot is sent or delivered more often
\* than the bound on sends allows.
THEOREM TypeCorrect == Spec => []TypeOK
<1>1. ASSUME BaseOK, Bounds, NEW s \in Slot
      PROVE  calls[s] \in 0..MaxCalls /\ delivered[s] \in 0..MaxCalls
  <2>1. calls[s] \in Nat /\ delivered[s] \in Nat
    BY <1>1 DEF BaseOK
  <2>2. Cardinality(Sends(s)) \in Nat /\ Cardinality(Flying(s)) \in Nat
    BY RunSets DEF Sends, Flying
  <2>3. /\ calls[s] + Cardinality(Sends(s)) <= MaxCalls
        /\ delivered[s] + Cardinality(Flying(s)) <= calls[s]
    BY <1>1 DEF Bounds
  <2> QED BY <2>1, <2>2, <2>3, Numbers
<1>2. Inv => TypeOK
  <2> SUFFICES ASSUME Inv PROVE TypeOK
    OBVIOUS
  <2>1. BaseOK /\ Bounds
    BY DEF Inv, BaseInv
  <2>2. calls \in [Slot -> 0..MaxCalls] /\ delivered \in [Slot -> 0..MaxCalls]
    BY <1>1, <2>1 DEF BaseOK
  <2> QED BY <2>1, <2>2 DEF BaseOK, TypeOK
<1> QED BY <1>2, InvHolds, PTL

\* A row that reconciliation or a confirmation closed as sent stands for a
\* reminder the buyer received.
THEOREM SentCorrect == Spec => []SentMeansDelivered
<1>1. Inv => SentMeansDelivered
  BY DEF Inv, SentInv
<1> QED BY <1>1, InvHolds, PTL

\* A second reminder of the same slot reaches the buyer only if a message
\* took longer than the cutoff, or a reconciliation released a reservation
\* newer than the one it had read.
THEOREM DuplicatesCorrect == Spec => []DuplicatesExplained
<1>1. Inv => DuplicatesExplained
  <2> SUFFICES ASSUME Inv, NEW s \in Slot, s \notin late \cup stale PROVE ~(delivered[s] > 1)
    BY DEF DuplicatesExplained
  <2>1. delivered[s] \in {0, 1}
    BY DEF Inv, DupInv, Single
  <2> QED BY <2>1
<1> QED BY <1>1, InvHolds, PTL
=============================================================================
