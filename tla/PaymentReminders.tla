--------------------------- MODULE PaymentReminders ---------------------------
(***************************************************************************)
(* sendPaymentReminders: every run first reconciles the reservations it    *)
(* finds unresolved for five minutes against the marketplace's messages,   *)
(* then walks its candidates: reserve the slot, send, confirm.             *)
(*                                                                         *)
(* A slot is one row of payment_reminders, one order and reminder day.     *)
(* Runs overlap, stall and die; a message may arrive late, never, or       *)
(* without its answer.  Time is the age of a reservation, in ticks.        *)
(***************************************************************************)
EXTENDS Naturals, FiniteSets

CONSTANTS Slot,         \* (order_id, source_store_id, reminder_type)
          Run,          \* processes; one is reused once its last call is over
          NoSlot,
          Cutoff,       \* the five minutes of reconcileAmbiguousReminders
          MaxCalls,     \* bound: sends of a slot
          MaxFaults     \* bound: crashes, failed calls, lost answers

ASSUME SlotAssumption == NoSlot \notin Slot
ASSUME RunsAssumption == IsFiniteSet(Run)      \* processes alive at once
ASSUME ReminderBounds == Cutoff \in Nat \ {0} /\ MaxCalls \in Nat /\ MaxFaults \in Nat

VARIABLES
  row,        \* row[s].state: delivery_state; row[s].age: since reserved_at
  shown,      \* slots whose message was created since reserved_at
  calls,      \* calls[s]: reminders sent to the marketplace
  delivered,  \* delivered[s]: reminders the buyer received
  call,       \* call[r]: slot of r's send the marketplace has yet to process
  accepted,   \* runs whose awaited send it processed and answered
  since,      \* since[r]: time since the reservation that r sends on
  pc,         \* where each run is
  amb,        \* amb[r][s]: state of the unresolved row that r read, or ""
  hit,        \* hit[r]: slots whose message r finds, or would find
  bad,        \* bad[r]: a reconciliation of r failed
  todo,       \* candidates of r
  cur,        \* slot r is handling
  late,       \* slots a message of which took longer than Cutoff to arrive
  old,        \* old[r]: slots reserved anew since r read them
  stale,      \* slots a reservation of which was released by an older read
  faults

market == <<calls, delivered, call, accepted, since>>
rvars == <<pc, amb, hit, bad, todo, cur>>
ghosts == <<late, old, stale>>
vars == <<row, shown, market, rvars, ghosts, faults>>

Ambiguous == {"RESERVED", "UNKNOWN_RESULT"}
Delivery == Ambiguous \cup {"NONE", "SENT", "RECONCILED_SENT", "RELEASED"}
PC == {"idle", "reconcile", "update", "next", "reserve", "send", "wait",
       "confirm", "mark"}

TypeOK ==
  /\ row \in [Slot -> [state : Delivery, age : 0..Cutoff]]
  /\ shown \subseteq Slot
  /\ calls \in [Slot -> 0..MaxCalls] /\ delivered \in [Slot -> 0..MaxCalls]
  /\ call \in [Run -> Slot \cup {NoSlot}] /\ accepted \subseteq Run
  /\ since \in [Run -> 0..Cutoff]
  /\ pc \in [Run -> PC]
  /\ amb \in [Run -> [Slot -> Ambiguous \cup {""}]]
  /\ hit \in [Run -> SUBSET Slot] /\ old \in [Run -> SUBSET Slot]
  /\ bad \in [Run -> BOOLEAN]
  /\ todo \in [Run -> SUBSET Slot]
  /\ cur \in [Run -> Slot \cup {NoSlot}]
  /\ late \subseteq Slot /\ stale \subseteq Slot
  /\ faults \in 0..MaxFaults

Nothing == [s \in Slot |-> ""]

Init ==
  /\ row = [s \in Slot |-> [state |-> "NONE", age |-> 0]]
  /\ shown = {}
  /\ calls = [s \in Slot |-> 0] /\ delivered = [s \in Slot |-> 0]
  /\ call = [r \in Run |-> NoSlot] /\ accepted = {}
  /\ since = [r \in Run |-> 0]
  /\ pc = [r \in Run |-> "idle"]
  /\ amb = [r \in Run |-> Nothing]
  /\ hit = [r \in Run |-> {}] /\ old = [r \in Run |-> {}]
  /\ bad = [r \in Run |-> FALSE]
  /\ todo = [r \in Run |-> {}]
  /\ cur = [r \in Run |-> NoSlot]
  /\ late = {} /\ stale = {}
  /\ faults = 0

Fault == faults < MaxFaults /\ faults' = faults + 1
At(r, l) == pc[r] = l
Goto(r, l) == pc' = [pc EXCEPT ![r] = l]
InFlight(r) == call[r] # NoSlot
Reading(r, s) == amb[r][s] # "" /\ ~(At(r, "update") /\ cur[r] = s)

-----------------------------------------------------------------------------
(* reconcileAmbiguousReminders *)

\* The query: rows unresolved for at least Cutoff.
UnresolvedAtAnyAge(s) == row[s].state \in Ambiguous                     \* mutant
UnresolvedReserved(s) == row[s].state = "RESERVED" /\ row[s].age = Cutoff  \* mutant
Unresolved(s) == row[s].state \in Ambiguous /\ row[s].age = Cutoff

Start(r) ==
  /\ At(r, "idle") /\ ~InFlight(r)
  /\ amb' = [amb EXCEPT ![r] =
               [s \in Slot |-> IF Unresolved(s) THEN row[s].state ELSE ""]]
  /\ hit' = [hit EXCEPT ![r] = {s \in shown : Unresolved(s)}]
  /\ Goto(r, "reconcile")
  /\ UNCHANGED <<row, shown, market, bad, todo, cur, ghosts, faults>>

\* fetchTransactionState: the order's messages, up to now.
Fetch(r, s) ==
  /\ At(r, "reconcile") /\ amb[r][s] # ""
  /\ cur' = [cur EXCEPT ![r] = s]
  /\ Goto(r, "update")
  /\ UNCHANGED <<row, shown, market, amb, hit, bad, todo, ghosts, faults>>

Forget(r, s) == /\ amb' = [amb EXCEPT ![r][s] = ""]
                /\ hit' = [hit EXCEPT ![r] = @ \ {s}]
                /\ old' = [old EXCEPT ![r] = @ \ {s}]

FetchFails(r, s) ==
  /\ At(r, "reconcile") /\ amb[r][s] # ""
  /\ Fault
  /\ Forget(r, s)
  /\ bad' = [bad EXCEPT ![r] = TRUE]
  /\ UNCHANGED <<row, shown, market, pc, todo, cur, late, stale>>

\* The update is conditional on delivery_state alone.
VerdictIgnoringEvidence(r, s) == "RECONCILED_SENT"                      \* mutant
Verdict(r, s) == IF s \in hit[r] THEN "RECONCILED_SENT" ELSE "RELEASED"
Unmoved(r, s) == row[s].state = amb[r][s]

Update(r) ==
  /\ At(r, "update")
  /\ LET s == cur[r]
         hits == Unmoved(r, s)
     IN  /\ \/ /\ row' = IF hits THEN [row EXCEPT ![s].state = Verdict(r, s)] ELSE row
               /\ stale' = IF hits /\ s \in old[r] /\ Verdict(r, s) = "RELEASED"
                           THEN stale \cup {s} ELSE stale
               /\ \/ UNCHANGED <<bad, faults>>
                  \/ bad' = [bad EXCEPT ![r] = TRUE] /\ Fault
            \/ /\ bad' = [bad EXCEPT ![r] = TRUE] /\ Fault
               /\ UNCHANGED <<row, stale>>
         /\ Forget(r, s)
  /\ cur' = [cur EXCEPT ![r] = NoSlot]
  /\ Goto(r, "reconcile")
  /\ UNCHANGED <<shown, market, todo, late>>

\* Within the bound on sends.
Due(s) == calls[s] + Cardinality({q \in Run : At(q, "send") /\ cur[q] = s}) < MaxCalls

\* A failed reconciliation ends the run before any reminder is sent; otherwise
\* the candidates are read: orders in the window of a reminder day.
Candidates(r) ==
  /\ At(r, "reconcile") /\ amb[r] = Nothing
  /\ \/ /\ bad[r]
        /\ Goto(r, "idle")
        /\ UNCHANGED todo
     \/ /\ ~bad[r]
        /\ \E due \in SUBSET {s \in Slot : Due(s)} :
             todo' = [todo EXCEPT ![r] = due]
        /\ Goto(r, "next")
  /\ bad' = [bad EXCEPT ![r] = FALSE]
  /\ UNCHANGED <<row, shown, market, amb, hit, cur, ghosts, faults>>

-----------------------------------------------------------------------------
(* The candidates *)

Finish(r) ==
  /\ At(r, "next") /\ todo[r] = {}
  /\ Goto(r, "idle")
  /\ UNCHANGED <<row, shown, market, amb, hit, bad, todo, cur, ghosts, faults>>

\* Stock, the live order status and the last message decide whether the
\* candidate is skipped.
Pick(r, s) ==
  /\ At(r, "next") /\ s \in todo[r]
  /\ todo' = [todo EXCEPT ![r] = @ \ {s}]
  /\ \/ Goto(r, "reserve") /\ cur' = [cur EXCEPT ![r] = s]
     \/ UNCHANGED <<pc, cur>>
  /\ UNCHANGED <<row, shown, market, amb, hit, bad, ghosts, faults>>

Leave(r) == Goto(r, "next") /\ cur' = [cur EXCEPT ![r] = NoSlot]

\* reserve_payment_reminder: INSERT ... ON CONFLICT DO UPDATE ... WHERE
\* delivery_state = 'RELEASED'.  The row keeps its id.
Reservable(s) == row[s].state \in {"NONE", "RELEASED"} /\ Due(s)

Reserve(r) ==
  /\ At(r, "reserve") /\ ~InFlight(r)
  /\ LET s == cur[r]
     IN  IF Reservable(s)
         THEN /\ row' = [row EXCEPT ![s] = [state |-> "RESERVED", age |-> 0]]
              /\ shown' = shown \ {s}
              /\ old' = [q \in Run |-> IF amb[q][s] # "" THEN old[q] \cup {s} ELSE old[q]]
              /\ \/ /\ Goto(r, "send")
                    /\ since' = [since EXCEPT ![r] = 0]
                    /\ UNCHANGED <<cur, faults>>
                 \/ Leave(r) /\ Fault /\ UNCHANGED since
         ELSE Leave(r) /\ UNCHANGED <<row, shown, old, since, faults>>
  /\ UNCHANGED <<calls, delivered, call, accepted, amb, hit, bad, todo, late, stale>>

ReserveFails(r) ==
  /\ At(r, "reserve")
  /\ Fault
  /\ Leave(r)
  /\ UNCHANGED <<row, shown, market, amb, hit, bad, todo, ghosts>>

Send(r) ==
  /\ At(r, "send")
  /\ calls' = [calls EXCEPT ![cur[r]] = @ + 1]
  /\ call' = [call EXCEPT ![r] = cur[r]]
  /\ Goto(r, "wait")
  /\ UNCHANGED <<row, shown, delivered, accepted, since, amb, hit, bad, todo, cur,
                 ghosts, faults>>

\* sendReminder returns, or fails because the marketplace refused or the
\* answer is lost.
Return(r) ==
  /\ At(r, "wait")
  /\ \/ r \in accepted /\ Goto(r, "confirm") /\ UNCHANGED faults
     \/ r \notin accepted /\ ~InFlight(r) /\ Goto(r, "mark") /\ UNCHANGED faults
     \/ (r \in accepted \/ InFlight(r)) /\ Goto(r, "mark") /\ Fault
  /\ accepted' = accepted \ {r}
  /\ UNCHANGED <<row, shown, calls, delivered, call, since, amb, hit, bad, todo,
                 cur, ghosts>>

\* confirmReminderSlot and markReminderUnknown find the row by its id; a lost
\* or failed update is only counted.
Confirm(r) ==
  /\ At(r, "confirm")
  /\ \/ /\ row' = IF row[cur[r]].state \in Ambiguous
                  THEN [row EXCEPT ![cur[r]].state = "SENT"] ELSE row
        /\ UNCHANGED faults
     \/ UNCHANGED row /\ Fault
  /\ Leave(r)
  /\ UNCHANGED <<shown, market, amb, hit, bad, todo, ghosts>>

MarkingFailed(r) == "FAILED"                                            \* mutant
Marking(r) == "UNKNOWN_RESULT"

Mark(r) ==
  /\ At(r, "mark")
  /\ \/ /\ row' = IF row[cur[r]].state = "RESERVED"
                  THEN [row EXCEPT ![cur[r]].state = Marking(r)] ELSE row
        /\ UNCHANGED faults
     \/ UNCHANGED row /\ Fault
  /\ Leave(r)
  /\ UNCHANGED <<shown, market, amb, hit, bad, todo, ghosts>>

Crash(r) ==
  /\ ~At(r, "idle")
  /\ Fault
  /\ pc' = [pc EXCEPT ![r] = "idle"]
  /\ amb' = [amb EXCEPT ![r] = Nothing]
  /\ hit' = [hit EXCEPT ![r] = {}]
  /\ old' = [old EXCEPT ![r] = {}]
  /\ bad' = [bad EXCEPT ![r] = FALSE]
  /\ todo' = [todo EXCEPT ![r] = {}]
  /\ accepted' = accepted \ {r}
  /\ cur' = [cur EXCEPT ![r] = NoSlot]
  /\ UNCHANGED <<row, shown, calls, delivered, call, since, late, stale>>

-----------------------------------------------------------------------------
(* The marketplace and time *)

\* The message appears; whoever reads the order's messages from now on finds it.
Deliver(r) ==
  /\ InFlight(r)
  /\ LET s == call[r]
     IN  /\ delivered' = [delivered EXCEPT ![s] = @ + 1]
         /\ shown' = shown \cup {s}
         /\ hit' = [q \in Run |-> IF Reading(q, s) THEN hit[q] \cup {s} ELSE hit[q]]
  /\ call' = [call EXCEPT ![r] = NoSlot]
  /\ accepted' = IF At(r, "wait") THEN accepted \cup {r} ELSE accepted
  /\ late' = IF since[r] = Cutoff THEN late \cup {call[r]} ELSE late
  /\ UNCHANGED <<row, calls, since, pc, amb, bad, todo, cur, old, stale, faults>>

\* The call is refused, or never arrives.
Drop(r) ==
  /\ InFlight(r)
  /\ call' = [call EXCEPT ![r] = NoSlot]
  /\ UNCHANGED <<row, shown, calls, delivered, accepted, since, rvars, ghosts, faults>>

Sending(r) == InFlight(r) \/ At(r, "send")
OlderUncapped(n) == n + 1                                               \* mutant
Older(n) == IF n = Cutoff THEN n ELSE n + 1

Tick ==
  /\ \/ \E s \in Slot : row[s].state \in Ambiguous /\ row[s].age < Cutoff
     \/ \E r \in Run : Sending(r) /\ since[r] < Cutoff
  /\ row' = [s \in Slot |-> IF row[s].state \in Ambiguous
                            THEN [row[s] EXCEPT !.age = Older(@)] ELSE row[s]]
  /\ since' = [r \in Run |-> IF Sending(r) THEN Older(since[r]) ELSE since[r]]
  /\ UNCHANGED <<shown, calls, delivered, call, accepted, rvars, ghosts, faults>>

-----------------------------------------------------------------------------
Step(r) ==
  \/ Start(r) \/ (\E s \in Slot : Fetch(r, s)) \/ Update(r) \/ Candidates(r)
  \/ Finish(r) \/ (\E s \in Slot : Pick(r, s)) \/ Reserve(r) \/ Send(r)
  \/ Return(r) \/ Confirm(r) \/ Mark(r)

Failure(r) == \/ \E s \in Slot : FetchFails(r, s)
              \/ ReserveFails(r) \/ Crash(r)

Next == (\E r \in Run : Step(r) \/ Failure(r) \/ Deliver(r) \/ Drop(r)) \/ Tick

\* Cron starts the phase again and again, a started run is scheduled, calls
\* end one way or the other, and time passes.
Fairness == /\ WF_vars(Tick)
            /\ \A r \in Run : WF_vars(Step(r)) /\ WF_vars(Deliver(r) \/ Drop(r))

Spec == Init /\ [][Next]_vars /\ Fairness

-----------------------------------------------------------------------------
(* Properties *)

\* A buyer receives the same reminder twice only if a message arrived later
\* than Cutoff after its reservation, or a release read before a newer
\* reservation was applied to that one; no crash, lost answer, failed update
\* or overlap of runs does it otherwise (reserve, send, confirm and
\* reconcileAmbiguousReminders together).
DuplicatesExplained == \A s \in Slot : delivered[s] > 1 => s \in late \cup stale

\* A row is closed as sent only for a reminder the buyer really received,
\* whichever run closes it and for whichever reservation.
SentMeansDelivered ==
  \A s \in Slot : row[s].state \in {"SENT", "RECONCILED_SENT"} => delivered[s] > 0

\* No reservation stays unresolved: once faults are over, a reconciliation
\* settles whatever a dead run or a lost answer left behind.
AmbiguityResolved ==
  \A s \in Slot : (row[s].state \in Ambiguous) ~> (row[s].state \notin Ambiguous)

\* docs/SYNC_JOB_INVENTORY.md: unresolved rows are not automatically released
\* for resend, and the next cycle does not resend by age.
NotResentByAge == \A s \in Slot : calls[s] <= 1
=============================================================================
