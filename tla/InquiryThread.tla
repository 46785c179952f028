---------------------------- MODULE InquiryThread ----------------------------
(***************************************************************************)
(* One presales inquiry of a Mercari shop: the thread on the platform, its *)
(* copy in inquiry_messages, the inbox of webhook events, the follow-up    *)
(* cycle of the inquiry row and the ledger of operator sends.              *)
(*                                                                         *)
(* Three kinds of invocation share the slots: processNextEvent, a readback *)
(* without an event (the detail page and the audits), and the operator's   *)
(* send handler.  None of them is serialised against the others.           *)
(***************************************************************************)
EXTENDS Naturals, Sequences, FiniteSetsExt

CONSTANTS Slot,         \* concurrent invocations
          MaxMessages,  \* bound on the length of a thread
          MaxEvents,    \* bound on the inbox
          MaxBreaks,    \* bound on failed calls, crashes, admin deletions and
                        \* manual schedules together
          Starts        \* initial situations, each with bounds of its own

ASSUME ThreadBoundsAssumption ==
  /\ MaxMessages \in Nat \ {0} /\ MaxEvents \in Nat /\ MaxBreaks \in Nat
  \* buyer messages at first and at most, messages and events at most, and
  \* whether an operator has scheduled a follow-up (cycle 1) or not (0)
  /\ Starts \subseteq [buyer : 1..MaxMessages, buyers : 1..MaxMessages,
                      messages : 1..MaxMessages, events : 0..MaxEvents, cycle : {0, 1}]

Message == 1..MaxMessages
Cycle == 0..MaxMessages
\* outboundIdempotencyKey: the reviewed message of a reply, or the cycle.
Key == ({"reply"} \X Message) \cup ({"cycle"} \X Cycle)
NoKey == <<"none", 0>>
Topic == {"CREATED", "ADMIN_DELETED", "RESOLVED"}
OpStatus == {"none", "pending", "sent", "confirmed", "ambiguous", "failed"}

VARIABLES
  start,      \* the element of Starts the behaviour began with
  thread,     \* the messages Mercari ever took, in order: the key that sent it
  gone,       \* those the platform deleted; a readback does not show them
  stored,     \* inquiry_messages
  inbox,      \* inquiry_webhook_events in the order of their ids
  follow,     \* follow_up_state and follow_up_cycle_id of the inquiry
  lastSent,   \* last_confirmed_outbound_message_id, 0 for none
  ops,        \* inquiry_outbound_operations: status by idempotency key
  act,        \* the invocation in each slot
  remarks,    \* stale marks "failed" written twice by one handler, per key
  breaks

platform == <<start, thread, gone>>
ledgerVars == <<ops, remarks>>
tvars == <<platform, stored, inbox, follow, lastSent, ledgerVars, act, breaks>>

FreeSlot == [pc |-> "free", key |-> NoKey, seen |-> 0, snap |-> {}, event |-> 0]
ThreadPC == {"free", "read", "reconcile", "transition", "tombstone", "complete", "fail",
             "messages", "claim", "fresh", "stale", "mark", "remark", "mutate",
             "sent", "readback", "finalize", "unsure"}

TTypeOK ==
  /\ start \in Starts
  /\ thread \in Seq(Key \cup {NoKey}) /\ Len(thread) <= MaxMessages
  /\ gone \subseteq Message
  /\ stored \in [Message -> {"none", "active", "deleted"}]
  /\ inbox \in Seq([topic : Topic, msg : 0..MaxMessages, held : BOOLEAN,
                    status : {"pending", "processing", "completed", "failed"}])
  /\ follow \in [state : {"none", "scheduled", "superseded", "followed_up", "cleared"},
                 cycle : Cycle]
  /\ lastSent \in 0..MaxMessages
  /\ ops \in [Key -> OpStatus]
  /\ act \in [Slot -> [pc : ThreadPC, key : Key \cup {NoKey, <<"reply", 0>>},
                       seen : 0..MaxMessages, snap : SUBSET Message, event : 0..MaxEvents]]
  /\ \A r \in Slot : act[r].key = <<"reply", 0>> => act[r].pc = "messages"
  /\ remarks \in [Key -> Nat]
  /\ breaks \in 0..MaxBreaks

\* A buyer opened the thread and its first message has been ingested.
TInit ==
  /\ start \in Starts
  /\ thread = [i \in 1..start.buyer |-> NoKey] /\ gone = {}
  /\ stored = [m \in Message |-> IF m = 1 THEN "active" ELSE "none"]
  /\ inbox = <<>>
  /\ follow = [state |-> IF start.cycle = 0 THEN "none" ELSE "scheduled", cycle |-> start.cycle]
  /\ lastSent = 0
  /\ ops = [k \in Key |-> "none"] /\ remarks = [k \in Key |-> 0]
  /\ act = [r \in Slot |-> FreeSlot]
  /\ breaks = 0

FromBuyer(m) == thread[m] = NoKey
Shown == DOMAIN thread \ gone
Latest(messages) == IF messages = {} THEN 0 ELSE Max(messages)
StoredActive == {m \in Message : stored[m] = "active"}
ThreadAt(r, l) == act[r].pc = l
To(r, l) == act' = [act EXCEPT ![r].pc = l]
Done(r) == act' = [act EXCEPT ![r] = FreeSlot]
Break == breaks < MaxBreaks /\ breaks' = breaks + 1

-----------------------------------------------------------------------------
(* Mercari *)

Room == Len(thread) < start.messages

BuyerWrites ==
  /\ Room /\ Cardinality({m \in DOMAIN thread : FromBuyer(m)}) < start.buyers
  /\ thread' = Append(thread, NoKey)
  /\ UNCHANGED <<start, gone, stored, inbox, follow, lastSent, ledgerVars, act, breaks>>

AdminDeletes(m) ==
  /\ m \in Shown
  /\ Break
  /\ gone' = gone \cup {m}
  /\ UNCHANGED <<start, thread, stored, inbox, follow, lastSent, ledgerVars, act>>

\* ingestWebhook: a notification is stored once; a repeated one is ignored.
Notify(topic, m) ==
  /\ CASE topic = "CREATED" -> m \in DOMAIN thread \ {1} /\ FromBuyer(m)
       [] topic = "ADMIN_DELETED" -> m \in gone
       [] topic = "RESOLVED" -> m = 0
  /\ Len(inbox) < start.events
  /\ \A e \in DOMAIN inbox : inbox[e].topic # topic \/ inbox[e].msg # m
  /\ inbox' = Append(inbox, [topic |-> topic, msg |-> m, held |-> FALSE, status |-> "pending"])
  /\ UNCHANGED <<platform, stored, follow, lastSent, ledgerVars, act, breaks>>

-----------------------------------------------------------------------------
(* Ingestion: processNextEvent, and the same readback without an event *)

\* inquiry_claim_webhook_event: the first row that is pending or failed; a
\* failed one may not be due yet.
ClaimEvent(r) ==
  /\ ThreadAt(r, "free")
  /\ \E e \in DOMAIN inbox :
       /\ inbox[e].status \in {"pending", "failed"}
       /\ \A d \in 1..(e - 1) : inbox[d].status # "pending"
       /\ inbox' = [inbox EXCEPT ![e].status = "processing"]
       /\ act' = [act EXCEPT ![r] = [FreeSlot EXCEPT !.pc = "read", !.event = e]]
  /\ UNCHANGED <<platform, stored, follow, lastSent, ledgerVars, breaks>>

\* readFullThread, its pages taken as one: of a claimed event, or without one
\* in refreshMercariInquiry and in runDailyAudit.
ReadThread(r) ==
  /\ act[r].pc \in {"free", "read"}
  /\ act' = [act EXCEPT ![r].pc = "reconcile", ![r].snap = Shown]
  /\ UNCHANGED <<platform, stored, inbox, follow, lastSent, ledgerVars, breaks>>

\* The readback shows no thread: the event is quarantined and completed.
Quarantine(r) ==
  /\ ThreadAt(r, "read") /\ act[r].event # 0
  /\ Break
  /\ inbox' = [inbox EXCEPT ![act[r].event].held = TRUE]
  /\ To(r, "complete")
  /\ UNCHANGED <<platform, stored, follow, lastSent, ledgerVars>>

\* inquiry_reconcile_api_thread: rows it was given become what was read,
\* rows it was not given stay.
Reconcile(r) ==
  /\ ThreadAt(r, "reconcile")
  /\ stored' = [m \in Message |-> IF m \in act[r].snap THEN "active" ELSE stored[m]]
  /\ IF act[r].event = 0 THEN Done(r) ELSE To(r, "transition")
  /\ UNCHANGED <<platform, inbox, follow, lastSent, ledgerVars, breaks>>

\* inquiry_apply_platform_transition; follow_up_state <> 'scheduled' is not
\* true of a state that was never set, so that one moves as well.
Transition(r) ==
  LET event == inbox[act[r].event]
      latest == Latest(act[r].snap)
  IN /\ ThreadAt(r, "transition")
     /\ follow' =
          CASE follow.state \notin {"none", "scheduled"} -> follow
            [] follow.state \in {"none", "scheduled"} /\ event.topic = "RESOLVED" ->
                 [follow EXCEPT !.state = "cleared"]
            [] follow.state \in {"none", "scheduled"} /\ event.topic # "RESOLVED" ->
                 IF latest # 0 /\ FromBuyer(latest)
                 THEN [follow EXCEPT !.state = "superseded"] ELSE follow
     /\ act' = [act EXCEPT ![r].snap = {},
                 ![r].pc = IF event.topic = "ADMIN_DELETED" THEN "tombstone" ELSE "complete"]
     /\ UNCHANGED <<platform, stored, inbox, lastSent, ledgerVars, breaks>>

Tombstone(r) ==
  /\ ThreadAt(r, "tombstone")
  /\ stored' = [stored EXCEPT ![inbox[act[r].event].msg] =
                  IF @ = "active" THEN "deleted" ELSE @]
  /\ To(r, "complete")
  /\ UNCHANGED <<platform, inbox, follow, lastSent, ledgerVars, breaks>>

Complete(r) ==
  /\ ThreadAt(r, "complete")
  /\ inbox' = [inbox EXCEPT ![act[r].event].status = "completed"]
  /\ Done(r)
  /\ UNCHANGED <<platform, stored, follow, lastSent, ledgerVars, breaks>>

AfterFailureCompletes(r) ==                                             \* mutant
  IF act[r].event = 0 THEN Done(r) ELSE To(r, "complete")
AfterFailure(r) ==
  IF act[r].event = 0 THEN Done(r) ELSE act' = [act EXCEPT ![r].pc = "fail", ![r].snap = {}]

\* A call failed; without an event that leaves nothing.  Of the calls whose
\* answer alone was lost only the completion matters: the others are repeated
\* with the same effect.
IngestFails(r) ==
  /\ act[r].pc \in {"read", "reconcile", "transition", "tombstone", "complete"}
  /\ Break
  /\ \/ UNCHANGED inbox
     \/ ThreadAt(r, "complete") /\ inbox' = [inbox EXCEPT ![act[r].event].status = "completed"]
  /\ AfterFailure(r)
  /\ UNCHANGED <<platform, stored, follow, lastSent, ledgerVars>>

MarkEventFailed(r) ==
  /\ ThreadAt(r, "fail")
  /\ inbox' = [inbox EXCEPT ![act[r].event].status = "failed"]
  /\ Done(r)
  /\ UNCHANGED <<platform, stored, follow, lastSent, ledgerVars, breaks>>

-----------------------------------------------------------------------------
(* The operator: schedule, and send *)

\* inquiry_schedule_follow_up; do_not_follow_up and cleared are one state.
Schedule(state) ==
  /\ follow' = [state |-> state, cycle |-> Max({follow.cycle, 1})]
  /\ follow' # follow
  /\ Break
  /\ UNCHANGED <<platform, stored, inbox, lastSent, ledgerVars, act>>

\* getOutboundContext: a follow-up names the cycle the row has and needs it
\* to be scheduled; a reply names none.
SendContext(r) ==
  /\ ThreadAt(r, "free")
  /\ \E k \in {<<"reply", 0>>, <<"cycle", follow.cycle>>} :
       /\ k[1] = "cycle" => follow.state = "scheduled"
       /\ act' = [act EXCEPT ![r] = [FreeSlot EXCEPT !.pc = "messages", !.key = k]]
  /\ UNCHANGED <<platform, stored, inbox, follow, lastSent, ledgerVars, breaks>>

Evidence(latest) == latest # 0

\* getMessages, and the idempotency key.
SendMessages(r) ==
  LET latest == Latest(StoredActive)
  IN /\ ThreadAt(r, "messages")
     /\ IF ~Evidence(latest) THEN Done(r)
        ELSE act' = [act EXCEPT ![r].pc = "claim", ![r].seen = latest,
                                ![r].key = IF @[1] = "reply" THEN <<"reply", latest>> ELSE @]
     /\ UNCHANGED <<platform, stored, inbox, follow, lastSent, ledgerVars, breaks>>

\* inquiry_claim_outbound_cycle.  A failed operation is claimed again, a new
\* one is not while another reply holds a lease.  A cycle has one key.
ClaimableAgain(k) == ops[k] \in {"failed", "ambiguous"}                 \* mutant
Reclaimable(k) == ops[k] = "failed"
MayClaim(k) == ops[k] = "none" \/ Reclaimable(k)
OtherOpen(k) == \E l \in Key \ {k} : /\ k[1] = "reply" /\ l[1] = "reply"
                                     /\ ops[l] \in {"pending", "sent"}

\* markOutboundResult writes by operation id, whatever the row says now.
Write(k, status) == ops' = [ops EXCEPT ![k] = status]

\* Any lease may have run out, so another open reply may or may not refuse.
\* A lost answer leaves what a crash after the claim leaves.
SendClaim(r) ==
  LET k == act[r].key
  IN /\ ThreadAt(r, "claim")
     /\ \/ MayClaim(k) /\ Write(k, "pending") /\ To(r, "fresh")
        \/ ~Reclaimable(k) /\ (~MayClaim(k) \/ OtherOpen(k)) /\ Done(r) /\ UNCHANGED ops
     /\ UNCHANGED <<platform, stored, inbox, follow, lastSent, remarks, breaks>>

\* The thread is read again after the claim.
FreshRead(r) ==
  /\ ThreadAt(r, "fresh")
  /\ To(r, IF Latest(Shown) = act[r].seen THEN "mutate" ELSE "stale")
  /\ UNCHANGED <<platform, stored, inbox, follow, lastSent, ledgerVars, breaks>>

FreshReadFails(r) ==
  /\ ThreadAt(r, "fresh")
  /\ Break
  /\ To(r, "mark")
  /\ UNCHANGED <<platform, stored, inbox, follow, lastSent, ledgerVars>>

MarkFailed(r) ==
  /\ act[r].pc \in {"stale", "mark", "remark"}
  /\ Write(act[r].key, "failed")
  /\ remarks' = IF ThreadAt(r, "remark") THEN [remarks EXCEPT ![act[r].key] = @ + 1]
                ELSE remarks
  /\ Done(r)
  /\ UNCHANGED <<platform, stored, inbox, follow, lastSent, breaks>>

\* The first mark throws inside the try block, so the catch block marks again.
StaleMarkLost(r) ==
  /\ ThreadAt(r, "stale")
  /\ Break
  /\ \/ Write(act[r].key, "failed") /\ To(r, "remark")
     \/ UNCHANGED ops /\ To(r, "mark")
  /\ UNCHANGED <<platform, stored, inbox, follow, lastSent, remarks>>

\* addInquiryMessage
Accept(r) == thread' = Append(thread, act[r].key)

Mutate(r) ==
  /\ ThreadAt(r, "mutate") /\ Room
  /\ Accept(r)
  /\ act' = [act EXCEPT ![r].pc = "sent", ![r].seen = Len(thread) + 1]
  /\ UNCHANGED <<start, gone, stored, inbox, follow, lastSent, ledgerVars, breaks>>

Unanswered(r) == To(r, "unsure")

\* Mercari refused, or the answer was lost.
MutateFails(r) ==
  /\ ThreadAt(r, "mutate")
  /\ Break
  /\ \/ UNCHANGED thread
     \/ Room /\ Accept(r)
  /\ Unanswered(r)
  /\ UNCHANGED <<start, gone, stored, inbox, follow, lastSent, ledgerVars>>

MarkSent(r) ==
  /\ ThreadAt(r, "sent")
  /\ Write(act[r].key, "sent")
  /\ To(r, "readback")
  /\ UNCHANGED <<platform, stored, inbox, follow, lastSent, remarks, breaks>>

\* The message must be there, from the seller and not deleted.
ReadBack(r) ==
  /\ ThreadAt(r, "readback")
  /\ To(r, IF act[r].seen \in Shown THEN "finalize" ELSE "unsure")
  /\ UNCHANGED <<platform, stored, inbox, follow, lastSent, ledgerVars, breaks>>

\* inquiry_finalize_outbound: a follow-up closes the cycle, whichever the
\* inquiry has by now; a reply opens the next.
Finalized(k, m) ==
  /\ Write(k, "confirmed")
  /\ stored' = [stored EXCEPT ![m] = "active"]
  /\ follow' = IF k[1] = "cycle" THEN [follow EXCEPT !.state = "followed_up"]
               ELSE [state |-> "scheduled", cycle |-> follow.cycle + 1]
  /\ lastSent' = m

Finalize(r) ==
  LET k == act[r].key
  IN /\ ThreadAt(r, "finalize")
     /\ \/ /\ ops[k] \in {"pending", "sent"} /\ follow.cycle < MaxMessages
           /\ Finalized(k, act[r].seen) /\ Done(r)
        \/ /\ ops[k] = "confirmed"
           /\ Done(r) /\ UNCHANGED <<ops, stored, follow, lastSent>>
        \/ /\ ops[k] \in {"failed", "ambiguous"}
           /\ To(r, "unsure") /\ UNCHANGED <<ops, stored, follow, lastSent>>
     /\ UNCHANGED <<platform, inbox, remarks, breaks>>

\* One of the last calls failed, before or after its effect.
SendFails(r) ==
  /\ act[r].pc \in {"sent", "readback", "finalize"}
  /\ Break
  /\ \/ UNCHANGED <<ops, stored, follow, lastSent>>
     \/ /\ ThreadAt(r, "sent") /\ Write(act[r].key, "sent")
        /\ UNCHANGED <<stored, follow, lastSent>>
     \/ /\ ThreadAt(r, "finalize") /\ ops[act[r].key] \in {"pending", "sent"}
        /\ follow.cycle < MaxMessages
        /\ Finalized(act[r].key, act[r].seen)
  /\ To(r, "unsure")
  /\ UNCHANGED <<platform, inbox, remarks>>

MarkAmbiguous(r) ==
  /\ ThreadAt(r, "unsure")
  /\ Write(act[r].key, "ambiguous")
  /\ Done(r)
  /\ UNCHANGED <<platform, stored, inbox, follow, lastSent, remarks, breaks>>

\* An invocation dies, or the call in its last catch block fails: an event
\* stays "processing" and an operation stays as it is.
ThreadCrash(r) ==
  /\ ~ThreadAt(r, "free")
  /\ Break
  /\ Done(r)
  /\ UNCHANGED <<platform, stored, inbox, follow, lastSent, ledgerVars>>

TNext ==
  \/ BuyerWrites
  \/ \E m \in Message : AdminDeletes(m)
  \/ \E topic \in Topic, m \in 0..MaxMessages : Notify(topic, m)
  \/ \E state \in {"scheduled", "cleared"} : Schedule(state)
  \/ \E r \in Slot :
       \/ ClaimEvent(r) \/ ReadThread(r) \/ Quarantine(r)
       \/ Reconcile(r) \/ Transition(r) \/ Tombstone(r) \/ Complete(r)
       \/ IngestFails(r) \/ MarkEventFailed(r)
       \/ SendContext(r) \/ SendMessages(r) \/ SendClaim(r)
       \/ FreshRead(r) \/ FreshReadFails(r) \/ MarkFailed(r) \/ StaleMarkLost(r)
       \/ Mutate(r) \/ MutateFails(r) \/ MarkSent(r) \/ ReadBack(r)
       \/ Finalize(r) \/ SendFails(r) \/ MarkAmbiguous(r) \/ ThreadCrash(r)

TSpec == TInit /\ [][TNext]_tvars

-----------------------------------------------------------------------------
(* Properties *)

Messages(k) == {m \in DOMAIN thread : thread[m] = k}

\* One operation sends one message.  A second one needs a handler that wrote
\* its stale mark twice because the answer to the first was lost: only that
\* mark can reopen an operation that has been claimed again since.
SendsBounded == \A k \in Key : Cardinality(Messages(k)) <= 1 + remarks[k]

\* What the ledger and the inquiry say was sent was sent: a confirmed
\* operation has its message, the confirmed message is an operator's and is in
\* the timeline, and a cycle is followed up only when a follow-up went out.
SentIsTrue ==
  /\ \A k \in Key : ops[k] = "confirmed" => Messages(k) # {}
  /\ lastSent # 0 => lastSent \in DOMAIN thread /\ ~FromBuyer(lastSent)
                     /\ stored[lastSent] # "none"
  /\ follow.state = "followed_up" => \E k \in Key : k[1] = "cycle" /\ Messages(k) # {}

\* Neither a second message nor a message that is not there: whatever answer of
\* a send is lost or late, and whichever operation finalizes last.
SendsHonest == SendsBounded /\ SentIsTrue

\* follow_up_review_queue_vw
InQueueByState == follow.state = "scheduled"                            \* mutant
InQueue == follow.state = "scheduled" /\ lastSent # 0 /\ Latest(StoredActive) = lastSent

\* Once the event of the buyer's newest message has been processed, the
\* inquiry is not offered for a follow-up, even when the finalize of an earlier
\* reply scheduled a cycle after that or a stale readback was stored.
AnsweredLeavesQueue ==
  LET newest == Len(thread)
  IN (/\ FromBuyer(newest) /\ newest \notin gone
      /\ \E e \in DOMAIN inbox : /\ inbox[e].topic = "CREATED" /\ inbox[e].msg = newest
                                 /\ inbox[e].status = "completed" /\ ~inbox[e].held)
     => ~InQueue

\* A completed event left its message in the timeline, or in quarantine, or
\* the platform deleted it first: no failure turns into a silent loss.
EventAccounted ==
  \A e \in DOMAIN inbox :
    inbox[e].status = "completed" /\ inbox[e].topic = "CREATED" =>
      \/ stored[inbox[e].msg] # "none"
      \/ inbox[e].held
      \/ inbox[e].msg \in gone
=============================================================================
