----------------------------- MODULE TicketReply -----------------------------
(***************************************************************************)
(* Operators' replies to one Mercari or Rakuten ticket: invocations of     *)
(* MessageSendService.sendReply or RakutenRmesseSendService.send, each for *)
(* one client operation, against the rows of ReplyLedger and the platform  *)
(* thread.                                                                 *)
(*                                                                         *)
(* An operation is tried again after any error, also while an earlier      *)
(* attempt is still at work; several operations may carry the same text    *)
(* (templates, two operators).  Calls answer late, get lost or land after  *)
(* their caller gave up, and an invocation can end at any point.           *)
(***************************************************************************)
EXTENDS ReplyLedger, FiniteSets, Sequences

CONSTANTS Run,          \* invocations of the send worker
          NoOp,         \* no operation
          Earlier,      \* marks a message older than every operation
          Text,         \* Text[k]: body of operation k
          Console,      \* bodies of replies written in the seller console
          Intent        \* Intent[k]: reply_intent of operation k

ASSUME RunAssumption == IsFiniteSet(Run)
ASSUME OpAssumption == /\ NoOp \notin Op /\ Earlier \notin Op /\ Earlier # NoOp
                       /\ Intent \in [Op -> {"terminal", "holding"}]
                       /\ MaxThread \in Nat \ {0}

VARIABLES
  platform,   \* tickets.platform
  thread,     \* the messages on the platform, oldest first
  flight,     \* operations whose call has not reached the platform yet
  calls,      \* calls[k]: reply calls made for operation k
  pc,         \* where each invocation is
  op,         \* the operation it works on
  seen,       \* messages the operator had seen, until the call; all of
              \* them without a lastSeenMessageAt
  claim,      \* the sent_messages row it was given to reconcile
  got,        \* length of the thread it read
  msg         \* the platform message it is about to record

pvars == <<platform, thread, flight, calls>>
rvars == <<pc, op, seen, claim, got, msg>>
vars == <<lvars, pvars, rvars>>

Texts == {Text[k] : k \in Op}
Buyer == [role |-> "buyer", text |-> NoOp, op |-> NoOp]
Elsewhere(t) == [role |-> "seller", text |-> t, op |-> NoOp]
Reply(k) == [role |-> "seller", text |-> Text[k], op |-> k]
Old(t) == [role |-> "seller", text |-> t, op |-> Earlier]
Entry == {Buyer} \cup {Elsewhere(t) : t \in Console} \cup {Old(t) : t \in Texts}
         \cup {Reply(k) : k \in Op}

PC == {"idle", "lookup", "read", "reconcile", "preflight", "release",
       "send", "wait", "readback", "record"}

TypeOK ==
  /\ LedgerTypeOK
  /\ platform \in {"mercari", "rakuten"}
  /\ thread \in Seq(Entry) /\ Len(thread) <= MaxThread
  /\ flight \subseteq Op
  /\ calls \in [Op -> Nat]
  /\ pc \in [Run -> PC]
  /\ op \in [Run -> Op \cup {NoOp}]
  /\ \A r \in Run : pc[r] # "idle" => op[r] # NoOp
  /\ seen \in [Run -> 0..MaxThread]
  /\ claim \in [Run -> Row]
  /\ got \in [Run -> 0..MaxThread]
  /\ msg \in [Run -> 0..MaxThread]

Init ==
  /\ LedgerInit
  /\ platform \in {"mercari", "rakuten"}
  /\ thread \in {<<>>} \cup {<<Old(t)>> : t \in Texts}
  /\ flight = {}
  /\ calls = [k \in Op |-> 0]
  /\ pc = [r \in Run |-> "idle"]
  /\ op = [r \in Run |-> NoOp]
  /\ seen = [r \in Run |-> 0]
  /\ claim = [r \in Run |-> NoRow]
  /\ got = [r \in Run |-> 0]
  /\ msg = [r \in Run |-> 0]

At(r, l) == pc[r] = l
Goto(r, l) == pc' = [pc EXCEPT ![r] = l]

\* The invocation ends, with or without an error; its variables are gone.
Leave(r) == /\ Goto(r, "idle")
            /\ op' = [op EXCEPT ![r] = NoOp]
            /\ seen' = [seen EXCEPT ![r] = 0]
            /\ claim' = [claim EXCEPT ![r] = NoRow]
            /\ got' = [got EXCEPT ![r] = 0]
            /\ msg' = [msg EXCEPT ![r] = 0]

Buyers == {m \in 1..Len(thread) : thread[m].role = "buyer"}
Newest(S) == {m \in S : \A n \in S : n <= m}

\* Seller messages with the text of operation k, among messages lo+1..hi.
Matches(k, lo, hi) ==
  {m \in 1..Len(thread) : /\ lo < m /\ m <= hi
                          /\ thread[m].role = "seller" /\ thread[m].text = Text[k]}

-----------------------------------------------------------------------------
(* An invocation *)

\* The insert wins, or finds a row and looks it up afterwards.  The operator
\* had seen the first s messages of the thread, or did not say (MaxThread).
Begin(r, k, s) ==
  /\ At(r, "idle")
  /\ s <= Len(thread) \/ s = MaxThread
  /\ op' = [op EXCEPT ![r] = k]
  /\ \/ /\ Claim(k)
        /\ Goto(r, "read")
        /\ seen' = [seen EXCEPT ![r] = s]
     \/ /\ sent[k].status # "none"
        /\ Goto(r, "lookup")
        /\ UNCHANGED <<lvars, seen>>
  /\ UNCHANGED <<pvars, claim, got, msg>>

\* The row may be gone again (an error) or finished (the stored result is
\* replayed); otherwise this attempt may only reconcile.
Lookup(r) ==
  /\ At(r, "lookup")
  /\ IF sent[op[r]].status \in {"none", "sent"}
     THEN Leave(r)
     ELSE /\ Goto(r, "reconcile")
          /\ claim' = [claim EXCEPT ![r] = sent[op[r]]]
          /\ UNCHANGED <<op, seen, got, msg>>
  /\ UNCHANGED <<lvars, pvars>>

\* The owner of the claim reads the thread and checks that the operator had
\* seen every customer message in it.
Stale(r) == \E m \in Buyers : m > seen[r]

ReadUnchecked(r) ==                                                     \* mutant
  /\ At(r, "read")
  /\ got' = [got EXCEPT ![r] = Len(thread)]
  /\ Goto(r, "preflight")
  /\ UNCHANGED <<lvars, pvars, op, seen, claim, msg>>

Read(r) ==
  /\ At(r, "read")
  /\ got' = [got EXCEPT ![r] = Len(thread)]
  /\ Goto(r, IF Stale(r) THEN "release" ELSE "preflight")
  /\ UNCHANGED <<lvars, pvars, op, seen, claim, msg>>

\* After an error before the call, Mercari gives the claim back; Rakuten just
\* throws, and the row stays.
Abandon(r) ==
  IF platform = "mercari"
  THEN Goto(r, "release") /\ UNCHANGED <<op, seen, claim, got, msg>>
  ELSE Leave(r)

ReadFails(r) ==
  /\ At(r, "read")
  /\ Abandon(r)
  /\ UNCHANGED <<lvars, pvars>>

\* The release may fail too; the Mercari service swallows that.
ReleaseClaim(r) ==
  /\ At(r, "release")
  /\ Release(op[r])
  /\ Leave(r)
  /\ UNCHANGED pvars

\* The snapshot is stored, or the row is not in 'sending' any more.
PreflightCareless(r) ==                                                 \* mutant
  /\ At(r, "preflight")
  /\ Goto(r, "send")
  /\ UNCHANGED <<op, seen, claim, got, msg>>
  /\ UNCHANGED <<lvars, pvars>>

Preflight(r) ==
  /\ At(r, "preflight")
  /\ RecordPreflight(op[r], got[r])
  /\ IF Active(op[r])
     THEN Goto(r, "send") /\ UNCHANGED <<op, seen, claim, got, msg>>
     ELSE Abandon(r)
  /\ UNCHANGED pvars

\* It fails, having reached the database or not.
PreflightFails(r) ==
  /\ At(r, "preflight")
  /\ RecordPreflight(op[r], got[r]) \/ UNCHANGED lvars
  /\ Abandon(r)
  /\ UNCHANGED pvars

\* The call to the platform, its answer, and its failure, after which the row
\* is marked: a lost answer and a refusal look the same.
Call(r) ==
  /\ At(r, "send")
  /\ flight' = flight \cup {op[r]}
  /\ calls' = [calls EXCEPT ![op[r]] = @ + 1]
  /\ Goto(r, "wait")
  /\ seen' = [seen EXCEPT ![r] = 0]
  /\ UNCHANGED <<lvars, platform, thread, op, claim, got, msg>>

Posted(k) == {m \in 1..Len(thread) : thread[m].op = k}

\* Mercari answers with the thread after the post, of which the last seller
\* message is taken for the reply; Rakuten only with its time, so the thread
\* is read again.
Sellers(n) == {m \in 1..Len(thread) : m <= n /\ thread[m].role = "seller"}

Answer(r) ==
  /\ At(r, "wait")
  /\ op[r] \notin flight
  /\ \E m \in Posted(op[r]) :
       \/ /\ platform = "mercari"
          /\ \E n \in m..Len(thread) :
               \E s \in Newest(Sellers(n)) : msg' = [msg EXCEPT ![r] = s]
          /\ Goto(r, "record")
       \/ platform = "rakuten" /\ Goto(r, "readback") /\ UNCHANGED msg
  /\ UNCHANGED <<lvars, pvars, op, seen, claim, got>>

CallFails(r) ==
  /\ At(r, "wait")
  /\ MarkAmbiguous(op[r])
  /\ Leave(r)
  /\ UNCHANGED pvars

\* The first n messages are visible, at least those read before the call.
Readback(r) ==
  /\ At(r, "readback")
  /\ \E n \in got[r]..Len(thread) :
       LET found == Matches(op[r], got[r], n) IN
       \/ /\ \E m \in Newest(found) : msg' = [msg EXCEPT ![r] = m]
          /\ Goto(r, "record")
          /\ UNCHANGED <<lvars, op, seen, claim, got>>
       \/ found = {} /\ MarkAmbiguous(op[r]) /\ Leave(r)
  /\ UNCHANGED pvars

\* An attempt without the claim looks for the newest seller message with its
\* text that is not in the stored snapshot.  Without a snapshot Mercari gives
\* up and Rakuten takes the snapshot as empty; the first w messages, older
\* than the row by more than two minutes, do not count.
UnseenByTime(r, w) == w                                                 \* mutant
Unseen(r, w) == IF claim[r].before = NoSnapshot THEN w ELSE claim[r].before

Reconcile(r) ==
  /\ At(r, "reconcile")
  /\ \E w \in 0..Len(thread) :
       LET blind == platform = "mercari" /\ claim[r].before = NoSnapshot
           found == Matches(op[r], Unseen(r, w), Len(thread)) IN
       \/ /\ ~blind
          /\ \E m \in Newest(found) : msg' = [msg EXCEPT ![r] = m]
          /\ got' = [got EXCEPT ![r] = Len(thread)]
          /\ claim' = [claim EXCEPT ![r] = NoRow]
          /\ Goto(r, "record")
          /\ UNCHANGED <<op, seen>>
       \/ (blind \/ found = {}) /\ Leave(r)
  /\ UNCHANGED <<lvars, pvars>>

\* The finalize transaction; its caller learns of success, replay or refusal.
Record(r) ==
  /\ At(r, "record")
  /\ Finalize(op[r], Intent[op[r]], msg[r])
  /\ Leave(r)
  /\ UNCHANGED pvars

\* The worker is gone, or a request without effect failed and it threw.
Crash(r) ==
  /\ ~At(r, "idle")
  /\ Leave(r)
  /\ UNCHANGED <<lvars, pvars>>

-----------------------------------------------------------------------------
(* The platform, its users, and ingestion *)

Post(e) == Len(thread) < MaxThread /\ thread' = Append(thread, e)

Land(k) ==
  /\ k \in flight
  /\ Post(Reply(k))
  /\ flight' = flight \ {k}
  /\ UNCHANGED <<lvars, platform, calls, rvars>>

Refuse(k) ==
  /\ k \in flight
  /\ flight' = flight \ {k}
  /\ UNCHANGED <<lvars, platform, thread, calls, rvars>>

\* The customer writes, or somebody replies in the seller console.
SomebodyWrites ==
  /\ \E e \in {Buyer} \cup {Elsewhere(t) : t \in Console} : Post(e)
  /\ UNCHANGED <<lvars, platform, flight, calls, rvars>>

\* Rakuten: the sync job has read n messages of the inquiry and inserts them
\* all.  Mercari: an event for one customer message reaches its ticket.
Sync ==
  /\ \/ /\ platform = "rakuten"
        /\ \E n \in 1..Len(thread) : Ingest(1..n, Buyers)
     \/ /\ platform = "mercari"
        /\ \E m \in Buyers : Ingest({m}, Buyers)
  /\ UNCHANGED <<pvars, rvars>>

-----------------------------------------------------------------------------
Step(r) ==
  \/ \E k \in Op, s \in 0..MaxThread : Begin(r, k, s)
  \/ Lookup(r) \/ Read(r) \/ ReadFails(r) \/ ReleaseClaim(r)
  \/ Preflight(r) \/ PreflightFails(r) \/ Call(r) \/ Answer(r) \/ CallFails(r)
  \/ Readback(r) \/ Reconcile(r) \/ Record(r) \/ Crash(r)

Outside == (\E k \in Op : Land(k) \/ Refuse(k)) \/ SomebodyWrites \/ Sync

Next == (\E r \in Run : Step(r)) \/ Outside

Spec == Init /\ [][Next]_vars

-----------------------------------------------------------------------------
(* Properties *)

Bit(b) == IF b THEN 1 ELSE 0

\* One confirmed reply makes at most one call to the platform, however often
\* it is retried, by however many invocations at once, and whatever was
\* released or lost on the way.
NeverSentTwice == \A k \in Op : calls[k] <= 1

\* A reply on its way or on the platform can still be found: its row exists,
\* with a snapshot taken before the call.
DeliveredRecoverable ==
  \A k \in Op : (k \in flight \/ Posted(k) # {}) =>
    /\ sent[k].status # "none" /\ sent[k].before # NoSnapshot
    /\ \A m \in Posted(k) : m > sent[k].before

\* A reply recorded as sent names a message the seller posted: on Rakuten one
\* with its text, on Mercari never one that was there before the reply was
\* first confirmed.
SentNamesReply ==
  \A k \in Op : sent[k].status = "sent" =>
    /\ sent[k].msg \in 1..Len(thread) /\ thread[sent[k].msg].role = "seller"
    /\ platform = "rakuten" => thread[sent[k].msg].text = Text[k]
    /\ platform = "mercari" => thread[sent[k].msg].op # Earlier

\* A platform message stands for one entry of the ticket's timeline: two
\* replies never claim the same one, and ingestion never adds it again.
RecordedOnce ==
  \A k \in Op : sent[k].msg # 0 =>
    /\ sent[k].msg \notin inbound
    /\ \A j \in Op \ {k} : sent[j].msg # sent[k].msg

\* A reply recorded as sent names the seller's message that it is, and that
\* message is in the timeline once, whichever of a finalize, a reconciliation
\* and an ingestion came first (finalize_operator_message_send).
RecordsTrue == SentNamesReply /\ RecordedOnce

\* A call goes out only for a thread whose snapshot the row holds, and in
\* which the operator had seen every customer message.
CallOnReviewedThread ==
  [][\A r \in Run : At(r, "send") /\ pc'[r] = "wait" =>
       /\ sent[op[r]].before = got[r]
       /\ \A m \in Buyers : m <= got[r] => m <= seen[r]]_vars

\* needs_reply goes away only with a terminal reply becoming sent, never with
\* the replay of one: that would hide a customer message that came since.
ClearedByTerminalReply ==
  [][needs /\ ~needs' => \E k \in Op : /\ Intent[k] = "terminal"
                                       /\ sent[k].status # "sent"
                                       /\ sent'[k].status = "sent"]_vars

\* Invocations that own a claim and have not made the call.
Holders(k) == {r \in Run : /\ pc[r] \in {"read", "release", "preflight", "send"}
                           /\ op[r] = k}

Permits == INSTANCE SubmissionPermits
  WITH Key <- Op,
       permits <- [k \in Op |-> Cardinality(Holders(k)) + Bit(sent[k].status = "none")],
       granted <- [k \in Op |-> 0],
       calls <- calls

\* Refinement: the reply rows grant calls as SubmissionPermits does, with
\* nobody to hand out a second one.
ImplementsPermits == Permits!PSpec

\* Acceptance criterion of the Rakuten pipeline (not what the code does):
\* a reply the platform has confirmed can be recorded, unless another reply
\* with the same text was recorded in its place.
ConfirmedReplyRecordable ==
  \A r \in Run :
    platform = "rakuten" /\ At(r, "record") /\ thread[msg[r]].op = op[r] =>
      \/ Recordable(op[r], msg[r])
      \/ sent[op[r]].status \in {"none", "sent"}
      \/ \E k \in Op \ {op[r]} : sent[k].msg = msg[r]

\* Requirement on the send state machine (not what the code does): a terminal
\* reply does not clear needs_reply while the ticket carries a customer
\* message newer than the thread the reply was checked against.
NewerCustomerKeepsNeedsReply ==
  [][needs /\ ~needs' => \A r \in Run : At(r, "record") /\ pc'[r] = "idle" =>
       \A m \in inbound \cap Buyers : m <= got[r]]_vars
=============================================================================
