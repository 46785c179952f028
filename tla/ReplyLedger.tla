----------------------------- MODULE ReplyLedger -----------------------------
(***************************************************************************)
(* The rows behind an operator's reply on one ticket: sent_messages (one   *)
(* row per client operation), the platform messages the ticket already     *)
(* carries, and the ticket's needs_reply flag.  Each action is one SQL     *)
(* statement or one transaction of the database, so one atomic step.       *)
(*                                                                         *)
(* Platform messages are named by their position in the thread; a stored   *)
(* snapshot of message identifiers is the length of the thread when it was *)
(* read, because a thread only grows.                                      *)
(***************************************************************************)
EXTENDS Naturals

CONSTANTS Op,           \* client_operation_id: one per confirmed reply
          MaxThread     \* bound: messages in the platform thread

VARIABLES sent,         \* the sent_messages row of each operation
          inbound,      \* platform messages brought in by ingestion
          needs         \* tickets.needs_reply

lvars == <<sent, inbound, needs>>

Message == 1..MaxThread
NoSnapshot == MaxThread + 1     \* platform_message_ids_before_send is null

Row == [status : {"none", "sending", "ambiguous", "sent"},
        before : 0..(MaxThread + 1), msg : 0..MaxThread]
NoRow == [status |-> "none", before |-> NoSnapshot, msg |-> 0]

LedgerTypeOK == /\ sent \in [Op -> Row]
                /\ inbound \subseteq Message
                /\ needs \in BOOLEAN

LedgerInit == /\ sent = [k \in Op |-> NoRow]
              /\ inbound = {}
              /\ needs = TRUE

\* INSERT under the unique (ticket_id, client_operation_id).
ClaimAmbiguous(k) ==                                                    \* mutant
  /\ sent[k].status \in {"none", "ambiguous"}
  /\ sent' = [sent EXCEPT ![k].status = "sending"]
  /\ UNCHANGED <<inbound, needs>>

Claim(k) ==
  /\ sent[k].status = "none"
  /\ sent' = [sent EXCEPT ![k].status = "sending"]
  /\ UNCHANGED <<inbound, needs>>

Active(k) == sent[k].status = "sending"

\* UPDATE ... WHERE delivery_status = 'sending', for the snapshot and for the
\* ambiguous mark; DELETE under the same condition for the release.
RecordPreflight(k, n) ==
  /\ sent' = IF Active(k) THEN [sent EXCEPT ![k].before = n] ELSE sent
  /\ UNCHANGED <<inbound, needs>>

MarkFailed(k) ==                                                        \* mutant
  /\ sent' = IF Active(k) THEN [sent EXCEPT ![k].status = "failed"] ELSE sent
  /\ UNCHANGED <<inbound, needs>>

MarkAmbiguous(k) ==
  /\ sent' = IF Active(k) THEN [sent EXCEPT ![k].status = "ambiguous"] ELSE sent
  /\ UNCHANGED <<inbound, needs>>

Release(k) ==
  /\ sent' = IF Active(k) THEN [sent EXCEPT ![k] = NoRow] ELSE sent
  /\ UNCHANGED <<inbound, needs>>

\* uq_ticket_messages_platform_external: one ticket message per platform
\* message, whoever inserts it.
Taken == inbound \cup {sent[k].msg : k \in Op}

\* finalize_operator_message_send: a missing row raises, a finished one is
\* replayed, and a platform message that is already there raises and rolls
\* everything back; otherwise row, ticket message and flag change together.
Recordable(k, m) == sent[k].status \in {"sending", "ambiguous"} /\ m \notin Taken

FinalizeReplaying(k, intent, m) ==                                      \* mutant
  /\ sent' = IF Recordable(k, m)
             THEN [sent EXCEPT ![k] = [@ EXCEPT !.status = "sent", !.msg = m]]
             ELSE sent
  /\ needs' = (needs /\ ~(sent'[k].status = "sent" /\ intent = "terminal"))
  /\ UNCHANGED inbound

Finalize(k, intent, m) ==
  /\ sent' = IF Recordable(k, m)
             THEN [sent EXCEPT ![k] = [@ EXCEPT !.status = "sent", !.msg = m]]
             ELSE sent
  /\ needs' = (needs /\ ~(Recordable(k, m) /\ intent = "terminal"))
  /\ UNCHANGED inbound

\* Messages S arrive from the platform, those of customers among them; the
\* ones the ticket already carries are left out (ON CONFLICT DO NOTHING).

Ingest(S, customers) ==
  /\ inbound' = inbound \cup (S \ Taken)
  /\ needs' = (needs \/ (S \ Taken) \cap customers # {})
  /\ UNCHANGED sent
=============================================================================
