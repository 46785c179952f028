------------------------- MODULE TicketReply_proofs --------------------------
(***************************************************************************)
(* Proofs about TicketReply, for every set of operations and texts, every  *)
(* finite set of invocations and every length of the thread:               *)
(*   - type correctness;                                                   *)
(*   - NeverSentTwice and DeliveredRecoverable, from an invariant that     *)
(*     says who owns a reply and what its row knows of the thread;         *)
(*   - RecordedOnce and SentNamesReply: what a recorded reply names;       *)
(*   - refinement of SubmissionPermits, with no permit ever handed out.    *)
(***************************************************************************)
EXTENDS TicketReply, TLAPS, FiniteSetTheorems

LEMMA RowType == ASSUME LedgerTypeOK, NEW k \in Op
  PROVE  /\ sent[k] \in Row
         /\ sent[k].status \in {"none", "sending", "ambiguous", "sent"}
         /\ sent[k].before \in 0..(MaxThread + 1)
         /\ sent[k].msg \in 0..MaxThread
BY DEF LedgerTypeOK, Row

LEMMA NoRowType == NoRow \in Row
BY OpAssumption DEF NoRow, Row, NoSnapshot

LEMMA TypeInit == Init => TypeOK
<1> SUFFICES ASSUME Init PROVE TypeOK
  OBVIOUS
<1>1. LedgerTypeOK
  BY NoRowType DEF Init, LedgerInit, LedgerTypeOK, Message
<1>2. thread \in Seq(Entry) /\ Len(thread) <= MaxThread
  <2>1. CASE thread = <<>>
    BY <2>1, OpAssumption
  <2>2. ASSUME NEW t \in Texts, thread = <<Old(t)>>
        PROVE  thread \in Seq(Entry) /\ Len(thread) <= MaxThread
    <3>1. Old(t) \in Entry
      BY DEF Entry
    <3> QED BY <2>2, <3>1, OpAssumption
  <2> QED BY <2>1, <2>2 DEF Init
<1>3. /\ pc \in [Run -> PC]
      /\ \A r \in Run : pc[r] = "idle"
  BY DEF Init, PC
<1> QED BY <1>1, <1>2, <1>3, NoRowType, OpAssumption DEF Init, TypeOK

\* The rows stay well typed whatever an invocation does to them.
LEMMA TypeLedger ==
  ASSUME LedgerTypeOK, NEW k \in Op
  PROVE  /\ Claim(k) => LedgerTypeOK'
         /\ \A n \in 0..(MaxThread + 1) : RecordPreflight(k, n) => LedgerTypeOK'
         /\ MarkAmbiguous(k) => LedgerTypeOK'
         /\ Release(k) => LedgerTypeOK'
         /\ \A i : \A m \in 0..MaxThread : Finalize(k, i, m) => LedgerTypeOK'
<1> USE DEF LedgerTypeOK, Row
<1>1. Claim(k) => LedgerTypeOK'
  BY DEF Claim
<1>2. ASSUME NEW n \in 0..(MaxThread + 1), RecordPreflight(k, n) PROVE LedgerTypeOK'
  BY <1>2 DEF RecordPreflight
<1>3. MarkAmbiguous(k) => LedgerTypeOK'
  BY DEF MarkAmbiguous
<1>4. Release(k) => LedgerTypeOK'
  BY NoRowType DEF Release
<1>5. ASSUME NEW i, NEW m \in 0..MaxThread, Finalize(k, i, m) PROVE LedgerTypeOK'
  BY <1>5 DEF Finalize
<1> QED BY <1>1, <1>2, <1>3, <1>4, <1>5

LEMMA TypeIngest ==
  ASSUME LedgerTypeOK, NEW S \in SUBSET Message, NEW C, Ingest(S, C)
  PROVE  LedgerTypeOK'
BY DEF Ingest, LedgerTypeOK

LEMMA TypeLeave ==
  ASSUME TypeOK, NEW r \in Run, Leave(r)
  PROVE  /\ pc' \in [Run -> PC]
         /\ op' \in [Run -> Op \cup {NoOp}]
         /\ \A q \in Run : pc'[q] # "idle" => op'[q] # NoOp
         /\ seen' \in [Run -> 0..MaxThread]
         /\ claim' \in [Run -> Row]
         /\ got' \in [Run -> 0..MaxThread]
         /\ msg' \in [Run -> 0..MaxThread]
BY NoRowType, OpAssumption DEF TypeOK, Leave, Goto, PC

LEMMA TypeGoto ==
  ASSUME TypeOK, NEW r \in Run, NEW l \in PC, Goto(r, l),
         (op' = op /\ pc[r] # "idle") \/ \E k \in Op : op' = [op EXCEPT ![r] = k]
  PROVE  /\ pc' \in [Run -> PC]
         /\ op' \in [Run -> Op \cup {NoOp}]
         /\ \A q \in Run : pc'[q] # "idle" => op'[q] # NoOp
BY OpAssumption DEF TypeOK, Goto

\* One step per action: which of the typed variables it changes, and to what.
LEMMA TypeStep == ASSUME TypeOK, NEW r \in Run, Step(r) PROVE TypeOK'
<1> USE DEF TypeOK, At, Goto, lvars, pvars
<1>0. UNCHANGED lvars => LedgerTypeOK'
  BY DEF LedgerTypeOK
<1>t. Len(thread) \in 0..MaxThread
  BY OpAssumption
<1>k. pc[r] # "idle" => op[r] \in Op
  OBVIOUS
<1>g. got[r] \in 0..(MaxThread + 1) /\ msg[r] \in 0..MaxThread
  BY OpAssumption
<1>m. \A m \in 1..Len(thread) : m \in 0..MaxThread
  BY <1>t, OpAssumption
<1>pc. {"lookup", "read", "record", "readback", "reconcile", "preflight"} \subseteq PC
  BY DEF PC
<1>l. /\ pc[r] # "idle" => \A n \in 0..(MaxThread + 1) : RecordPreflight(op[r], n) => LedgerTypeOK'
      /\ pc[r] # "idle" => (MarkAmbiguous(op[r]) \/ Release(op[r]) => LedgerTypeOK')
      /\ pc[r] # "idle" =>
           \A i : \A m \in 0..MaxThread : Finalize(op[r], i, m) => LedgerTypeOK'
  BY <1>k, TypeLedger
<1>1. ASSUME NEW k \in Op, NEW s \in 0..MaxThread, Begin(r, k, s) PROVE TypeOK'
  <2>1. LedgerTypeOK'
    BY <1>0, <1>1, TypeLedger DEF Begin
  <2>2. PICK l \in PC : Goto(r, l)
    BY <1>1, <1>pc DEF Begin
  <2>3. op' = [op EXCEPT ![r] = k]
    BY <1>1 DEF Begin
  <2>4. seen' \in [Run -> 0..MaxThread]
    BY <1>1 DEF Begin
  <2> QED BY <1>1, <2>1, <2>2, <2>3, <2>4, TypeGoto DEF Begin
<1>2. CASE Lookup(r)
  <2>1. CASE Leave(r)
    BY <1>0, <1>2, <2>1, TypeLeave DEF Lookup
  <2>2. CASE ~Leave(r)
    BY <1>0, <1>2, <1>k, <2>2, RowType DEF Lookup, PC
  <2> QED BY <2>1, <2>2
<1>3. CASE Read(r)
  BY <1>0, <1>3, <1>t DEF Read, PC
<1>4. CASE ReadFails(r)
  <2>1. CASE Leave(r)
    BY <1>0, <1>4, <2>1, TypeLeave DEF ReadFails
  <2>2. CASE ~Leave(r)
    BY <1>0, <1>4, <2>2 DEF ReadFails, Abandon, PC
  <2> QED BY <2>1, <2>2
<1>5. CASE ReleaseClaim(r)
  BY <1>5, <1>l, TypeLeave DEF ReleaseClaim
<1>6. CASE Preflight(r)
  <2>1. LedgerTypeOK'
    BY <1>6, <1>l, <1>g DEF Preflight
  <2>2. CASE Leave(r)
    BY <1>6, <2>1, <2>2, TypeLeave DEF Preflight
  <2>3. CASE ~Leave(r)
    BY <1>6, <2>1, <2>3 DEF Preflight, Abandon, PC
  <2> QED BY <2>2, <2>3
<1>7. CASE PreflightFails(r)
  <2>1. LedgerTypeOK'
    BY <1>0, <1>7, <1>l, <1>g DEF PreflightFails
  <2>2. CASE Leave(r)
    BY <1>7, <2>1, <2>2, TypeLeave DEF PreflightFails
  <2>3. CASE ~Leave(r)
    BY <1>7, <2>1, <2>3 DEF PreflightFails, Abandon, PC
  <2> QED BY <2>2, <2>3
<1>8. CASE Call(r)
  BY <1>0, <1>8, <1>k, OpAssumption DEF Call, PC
<1>9. CASE Answer(r)
  <2>1. PICK l \in PC : Goto(r, l)
    BY <1>9, <1>pc DEF Answer
  <2>2. PICK m \in 0..MaxThread : msg' = [msg EXCEPT ![r] = m] \/ msg' = msg
    <3>1. msg' = msg \/ \E s \in 1..Len(thread) : msg' = [msg EXCEPT ![r] = s]
      BY <1>9 DEF Answer, Newest, Sellers
    <3> QED BY <1>m, <3>1, OpAssumption
  <2>3. msg' \in [Run -> 0..MaxThread]
    BY <2>2
  <2>4. op' = op /\ pc[r] # "idle"
    BY <1>9 DEF Answer
  <2> QED BY <1>0, <1>9, <2>1, <2>3, <2>4, TypeGoto DEF Answer
<1>10. CASE CallFails(r)
  BY <1>10, <1>l, TypeLeave DEF CallFails
<1>11. CASE Readback(r)
  <2>1. CASE Leave(r) /\ MarkAmbiguous(op[r])
    BY <1>11, <1>l, <2>1, TypeLeave DEF Readback
  <2>2. ASSUME NEW n, NEW m \in Newest(Matches(op[r], got[r], n)),
               msg' = [msg EXCEPT ![r] = m], Goto(r, "record"),
               UNCHANGED <<lvars, pvars, op, seen, claim, got>>
        PROVE  TypeOK'
    <3>1. m \in 0..MaxThread
      BY <1>m DEF Newest, Matches
    <3>2. msg' \in [Run -> 0..MaxThread]
      BY <2>2, <3>1
    <3> QED BY <1>0, <1>11, <1>pc, <2>2, <3>2, TypeGoto DEF Readback
  <2> QED BY <1>11, <2>1, <2>2 DEF Readback
<1>12. CASE Reconcile(r)
  <2>1. CASE Leave(r)
    BY <1>0, <1>12, <2>1, TypeLeave DEF Reconcile
  <2>2. CASE ~Leave(r)
    <3>0. PICK w \in 0..Len(thread) :
            /\ \E m \in Newest(Matches(op[r], Unseen(r, w), Len(thread))) :
                 msg' = [msg EXCEPT ![r] = m]
            /\ got' = [got EXCEPT ![r] = Len(thread)]
            /\ claim' = [claim EXCEPT ![r] = NoRow]
            /\ Goto(r, "record")
            /\ UNCHANGED <<lvars, pvars, op, seen>>
      BY <1>12, <2>2 DEF Reconcile
    <3>1. PICK m \in Newest(Matches(op[r], Unseen(r, w), Len(thread))) :
            msg' = [msg EXCEPT ![r] = m]
      BY <3>0
    <3>2. m \in 0..MaxThread
      BY <1>m DEF Newest, Matches
    <3>3. /\ msg' \in [Run -> 0..MaxThread]
          /\ got' \in [Run -> 0..MaxThread]
          /\ claim' \in [Run -> Row]
      BY <1>t, <3>0, <3>1, <3>2, NoRowType
    <3> QED BY <1>0, <1>12, <1>pc, <3>0, <3>3, TypeGoto DEF Reconcile
  <2> QED BY <2>1, <2>2
<1>13. CASE Record(r)
  BY <1>13, <1>l, TypeLeave DEF Record
<1>14. CASE Crash(r)
  BY <1>0, <1>14, TypeLeave DEF Crash
<1> QED
  BY <1>1, <1>2, <1>3, <1>4, <1>5, <1>6, <1>7, <1>8, <1>9, <1>10, <1>11, <1>12,
     <1>13, <1>14 DEF Step

LEMMA TypePost ==
  ASSUME TypeOK, NEW e \in Entry, Post(e)
  PROVE  /\ thread' \in Seq(Entry)
         /\ Len(thread') = Len(thread) + 1
         /\ Len(thread') <= MaxThread
         /\ thread'[Len(thread) + 1] = e
         /\ \A m \in 1..Len(thread) : thread'[m] = thread[m]
BY OpAssumption DEF TypeOK, Post

LEMMA TypeOutside == ASSUME TypeOK, Outside PROVE TypeOK'
<1> USE DEF TypeOK, lvars, rvars, pvars
<1>0. UNCHANGED lvars => LedgerTypeOK'
  BY DEF LedgerTypeOK
<1>1. ASSUME NEW k \in Op, Land(k) PROVE TypeOK'
  <2>1. Reply(k) \in Entry
    BY DEF Entry
  <2> QED BY <1>0, <1>1, <2>1, TypePost DEF Land
<1>2. ASSUME NEW k \in Op, Refuse(k) PROVE TypeOK'
  BY <1>0, <1>2 DEF Refuse
<1>3. CASE SomebodyWrites
  <2>1. \A e \in {Buyer} \cup {Elsewhere(t) : t \in Console} : e \in Entry
    BY DEF Entry
  <2> QED BY <1>0, <1>3, <2>1, TypePost DEF SomebodyWrites
<1>4. CASE Sync
  <2>1. /\ \A n \in 1..Len(thread) : 1..n \in SUBSET Message
        /\ \A m \in Buyers : {m} \in SUBSET Message
    BY OpAssumption DEF Message, Buyers
  <2>2. LedgerTypeOK'
    BY <1>4, <2>1, TypeIngest DEF Sync
  <2> QED BY <1>4, <2>2 DEF Sync
<1> QED BY <1>1, <1>2, <1>3, <1>4 DEF Outside

LEMMA TypeNext == TypeOK /\ [Next]_vars => TypeOK'
<1>1. ASSUME TypeOK, UNCHANGED vars PROVE TypeOK'
  BY <1>1 DEF TypeOK, LedgerTypeOK, vars, lvars, pvars, rvars
<1> QED BY <1>1, TypeStep, TypeOutside DEF Next

\* Every reachable state is well typed.
THEOREM TypeCorrect == Spec => []TypeOK
<1> QED BY TypeInit, TypeNext, PTL DEF Spec

-----------------------------------------------------------------------------
(* The inductive invariant *)

\* Who may call: an operation has a free row, one owner that has not called,
\* or one call behind it, and nothing of it reaches the platform before.
OwnerInv ==
  /\ \A k \in Op, q, r \in Run : q \in Holders(k) /\ r \in Holders(k) => q = r
  /\ \A k \in Op, r \in Run :
       r \in Holders(k) => sent[k].status # "none" /\ calls[k] = 0
  /\ \A k \in Op : calls[k] <= 1 /\ (calls[k] = 1 => sent[k].status # "none")
  /\ \A r \in Run : pc[r] \in {"wait", "readback"} => calls[op[r]] = 1
  /\ \A k \in Op : k \in flight \/ Posted(k) # {} => calls[k] = 1

\* A length at which the thread was read since the operations began.
Known(n) == /\ n <= Len(thread)
            /\ \A m \in 1..Len(thread) : thread[m].op = Earlier => m <= n

SnapshotInv ==
  /\ \A k \in Op : sent[k].before # NoSnapshot => Known(sent[k].before)
  /\ \A r \in Run : claim[r].before # NoSnapshot => Known(claim[r].before)
  /\ \A r \in Run :
       pc[r] \in {"preflight", "send", "wait", "readback"} => Known(got[r])
  /\ \A r \in Run : pc[r] = "send" => sent[op[r]].before = got[r]
  /\ \A k \in Op : calls[k] = 1 => /\ sent[k].before # NoSnapshot
                                   /\ \A m \in Posted(k) : m > sent[k].before

\* What the owner checked still holds when it calls.
ReviewInv == \A r \in Run : pc[r] \in {"preflight", "send"} =>
               \A m \in Buyers : m <= got[r] => m <= seen[r]

Named(k, m) ==
  /\ m \in 1..Len(thread)
  /\ thread[m].role = "seller"
  /\ platform = "rakuten" => thread[m].text = Text[k]
  /\ platform = "mercari" => thread[m].op # Earlier

NameInv == /\ \A r \in Run : pc[r] = "record" => Named(op[r], msg[r])
           /\ \A k \in Op : sent[k].status = "sent" => Named(k, sent[k].msg)


-----------------------------------------------------------------------------
(* Owners *)

Owning == {"read", "release", "preflight", "send"}

LEMMA OwnerInit == Init => OwnerInv
BY OpAssumption
   DEF Init, LedgerInit, OwnerInv, Holders, Posted, Old, NoRow, NoSnapshot

\* A step that leaves calls, thread and flight alone, sends no invocation to
\* an owning place, and frees no row but that of its own reply.
LEMMA OwnerQuiet ==
  ASSUME TypeOK, OwnerInv, NEW r \in Run,
         pc' \in [Run -> PC], op' \in [Run -> Op \cup {NoOp}],
         \A q \in Run \ {r} : pc'[q] = pc[q] /\ op'[q] = op[q],
         pc'[r] \in Owning => pc[r] \in Owning /\ op'[r] = op[r],
         pc'[r] \in {"wait", "readback"} =>
           pc[r] \in {"wait", "readback"} /\ op'[r] = op[r],
         \A k \in Op : sent[k].status # "none" => sent'[k].status # "none",
         UNCHANGED <<calls, thread, flight>>
  PROVE  OwnerInv'
<1>1. \A k \in Op, q \in Run : q \in Holders(k)' => q \in Holders(k)
  BY DEF Holders, Owning
<1>2. \A q \in Run : pc'[q] \in {"wait", "readback"} =>
         pc[q] \in {"wait", "readback"} /\ op'[q] = op[q]
  OBVIOUS
<1>3. \A k \in Op : Posted(k)' = Posted(k)
  BY DEF Posted
<1> QED BY <1>1, <1>2, <1>3 DEF OwnerInv

LEMMA StatusKept ==
  ASSUME LedgerTypeOK, NEW k \in Op
  PROVE  /\ \A n : RecordPreflight(k, n) =>
              \A j \in Op : sent'[j].status = sent[j].status
         /\ MarkAmbiguous(k) =>
              \A j \in Op : sent[j].status # "none" => sent'[j].status # "none"
         /\ \A i, m : Finalize(k, i, m) =>
              \A j \in Op : sent[j].status # "none" => sent'[j].status # "none"
<1> USE DEF LedgerTypeOK, Row
<1>1. ASSUME NEW n, RecordPreflight(k, n)
      PROVE  \A j \in Op : sent'[j].status = sent[j].status
  BY <1>1 DEF RecordPreflight
<1>2. ASSUME MarkAmbiguous(k)
      PROVE  \A j \in Op : sent[j].status # "none" => sent'[j].status # "none"
  BY <1>2 DEF MarkAmbiguous
<1>3. ASSUME NEW i, NEW m, Finalize(k, i, m)
      PROVE  \A j \in Op : sent[j].status # "none" => sent'[j].status # "none"
  BY <1>3 DEF Finalize
<1> QED BY <1>1, <1>2, <1>3

LEMMA OwnerStep ==
  ASSUME TypeOK, TypeOK', OwnerInv, NEW r \in Run, Step(r)
  PROVE  OwnerInv'
<1>t. /\ pc \in [Run -> PC] /\ op \in [Run -> Op \cup {NoOp}]
      /\ pc' \in [Run -> PC] /\ op' \in [Run -> Op \cup {NoOp}]
      /\ LedgerTypeOK /\ calls \in [Op -> Nat]
      /\ pc[r] # "idle" => op[r] \in Op
  BY DEF TypeOK
<1>l. Leave(r) => /\ \A q \in Run \ {r} : pc'[q] = pc[q] /\ op'[q] = op[q]
                  /\ pc'[r] = "idle"
  BY <1>t DEF Leave, Goto
<1>g. ASSUME NEW l, Goto(r, l), UNCHANGED op
      PROVE  /\ \A q \in Run \ {r} : pc'[q] = pc[q] /\ op'[q] = op[q]
             /\ pc'[r] = l /\ op'[r] = op[r]
  BY <1>t, <1>g DEF Goto
<1>q. UNCHANGED lvars => \A k \in Op : sent[k].status # "none" => sent'[k].status # "none"
  BY DEF lvars
<1>s. pc[r] # "idle" =>
        /\ \A n : RecordPreflight(op[r], n) =>
             \A j \in Op : sent[j].status # "none" => sent'[j].status # "none"
        /\ MarkAmbiguous(op[r]) =>
             \A j \in Op : sent[j].status # "none" => sent'[j].status # "none"
        /\ \A i, m : Finalize(op[r], i, m) =>
             \A j \in Op : sent[j].status # "none" => sent'[j].status # "none"
  BY <1>t, StatusKept
<1> USE DEF At, pvars
<1>1. ASSUME NEW k \in Op, NEW s \in 0..MaxThread, Begin(r, k, s) PROVE OwnerInv'
  <2>1. CASE Claim(k) /\ Goto(r, "read")
    <3>1. /\ sent[k].status = "none" /\ sent'[k].status = "sending"
          /\ \A j \in Op \ {k} : sent'[j] = sent[j]
      BY <1>t, <2>1 DEF Claim, LedgerTypeOK, Row
    <3>2. /\ \A q \in Run \ {r} : pc'[q] = pc[q] /\ op'[q] = op[q]
          /\ pc[r] = "idle" /\ pc'[r] = "read" /\ op'[r] = k
          /\ UNCHANGED <<calls, thread, flight>>
      BY <1>1, <1>t, <2>1 DEF Begin, Goto
    <3>3. calls[k] = 0
      BY <1>t, <3>1 DEF OwnerInv
    <3> QED BY <1>t, <3>1, <3>2, <3>3 DEF OwnerInv, Holders, Posted
  <2>2. CASE Goto(r, "lookup") /\ UNCHANGED lvars
    BY <1>1, <1>t, <1>q, <2>2, OwnerQuiet DEF Begin, Goto, Owning
  <2> QED BY <1>1, <2>1, <2>2 DEF Begin
<1>2. CASE Lookup(r)
  BY <1>2, <1>t, <1>l, <1>g, <1>q, OwnerQuiet DEF Lookup, Owning
<1>3. CASE Read(r)
  BY <1>3, <1>t, <1>l, <1>g, <1>q, OwnerQuiet DEF Read, Owning
<1>4. CASE ReadFails(r)
  BY <1>4, <1>t, <1>l, <1>g, <1>q, OwnerQuiet DEF ReadFails, Abandon, Owning
<1>5. CASE ReleaseClaim(r)
  <2>1. /\ Release(op[r]) /\ pc[r] = "release" /\ pc'[r] = "idle"
        /\ \A q \in Run \ {r} : pc'[q] = pc[q] /\ op'[q] = op[q]
        /\ UNCHANGED <<calls, thread, flight>>
    BY <1>5, <1>l DEF ReleaseClaim
  <2>2. \A j \in Op \ {op[r]} : sent'[j] = sent[j]
    BY <1>t, <2>1 DEF Release, LedgerTypeOK
  <2>3. r \in Holders(op[r]) /\ calls[op[r]] = 0
    BY <1>t, <2>1 DEF OwnerInv, Holders
  <2> QED BY <1>t, <2>1, <2>2, <2>3 DEF OwnerInv, Holders, Posted
<1>6. CASE Preflight(r) \/ PreflightFails(r)
  BY <1>6, <1>t, <1>l, <1>g, <1>q, <1>s, OwnerQuiet
     DEF Preflight, PreflightFails, Abandon, Owning
<1>7. CASE Call(r)
  <2>1. /\ pc[r] = "send" /\ pc'[r] = "wait" /\ op'[r] = op[r] /\ op[r] \in Op
        /\ \A q \in Run \ {r} : pc'[q] = pc[q] /\ op'[q] = op[q]
        /\ calls' = [calls EXCEPT ![op[r]] = @ + 1]
        /\ flight' = flight \cup {op[r]}
        /\ UNCHANGED <<sent, thread>>
    BY <1>7, <1>t DEF Call, Goto, lvars
  <2>2. /\ r \in Holders(op[r]) /\ calls[op[r]] = 0 /\ calls'[op[r]] = 1
        /\ \A j \in Op \ {op[r]} : calls'[j] = calls[j]
    BY <1>t, <2>1 DEF OwnerInv, Holders
  <2> QED BY <1>t, <2>1, <2>2 DEF OwnerInv, Holders, Posted
<1>8. CASE Answer(r)
  BY <1>8, <1>t, <1>l, <1>g, <1>q, OwnerQuiet DEF Answer, Owning
<1>9. CASE CallFails(r) \/ Record(r) \/ Crash(r)
  BY <1>9, <1>t, <1>l, <1>q, <1>s, OwnerQuiet DEF CallFails, Record, Crash, Owning
<1>10. CASE Readback(r)
  BY <1>10, <1>t, <1>l, <1>g, <1>q, <1>s, OwnerQuiet DEF Readback, Owning
<1>11. CASE Reconcile(r)
  BY <1>11, <1>t, <1>l, <1>g, <1>q, OwnerQuiet DEF Reconcile, Owning
<1> QED
  BY <1>1, <1>2, <1>3, <1>4, <1>5, <1>6, <1>7, <1>8, <1>9, <1>10, <1>11 DEF Step

\* What arrives on the platform, and the marks it bears.
LEMMA EntryKind ==
  ASSUME NEW e \in Entry
  PROVE  \A k \in Op : e.op = k => e = Reply(k) /\ e.role = "seller" /\ e.text = Text[k]
BY OpAssumption DEF Entry, Buyer, Elsewhere, Old, Reply

LEMMA PostSets ==
  ASSUME TypeOK, NEW e \in Entry, Post(e)
  PROVE  /\ \A k \in Op : e.op # k => Posted(k)' = Posted(k)
         /\ \A k \in Op : \A m \in Posted(k)' : m \in Posted(k) \/ m = Len(thread) + 1
         /\ Buyers \subseteq Buyers'
         /\ \A m \in Buyers' \ Buyers : m = Len(thread) + 1
<1>1. /\ Len(thread) \in Nat
      /\ Len(thread') = Len(thread) + 1
      /\ thread'[Len(thread) + 1] = e
      /\ \A m \in 1..Len(thread) : thread'[m] = thread[m]
  BY TypePost DEF TypeOK
<1> QED BY <1>1 DEF Posted, Buyers

LEMMA OwnerOutside ==
  ASSUME TypeOK, OwnerInv, Outside
  PROVE  OwnerInv'
<1>t. LedgerTypeOK /\ Len(thread) \in Nat
  BY DEF TypeOK
<1>1. ASSUME NEW k \in Op, Land(k) PROVE OwnerInv'
  <2>1. /\ k \in flight /\ flight' \subseteq flight
        /\ UNCHANGED <<sent, calls, pc, op>>
    BY <1>1 DEF Land, lvars, rvars
  <2>2. \A j \in Op \ {k} : Posted(j)' = Posted(j)
    <3>1. Reply(k) \in Entry /\ \A j \in Op \ {k} : Reply(k).op # j
      BY DEF Entry, Reply
    <3> QED BY <1>1, <3>1, PostSets DEF Land
  <2> QED BY <2>1, <2>2 DEF OwnerInv, Holders
<1>2. ASSUME NEW k \in Op, Refuse(k) PROVE OwnerInv'
  BY <1>2 DEF Refuse, OwnerInv, Holders, Posted, lvars, rvars
<1>3. CASE SomebodyWrites
  <2>1. PICK e \in {Buyer} \cup {Elsewhere(t) : t \in Console} : Post(e)
    BY <1>3 DEF SomebodyWrites
  <2>2. e \in Entry /\ \A k \in Op : e.op # k
    BY OpAssumption DEF Entry, Buyer, Elsewhere
  <2>3. \A k \in Op : Posted(k)' = Posted(k)
    BY <2>1, <2>2, PostSets
  <2> QED BY <1>3, <2>3 DEF SomebodyWrites, OwnerInv, Holders, lvars, rvars
<1>4. CASE Sync
  BY <1>4 DEF Sync, Ingest, OwnerInv, Holders, Posted, pvars, rvars
<1> QED BY <1>1, <1>2, <1>3, <1>4 DEF Outside

LEMMA OwnerNext == TypeOK /\ OwnerInv /\ [Next]_vars => OwnerInv'
<1>1. ASSUME OwnerInv, UNCHANGED vars PROVE OwnerInv'
  BY <1>1 DEF OwnerInv, Holders, Posted, vars, lvars, pvars, rvars
<1> QED BY <1>1, TypeNext, OwnerStep, OwnerOutside DEF Next

\* However often a reply is retried, and by however many invocations at once,
\* the platform is called for it at most once.
THEOREM SentOnce == Spec => []NeverSentTwice
<1>1. OwnerInv => NeverSentTwice
  BY DEF OwnerInv, NeverSentTwice
<1> QED BY <1>1, TypeInit, TypeNext, OwnerInit, OwnerNext, PTL DEF Spec

-----------------------------------------------------------------------------
(* Snapshots *)

LEMMA SnapshotInit == Init => SnapshotInv
<1> SUFFICES ASSUME Init PROVE SnapshotInv
  OBVIOUS
<1>1. \A k \in Op : sent[k].before = NoSnapshot /\ calls[k] = 0
  BY DEF Init, LedgerInit, NoRow
<1>2. \A r \in Run : claim[r].before = NoSnapshot /\ pc[r] = "idle"
  BY DEF Init, NoRow
<1> QED BY <1>1, <1>2 DEF SnapshotInv

\* What a step does to the snapshots and the places of the invocations, said
\* once: the thread stays, r alone moves, and only r's own row may change.
LEMMA SnapshotQuiet ==
  ASSUME SnapshotInv, NEW r \in Run,
         \A q \in Run \ {r} : /\ pc'[q] = pc[q] /\ op'[q] = op[q]
                              /\ claim'[q] = claim[q] /\ got'[q] = got[q],
         claim'[r].before # NoSnapshot => Known(claim'[r].before),
         pc'[r] \in {"preflight", "send", "wait", "readback"} => Known(got'[r]),
         pc'[r] = "send" => sent'[op'[r]].before = got'[r],
         \A k \in Op : sent'[k].before = sent[k].before,
         \A q \in Run : pc[q] = "send" => op[q] \in Op,
         UNCHANGED <<calls, thread>>
  PROVE  SnapshotInv'
<1>1. \A n : Known(n)' <=> Known(n)
  BY DEF Known
<1>2. \A k \in Op : Posted(k)' = Posted(k)
  BY DEF Posted
<1> QED BY <1>1, <1>2 DEF SnapshotInv

LEMMA BeforeKept ==
  ASSUME LedgerTypeOK, NEW k \in Op
  PROVE  /\ Claim(k) => \A j \in Op : sent'[j].before = sent[j].before
         /\ MarkAmbiguous(k) => \A j \in Op : sent'[j].before = sent[j].before
         /\ \A i, m : Finalize(k, i, m) => \A j \in Op : sent'[j].before = sent[j].before
<1> USE DEF LedgerTypeOK, Row
<1>1. ASSUME Claim(k) PROVE \A j \in Op : sent'[j].before = sent[j].before
  BY <1>1 DEF Claim
<1>2. ASSUME MarkAmbiguous(k) PROVE \A j \in Op : sent'[j].before = sent[j].before
  BY <1>2 DEF MarkAmbiguous
<1>3. ASSUME NEW i, NEW m, Finalize(k, i, m)
      PROVE  \A j \in Op : sent'[j].before = sent[j].before
  BY <1>3 DEF Finalize
<1> QED BY <1>1, <1>2, <1>3

LEMMA SnapshotStep ==
  ASSUME TypeOK, OwnerInv, SnapshotInv, NEW r \in Run, Step(r)
  PROVE  SnapshotInv'
<1>t. /\ pc \in [Run -> PC] /\ op \in [Run -> Op \cup {NoOp}]
      /\ claim \in [Run -> Row] /\ got \in [Run -> 0..MaxThread]
      /\ LedgerTypeOK /\ calls \in [Op -> Nat]
      /\ \A q \in Run : pc[q] # "idle" => op[q] \in Op
  BY DEF TypeOK
<1>l. Leave(r) => /\ \A q \in Run \ {r} : /\ pc'[q] = pc[q] /\ op'[q] = op[q]
                                          /\ claim'[q] = claim[q] /\ got'[q] = got[q]
                  /\ pc'[r] = "idle" /\ claim'[r].before = NoSnapshot
  BY <1>t DEF Leave, Goto, NoRow
<1>g. ASSUME NEW l, Goto(r, l), UNCHANGED <<op, claim, got>>
      PROVE  /\ \A q \in Run \ {r} : /\ pc'[q] = pc[q] /\ op'[q] = op[q]
                                     /\ claim'[q] = claim[q] /\ got'[q] = got[q]
             /\ pc'[r] = l /\ op'[r] = op[r]
             /\ claim'[r] = claim[r] /\ got'[r] = got[r]
  BY <1>t, <1>g DEF Goto
<1>c. claim[r].before # NoSnapshot => Known(claim[r].before)
  BY DEF SnapshotInv
<1>b. /\ UNCHANGED lvars => \A k \in Op : sent'[k].before = sent[k].before
      /\ pc[r] # "idle" /\ MarkAmbiguous(op[r]) =>
           \A k \in Op : sent'[k].before = sent[k].before
      /\ \A i, m : pc[r] # "idle" /\ Finalize(op[r], i, m) =>
           \A k \in Op : sent'[k].before = sent[k].before
  BY <1>t, BeforeKept DEF lvars
<1>n. Known(Len(thread))
  BY DEF Known, TypeOK
<1> USE DEF At, pvars
<1>1. ASSUME NEW k \in Op, NEW s \in 0..MaxThread, Begin(r, k, s) PROVE SnapshotInv'
  <2>1. /\ \A q \in Run \ {r} : /\ pc'[q] = pc[q] /\ op'[q] = op[q]
                                /\ claim'[q] = claim[q] /\ got'[q] = got[q]
        /\ pc'[r] \in {"read", "lookup"} /\ claim'[r] = claim[r]
        /\ UNCHANGED <<calls, thread>>
    BY <1>1, <1>t DEF Begin, Goto
  <2>2. \A j \in Op : sent'[j].before = sent[j].before
    BY <1>1, <1>t, <1>b, BeforeKept DEF Begin
  <2> QED BY <1>t, <1>c, <2>1, <2>2, SnapshotQuiet
<1>2. CASE Lookup(r)
  <2>1. CASE Leave(r)
    BY <1>2, <1>t, <1>l, <1>b, <2>1, SnapshotQuiet DEF Lookup
  <2>2. CASE ~Leave(r)
    <3>1. /\ \A q \in Run \ {r} : /\ pc'[q] = pc[q] /\ op'[q] = op[q]
                                  /\ claim'[q] = claim[q] /\ got'[q] = got[q]
          /\ pc'[r] = "reconcile" /\ claim'[r] = sent[op[r]]
          /\ UNCHANGED <<lvars, calls, thread>> /\ op[r] \in Op
      BY <1>2, <1>t, <2>2 DEF Lookup, Goto
    <3>2. claim'[r].before # NoSnapshot => Known(claim'[r].before)
      BY <3>1 DEF SnapshotInv
    <3> QED BY <1>t, <1>b, <3>1, <3>2, SnapshotQuiet
  <2> QED BY <2>1, <2>2
<1>3. CASE Read(r)
  <2>1. /\ \A q \in Run \ {r} : /\ pc'[q] = pc[q] /\ op'[q] = op[q]
                                /\ claim'[q] = claim[q] /\ got'[q] = got[q]
        /\ pc'[r] \in {"release", "preflight"} /\ claim'[r] = claim[r]
        /\ got'[r] = Len(thread) /\ UNCHANGED <<lvars, calls, thread>>
    BY <1>3, <1>t DEF Read, Goto
  <2> QED BY <1>t, <1>c, <1>b, <1>n, <2>1, SnapshotQuiet
<1>4. CASE ReadFails(r)
  BY <1>4, <1>t, <1>l, <1>g, <1>c, <1>b, SnapshotQuiet DEF ReadFails, Abandon
<1>5. CASE ReleaseClaim(r)
  <2>1. /\ Release(op[r]) /\ pc[r] = "release" /\ op[r] \in Op
        /\ UNCHANGED <<calls, thread>>
    BY <1>5, <1>t DEF ReleaseClaim
  <2>2. /\ \A j \in Op \ {op[r]} : sent'[j] = sent[j]
        /\ sent'[op[r]].before \in {sent[op[r]].before, NoSnapshot}
    BY <1>t, <2>1 DEF Release, LedgerTypeOK, NoRow
  <2>3. calls[op[r]] = 0 /\ \A q \in Run : op[q] = op[r] => pc[q] # "send"
    BY <1>t, <2>1 DEF OwnerInv, Holders
  <2>4. (\A n : Known(n)' <=> Known(n)) /\ \A k \in Op : Posted(k)' = Posted(k)
    BY <2>1 DEF Known, Posted
  <2> QED BY <1>5, <1>t, <1>l, <2>1, <2>2, <2>3, <2>4 DEF ReleaseClaim, SnapshotInv
<1>6. CASE Preflight(r) \/ PreflightFails(r)
  <2>1. /\ pc[r] = "preflight" /\ op[r] \in Op
        /\ RecordPreflight(op[r], got[r]) \/ UNCHANGED lvars
        /\ UNCHANGED <<calls, thread>> /\ Known(got[r])
    BY <1>6, <1>t DEF Preflight, PreflightFails, SnapshotInv
  <2>2. /\ \A j \in Op \ {op[r]} : sent'[j] = sent[j]
        /\ sent'[op[r]].before \in {sent[op[r]].before, got[r]}
        /\ Preflight(r) /\ Active(op[r]) => sent'[op[r]].before = got[r]
    BY <1>t, <2>1 DEF RecordPreflight, Preflight, LedgerTypeOK, Row, lvars
  <2>3. /\ calls[op[r]] = 0
        /\ \A q \in Run \ {r} : op[q] = op[r] => pc[q] # "send"
    BY <1>t, <2>1 DEF OwnerInv, Holders
  <2>4. (\A n : Known(n)' <=> Known(n)) /\ \A k \in Op : Posted(k)' = Posted(k)
    BY <2>1 DEF Known, Posted
  <2>5. /\ \A q \in Run \ {r} : /\ pc'[q] = pc[q] /\ op'[q] = op[q]
                                /\ claim'[q] = claim[q] /\ got'[q] = got[q]
        /\ \/ /\ pc'[r] \in {"release", "idle"}
              /\ claim'[r].before # NoSnapshot => claim'[r] = claim[r]
           \/ /\ pc'[r] = "send" /\ op'[r] = op[r] /\ claim'[r] = claim[r]
              /\ got'[r] = got[r] /\ Preflight(r) /\ Active(op[r])
    BY <1>6, <1>t, <1>l, <1>g DEF Preflight, PreflightFails, Abandon
  <2> QED BY <1>t, <2>1, <2>2, <2>3, <2>4, <2>5 DEF SnapshotInv
<1>7. CASE Call(r)
  <2>1. /\ pc[r] = "send" /\ pc'[r] = "wait" /\ op[r] \in Op
        /\ \A q \in Run \ {r} : pc'[q] = pc[q]
        /\ calls' = [calls EXCEPT ![op[r]] = @ + 1]
        /\ UNCHANGED <<sent, thread, op, claim, got>>
    BY <1>7, <1>t DEF Call, Goto, lvars
  <2>2. /\ Known(got[r]) /\ sent[op[r]].before = got[r] /\ got[r] # NoSnapshot
        /\ Posted(op[r]) = {}
    BY <1>t, <2>1, OpAssumption DEF SnapshotInv, OwnerInv, Holders, NoSnapshot
  <2>3. (\A n : Known(n)' <=> Known(n)) /\ \A k \in Op : Posted(k)' = Posted(k)
    BY <2>1 DEF Known, Posted
  <2> QED BY <1>t, <2>1, <2>2, <2>3 DEF SnapshotInv
<1>8. CASE Answer(r)
  <2>1. Known(got[r])
    BY <1>8 DEF Answer, SnapshotInv
  <2> QED BY <1>8, <1>t, <1>g, <1>c, <1>b, <2>1, SnapshotQuiet DEF Answer
<1>9. CASE CallFails(r) \/ Record(r) \/ Crash(r)
  BY <1>9, <1>t, <1>l, <1>b, SnapshotQuiet DEF CallFails, Record, Crash
<1>10. CASE Readback(r)
  <2>1. CASE Leave(r)
    <3>1. /\ \A k \in Op : sent'[k].before = sent[k].before
          /\ UNCHANGED <<calls, thread>>
      BY <1>10, <1>b DEF Readback
    <3> QED BY <1>t, <1>l, <2>1, <3>1, SnapshotQuiet
  <2>2. CASE ~Leave(r)
    <3>1. Goto(r, "record") /\ UNCHANGED <<lvars, op, claim, got, calls, thread>>
      BY <1>10, <2>2 DEF Readback
    <3> QED BY <1>t, <1>g, <1>c, <1>b, <3>1, SnapshotQuiet
  <2> QED BY <2>1, <2>2
<1>11. CASE Reconcile(r)
  <2>1. CASE Leave(r)
    BY <1>11, <1>t, <1>l, <1>b, <2>1, SnapshotQuiet DEF Reconcile
  <2>2. CASE ~Leave(r)
    <3>1. /\ \A q \in Run \ {r} : /\ pc'[q] = pc[q] /\ op'[q] = op[q]
                                  /\ claim'[q] = claim[q] /\ got'[q] = got[q]
          /\ pc'[r] = "record" /\ claim'[r].before = NoSnapshot
          /\ UNCHANGED <<lvars, calls, thread>>
      BY <1>11, <1>t, <2>2 DEF Reconcile, Goto, NoRow
    <3> QED BY <1>t, <1>b, <3>1, SnapshotQuiet
  <2> QED BY <2>1, <2>2
<1> QED
  BY <1>1, <1>2, <1>3, <1>4, <1>5, <1>6, <1>7, <1>8, <1>9, <1>10, <1>11 DEF Step

LEMMA SnapshotOutside ==
  ASSUME TypeOK, OwnerInv, SnapshotInv, Outside
  PROVE  SnapshotInv'
<1>t. LedgerTypeOK /\ Len(thread) \in Nat /\ op \in [Run -> Op \cup {NoOp}]
      /\ (\A k \in Op : sent[k].before \in Nat)
      /\ (\A r \in Run : claim[r].before \in Nat /\ got[r] \in Nat)
  BY OpAssumption DEF TypeOK, LedgerTypeOK, Row
<1>post. ASSUME NEW e \in Entry, Post(e), e.op # Earlier, UNCHANGED <<sent, calls, rvars>>,
                \A k \in Op : e.op = k => calls[k] = 1
         PROVE  SnapshotInv'
  <2>1. \A n \in Nat : Known(n) => Known(n)'
    BY <1>t, <1>post, TypePost DEF Known
  <2>2. ASSUME NEW k \in Op, calls[k] = 1, NEW m \in Posted(k)'
        PROVE  m > sent[k].before
    <3>1. m \in Posted(k) \/ m = Len(thread) + 1
      BY <1>post, PostSets
    <3>2. sent[k].before <= Len(thread)
      BY <2>2 DEF SnapshotInv, Known
    <3> QED BY <1>t, <2>2, <3>1, <3>2 DEF SnapshotInv
  <2> QED BY <1>t, <1>post, <2>1, <2>2 DEF SnapshotInv, rvars
<1>1. ASSUME NEW k \in Op, Land(k) PROVE SnapshotInv'
  <2>1. /\ Reply(k) \in Entry /\ Post(Reply(k)) /\ Reply(k).op = k
        /\ UNCHANGED <<sent, calls, rvars>>
    BY <1>1 DEF Land, Entry, Reply, lvars
  <2>2. k # Earlier /\ calls[k] = 1
    BY <1>1, OpAssumption DEF Land, OwnerInv
  <2> QED BY <2>1, <2>2, <1>post
<1>2. ASSUME NEW k \in Op, Refuse(k) PROVE SnapshotInv'
  BY <1>2 DEF Refuse, SnapshotInv, Known, Posted, lvars, rvars
<1>3. CASE SomebodyWrites
  <2>1. PICK e \in {Buyer} \cup {Elsewhere(t) : t \in Console} : Post(e)
    BY <1>3 DEF SomebodyWrites
  <2>2. e \in Entry /\ e.op = NoOp
    BY DEF Entry, Buyer, Elsewhere
  <2>3. UNCHANGED <<sent, calls, rvars>>
    BY <1>3 DEF SomebodyWrites, lvars
  <2> QED BY <2>1, <2>2, <2>3, <1>post, OpAssumption
<1>4. CASE Sync
  BY <1>4 DEF Sync, Ingest, SnapshotInv, Known, Posted, pvars, rvars
<1> QED BY <1>1, <1>2, <1>3, <1>4 DEF Outside

LEMMA SnapshotNext == TypeOK /\ OwnerInv /\ SnapshotInv /\ [Next]_vars => SnapshotInv'
<1>1. ASSUME SnapshotInv, UNCHANGED vars PROVE SnapshotInv'
  BY <1>1 DEF SnapshotInv, Known, Posted, vars, lvars, pvars, rvars
<1> QED BY <1>1, SnapshotStep, SnapshotOutside DEF Next

\* Whatever was lost on the way, a reply that is on its way or on the platform
\* is told apart from everything that was there before its call.
THEOREM DeliveryRecoverable == Spec => []DeliveredRecoverable
<1>1. OwnerInv /\ SnapshotInv => DeliveredRecoverable
  BY DEF OwnerInv, SnapshotInv, DeliveredRecoverable
<1> QED
  BY <1>1, TypeInit, TypeNext, OwnerInit, OwnerNext, SnapshotInit, SnapshotNext, PTL
  DEF Spec

-----------------------------------------------------------------------------
(* What was reviewed *)

LEMMA ReviewInit == Init => ReviewInv
BY DEF Init, ReviewInv

LEMMA ReviewNext ==
  TypeOK /\ SnapshotInv /\ ReviewInv /\ [Next]_vars => ReviewInv'
<1> SUFFICES ASSUME TypeOK, SnapshotInv, ReviewInv, [Next]_vars PROVE ReviewInv'
  OBVIOUS
<1>t. /\ pc \in [Run -> PC] /\ got \in [Run -> 0..MaxThread]
      /\ seen \in [Run -> 0..MaxThread] /\ Len(thread) \in Nat
  BY DEF TypeOK
<1>1. ASSUME NEW r \in Run, Step(r) PROVE ReviewInv'
  <2>1. Buyers' = Buyers
    BY <1>1 DEF Step, Begin, Lookup, Read, ReadFails, ReleaseClaim, Preflight,
                PreflightFails, Call, Answer, CallFails, Readback, Reconcile, Record,
                Crash, pvars, Buyers
  <2>2. \A q \in Run \ {r} : UNCHANGED <<pc[q], got[q], seen[q]>>
    BY <1>1, <1>t DEF Step, Begin, Lookup, Read, ReadFails, ReleaseClaim, Preflight,
                PreflightFails, Call, Answer, CallFails, Readback, Reconcile, Record,
                Crash, Abandon, Leave, Goto
  <2>3. CASE Read(r)
    <3>1. pc'[r] = "preflight" => \A m \in Buyers : m <= seen[r]
      BY <1>t, <2>3 DEF Read, Goto, Stale, Buyers
    <3>2. pc'[r] \in {"preflight", "release"} /\ seen'[r] = seen[r]
      BY <1>t, <2>3 DEF Read, Goto
    <3> QED BY <2>1, <2>2, <3>1, <3>2 DEF ReviewInv
  <2>4. CASE pc'[r] = "send" /\ pc[r] = "preflight" /\ UNCHANGED <<got, seen>>
    BY <2>1, <2>2, <2>4 DEF ReviewInv
  <2>5. CASE pc'[r] \notin {"preflight", "send"}
    BY <2>1, <2>2, <2>5 DEF ReviewInv
  <2>6. \/ Read(r)
        \/ pc'[r] = "send" /\ pc[r] = "preflight" /\ UNCHANGED <<got, seen>>
        \/ pc'[r] \notin {"preflight", "send"}
    BY <1>1, <1>t DEF Step, Begin, Lookup, ReadFails, ReleaseClaim, Preflight,
                PreflightFails, Call, Answer, CallFails, Readback, Reconcile, Record,
                Crash, Abandon, Leave, Goto, At
  <2> QED BY <2>3, <2>4, <2>5, <2>6
<1>post. ASSUME NEW e \in Entry, Post(e), UNCHANGED rvars PROVE ReviewInv'
  <2>1. \A m \in Buyers' : m \in Buyers \/ m = Len(thread) + 1
    BY <1>post, PostSets
  <2>2. \A r \in Run : pc[r] \in {"preflight", "send"} => got[r] <= Len(thread)
    BY DEF SnapshotInv, Known
  <2> QED BY <1>t, <1>post, <2>1, <2>2 DEF ReviewInv, rvars
<1>2. ASSUME NEW k \in Op, Land(k) PROVE ReviewInv'
  <2>1. Reply(k) \in Entry
    BY DEF Entry
  <2> QED BY <1>2, <1>post, <2>1 DEF Land
<1>3. CASE SomebodyWrites
  <2>1. \A e \in {Buyer} \cup {Elsewhere(t) : t \in Console} : e \in Entry
    BY DEF Entry
  <2> QED BY <1>3, <1>post, <2>1 DEF SomebodyWrites
<1>4. CASE UNCHANGED <<thread, rvars>>
  BY <1>4 DEF ReviewInv, Buyers, rvars
<1>5. Outside => \/ \E k \in Op : Land(k)
                 \/ SomebodyWrites
                 \/ UNCHANGED <<thread, rvars>>
  BY DEF Outside, Refuse, Sync, pvars
<1>6. UNCHANGED vars => UNCHANGED <<thread, rvars>>
  BY DEF vars, pvars
<1> QED BY <1>1, <1>2, <1>3, <1>4, <1>5, <1>6 DEF Next

\* Between the check of a thread and the call nothing undoes the check or
\* replaces the stored snapshot.
THEOREM CallReviewed == Spec => CallOnReviewedThread
<1>1. ASSUME TypeOK, SnapshotInv, ReviewInv, [Next]_vars
      PROVE  [\A r \in Run : At(r, "send") /\ pc'[r] = "wait" =>
                /\ sent[op[r]].before = got[r]
                /\ \A m \in Buyers : m <= got[r] => m <= seen[r]]_vars
  BY <1>1 DEF SnapshotInv, ReviewInv, At
<1> QED
  BY <1>1, TypeInit, TypeNext, OwnerInit, OwnerNext, SnapshotInit, SnapshotNext,
     ReviewInit, ReviewNext, PTL DEF Spec, CallOnReviewedThread

-----------------------------------------------------------------------------
(* What a recorded reply names *)

LEMMA NameInit == Init => NameInv /\ RecordedOnce
BY DEF Init, LedgerInit, NameInv, RecordedOnce, NoRow

\* A message keeps its name while the thread grows.
LEMMA NamedKept ==
  ASSUME TypeOK, UNCHANGED platform,
         UNCHANGED thread \/ \E e \in Entry : Post(e)
  PROVE  \A k \in Op : \A m : Named(k, m) => Named(k, m)'
<1>1. CASE UNCHANGED thread
  BY <1>1 DEF Named
<1>2. ASSUME NEW e \in Entry, Post(e)
      PROVE  \A k \in Op : \A m : Named(k, m) => Named(k, m)'
  <2>1. /\ Len(thread) \in Nat /\ Len(thread') = Len(thread) + 1
        /\ \A m \in 1..Len(thread) : thread'[m] = thread[m]
    BY <1>2, TypePost DEF TypeOK
  <2> QED BY <2>1 DEF Named
<1> QED BY <1>1, <1>2

\* A match beyond a known length was not there before the reply.
LEMMA MatchNamed ==
  ASSUME TypeOK, NEW k \in Op, NEW lo \in Nat, NEW hi, NEW m \in Newest(Matches(k, lo, hi)),
         platform = "mercari" => Known(lo)
  PROVE  Named(k, m)
BY DEF Newest, Matches, Known, Named, TypeOK

LEMMA RowsNamed ==
  ASSUME LedgerTypeOK, NEW k \in Op
  PROVE  /\ \A n : RecordPreflight(k, n) => \A j \in Op :
              sent'[j].status = sent[j].status /\ sent'[j].msg = sent[j].msg
         /\ Claim(k) \/ MarkAmbiguous(k) \/ Release(k) => \A j \in Op :
              sent'[j].status = "sent" => sent'[j] = sent[j]
         /\ \A i, m : Finalize(k, i, m) => \A j \in Op :
              \/ sent'[j] = sent[j]
              \/ j = k /\ Recordable(k, m) /\ sent'[k].msg = m
<1> USE DEF LedgerTypeOK, Row
<1>1. ASSUME NEW n, RecordPreflight(k, n)
      PROVE  \A j \in Op : sent'[j].status = sent[j].status /\ sent'[j].msg = sent[j].msg
  BY <1>1 DEF RecordPreflight
<1>2. ASSUME Claim(k) \/ MarkAmbiguous(k) \/ Release(k)
      PROVE  \A j \in Op : sent'[j].status = "sent" => sent'[j] = sent[j]
  BY <1>2 DEF Claim, MarkAmbiguous, Release, NoRow
<1>3. ASSUME NEW i, NEW m, Finalize(k, i, m)
      PROVE  \A j \in Op : \/ sent'[j] = sent[j]
                           \/ j = k /\ Recordable(k, m) /\ sent'[k].msg = m
  BY <1>3 DEF Finalize
<1> QED BY <1>1, <1>2, <1>3

LEMMA NameStep ==
  ASSUME TypeOK, OwnerInv, SnapshotInv, NameInv, NEW r \in Run, Step(r)
  PROVE  NameInv'
<1>t. /\ pc \in [Run -> PC] /\ op \in [Run -> Op \cup {NoOp}]
      /\ msg \in [Run -> 0..MaxThread] /\ LedgerTypeOK /\ Len(thread) \in Nat
      /\ pc[r] # "idle" => op[r] \in Op
      /\ claim[r].before \in Nat /\ got[r] \in Nat
  BY OpAssumption DEF TypeOK, Row
<1>same. UNCHANGED <<thread, platform>> => \A k, m : Named(k, m)' <=> Named(k, m)
  BY DEF Named
<1>f. UNCHANGED <<thread, platform>>
  BY DEF Step, Begin, Lookup, Read, ReadFails, ReleaseClaim, Preflight, PreflightFails,
         Call, Answer, CallFails, Readback, Reconcile, Record, Crash, pvars
<1>o. \A q \in Run \ {r} : UNCHANGED <<pc[q], op[q], msg[q]>>
  BY <1>t DEF Step, Begin, Lookup, Read, ReadFails, ReleaseClaim, Preflight,
         PreflightFails, Call, Answer, CallFails, Readback, Reconcile, Record,
         Crash, Abandon, Leave, Goto
<1>rows. ASSUME NEW k \in Op, sent'[k].status = "sent"
         PROVE  Named(k, sent'[k].msg)
  <2>1. CASE Record(r)
    <3>1. At(r, "record") /\ op[r] \in Op /\ Finalize(op[r], Intent[op[r]], msg[r])
      BY <1>t, <2>1 DEF Record, At
    <3>2. sent'[k] = sent[k] \/ (k = op[r] /\ sent'[k].msg = msg[r])
      BY <1>t, <3>1, RowsNamed
    <3> QED BY <1>rows, <3>1, <3>2 DEF NameInv, At
  <2>2. CASE ~Record(r)
    <3>1. \/ UNCHANGED sent
          \/ \E j \in Op : Claim(j) \/ MarkAmbiguous(j) \/ Release(j)
          \/ \E j \in Op, n \in Nat : RecordPreflight(j, n)
      BY <1>t, <2>2 DEF Step, Begin, Lookup, Read, ReadFails, ReleaseClaim, Preflight,
         PreflightFails, Call, Answer, CallFails, Readback, Reconcile, Crash,
         At, lvars
    <3>2. sent[k].status = "sent" /\ sent'[k].msg = sent[k].msg
      BY <1>t, <1>rows, <3>1, RowsNamed
    <3> QED BY <3>2 DEF NameInv
  <2> QED BY <2>1, <2>2
<1> USE DEF At
<1>msg. pc'[r] = "record" => Named(op'[r], msg'[r])
  <2>1. CASE Answer(r) /\ pc'[r] = "record"
    <3>1. PICK m \in Posted(op[r]) : \E n \in m..Len(thread) :
            /\ platform = "mercari"
            /\ \E s \in Newest(Sellers(n)) : msg' = [msg EXCEPT ![r] = s]
      BY <1>t, <2>1 DEF Answer, Goto
    <3>2. PICK n \in m..Len(thread), s \in 1..Len(thread) :
            s \in Newest(Sellers(n)) /\ msg' = [msg EXCEPT ![r] = s]
      BY <3>1 DEF Newest, Sellers
    <3>3. m \in 1..Len(thread) /\ thread[m] \in Entry /\ thread[m].op = op[r]
      BY <3>1 DEF Posted, TypeOK
    <3>4. m \in Sellers(n)
      BY <1>t, <2>1, <3>2, <3>3, EntryKind DEF Answer, Sellers
    <3>5. thread[s].role = "seller" /\ m <= s
      BY <3>2, <3>4 DEF Newest, Sellers
    <3>6. /\ op[r] \in Op /\ calls[op[r]] = 1
          /\ Known(sent[op[r]].before) /\ m > sent[op[r]].before
      BY <1>t, <2>1, <3>1 DEF Answer, OwnerInv, SnapshotInv
    <3>7. thread[s].op # Earlier
      <4>1. sent[op[r]].before \in Nat
        BY <1>t, <3>6, RowType, OpAssumption
      <4> QED BY <3>2, <3>3, <3>5, <3>6, <4>1 DEF Known
    <3>8. op'[r] = op[r] /\ msg'[r] = s
      BY <1>t, <2>1, <3>2 DEF Answer
    <3> QED BY <3>1, <3>2, <3>5, <3>7, <3>8 DEF Named
  <2>2. CASE Readback(r) /\ pc'[r] = "record"
    <3>1. PICK n : \E m \in Newest(Matches(op[r], got[r], n)) : msg' = [msg EXCEPT ![r] = m]
      BY <1>t, <2>2 DEF Readback, Leave, Goto
    <3>2. PICK m \in Newest(Matches(op[r], got[r], n)) : msg' = [msg EXCEPT ![r] = m]
      BY <3>1
    <3>3. op'[r] = op[r] /\ msg'[r] = m
      BY <1>t, <2>2, <3>2 DEF Readback, Leave, Goto
    <3>4. Known(got[r]) /\ op[r] \in Op
      BY <1>t, <2>2 DEF Readback, SnapshotInv
    <3> QED BY <1>t, <3>2, <3>3, <3>4, MatchNamed
  <2>3. CASE Reconcile(r) /\ pc'[r] = "record"
    <3>1. PICK w \in 0..Len(thread) :
            /\ ~(platform = "mercari" /\ claim[r].before = NoSnapshot)
            /\ UNCHANGED op
            /\ \E m \in Newest(Matches(op[r], Unseen(r, w), Len(thread))) :
                 msg' = [msg EXCEPT ![r] = m]
      BY <1>t, <2>3 DEF Reconcile, Leave, Goto
    <3>2. PICK m \in Newest(Matches(op[r], Unseen(r, w), Len(thread))) :
            msg' = [msg EXCEPT ![r] = m]
      BY <3>1
    <3>3. /\ op'[r] = op[r] /\ msg'[r] = m /\ op[r] \in Op
      BY <1>t, <2>3, <3>1, <3>2 DEF Reconcile
    <3>4. Unseen(r, w) \in Nat /\ (platform = "mercari" => Known(Unseen(r, w)))
      BY <1>t, <3>1 DEF Unseen, SnapshotInv
    <3> QED BY <3>2, <3>3, <3>4, MatchNamed
  <2>4. pc'[r] = "record" => Answer(r) \/ Readback(r) \/ Reconcile(r)
    BY <1>t DEF Step, Begin, Lookup, Read, ReadFails, ReleaseClaim, Preflight,
         PreflightFails, Call, CallFails, Record, Crash, Abandon, Leave, Goto
  <2> QED BY <2>1, <2>2, <2>3, <2>4
<1> QED BY <1>f, <1>same, <1>o, <1>rows, <1>msg DEF NameInv

LEMMA NameOutside ==
  ASSUME TypeOK, NameInv, Outside
  PROVE  NameInv'
<1>t. LedgerTypeOK /\ \A r \in Run : pc[r] # "idle" => op[r] \in Op
  BY DEF TypeOK
<1>1. /\ UNCHANGED <<sent, platform, rvars>>
      /\ UNCHANGED thread \/ \E e \in Entry : Post(e)
  BY DEF Outside, Land, Refuse, SomebodyWrites, Sync, Ingest, lvars, pvars, Entry
<1>2. \A k \in Op : \A m : Named(k, m) => Named(k, m)'
  BY <1>1, NamedKept
<1> QED BY <1>t, <1>1, <1>2 DEF NameInv, rvars

LEMMA NameNext ==
  TypeOK /\ OwnerInv /\ SnapshotInv /\ NameInv /\ [Next]_vars => NameInv'
<1>1. ASSUME NameInv, UNCHANGED vars PROVE NameInv'
  BY <1>1 DEF NameInv, Named, vars, lvars, pvars, rvars
<1> QED BY <1>1, NameStep, NameOutside DEF Next

\* A reply recorded as sent names a message with its text, on Mercari one that
\* came after the reply was confirmed.
THEOREM SentNames == Spec => []SentNamesReply
<1>1. NameInv => SentNamesReply
  BY DEF NameInv, Named, SentNamesReply
<1> QED
  BY <1>1, TypeInit, TypeNext, OwnerInit, OwnerNext, SnapshotInit, SnapshotNext,
     NameInit, NameNext, PTL DEF Spec

-----------------------------------------------------------------------------
(* The ticket's timeline *)

\* The ledger actions of a step, by what they do to claims on messages.
LEMMA LedgerActions ==
  ASSUME TypeOK, Next
  PROVE  \/ UNCHANGED lvars
         \/ \E k \in Op : Claim(k) \/ MarkAmbiguous(k) \/ Release(k)
         \/ \E k \in Op, n \in Nat : RecordPreflight(k, n)
         \/ \E k \in Op, m \in Nat : Finalize(k, Intent[k], m)
         \/ \E S \in SUBSET Message, C \in SUBSET Nat : Ingest(S, C)
<1>1. ASSUME NEW r \in Run, Step(r)
      PROVE  \/ UNCHANGED lvars
             \/ \E k \in Op : Claim(k) \/ MarkAmbiguous(k) \/ Release(k)
             \/ \E k \in Op, n \in Nat : RecordPreflight(k, n)
             \/ \E k \in Op, m \in Nat : Finalize(k, Intent[k], m)
  <2>1. /\ pc[r] # "idle" => op[r] \in Op
        /\ got[r] \in Nat /\ msg[r] \in Nat
    BY OpAssumption DEF TypeOK
  <2> QED
    BY <1>1, <2>1 DEF Step, Begin, Lookup, Read, ReadFails, ReleaseClaim, Preflight,
       PreflightFails, Call, Answer, CallFails, Readback, Reconcile, Record, Crash, At
<1>2. ASSUME Outside
      PROVE  \/ UNCHANGED lvars
             \/ \E S \in SUBSET Message, C \in SUBSET Nat : Ingest(S, C)
  <2>1. /\ \A n \in 1..Len(thread) : 1..n \in SUBSET Message
        /\ \A m \in Buyers : {m} \in SUBSET Message
        /\ Buyers \in SUBSET Nat
    BY OpAssumption DEF TypeOK, Message, Buyers
  <2> QED BY <1>2, <2>1 DEF Outside, Land, Refuse, SomebodyWrites, Sync
<1> QED BY <1>1, <1>2 DEF Next

LEMMA RecordedNext == TypeOK /\ RecordedOnce /\ [Next]_vars => RecordedOnce'
<1> SUFFICES ASSUME TypeOK, RecordedOnce, [Next]_vars PROVE RecordedOnce'
  OBVIOUS
<1>t. LedgerTypeOK
  BY DEF TypeOK
<1>1. CASE UNCHANGED <<sent, inbound>>
  BY <1>1 DEF RecordedOnce
<1>2. ASSUME NEW k \in Op, Claim(k) \/ MarkAmbiguous(k) \/ Release(k)
      PROVE  RecordedOnce'
  <2>1. /\ UNCHANGED inbound
        /\ \A j \in Op : sent'[j].msg \in {sent[j].msg, 0}
    BY <1>t, <1>2 DEF Claim, MarkAmbiguous, Release, NoRow, LedgerTypeOK, Row
  <2> QED BY <1>t, <2>1 DEF RecordedOnce
<1>3. ASSUME NEW k \in Op, NEW n \in Nat, RecordPreflight(k, n)
      PROVE  RecordedOnce'
  <2>1. UNCHANGED inbound
    BY <1>3 DEF RecordPreflight
  <2> QED BY <1>t, <1>3, <2>1, RowsNamed DEF RecordedOnce
<1>4. ASSUME NEW k \in Op, NEW m \in Nat, Finalize(k, Intent[k], m)
      PROVE  RecordedOnce'
  <2>1. UNCHANGED inbound
    BY <1>4 DEF Finalize
  <2>2. CASE sent' = sent
    BY <2>1, <2>2, <1>1
  <2>3. CASE sent' # sent
    <3>1. /\ m \notin inbound /\ \A j \in Op : sent[j].msg # m
          /\ sent'[k].msg = m /\ \A j \in Op \ {k} : sent'[j] = sent[j]
      BY <1>t, <1>4, <2>3 DEF Finalize, Recordable, Taken, LedgerTypeOK, Row
    <3> QED BY <2>1, <3>1 DEF RecordedOnce
  <2> QED BY <2>2, <2>3
<1>5. ASSUME NEW S \in SUBSET Message, NEW C \in SUBSET Nat, Ingest(S, C)
      PROVE  RecordedOnce'
  BY <1>5 DEF Ingest, Taken, RecordedOnce
<1> QED BY <1>1, <1>2, <1>3, <1>4, <1>5, LedgerActions DEF vars, lvars

\* No platform message stands for two entries of the timeline.
THEOREM RecordedCorrect == Spec => []RecordedOnce
<1> QED BY TypeInit, TypeNext, NameInit, RecordedNext, PTL DEF Spec

\* A recorded reply names its own message, which is in the timeline once.
THEOREM RecordsCorrect == Spec => []RecordsTrue
<1>1. SentNamesReply /\ RecordedOnce => RecordsTrue
  BY DEF RecordsTrue
<1> QED BY <1>1, SentNames, RecordedCorrect, PTL

\* Only the first recording of a terminal reply lowers needs_reply.
THEOREM ClearedCorrect == Spec => ClearedByTerminalReply
<1>1. ASSUME TypeOK, [Next]_vars
      PROVE  [needs /\ ~needs' => \E k \in Op : /\ Intent[k] = "terminal"
                                                /\ sent[k].status # "sent"
                                                /\ sent'[k].status = "sent"]_vars
  <2> SUFFICES ASSUME Next, needs, ~needs'
               PROVE  \E k \in Op : /\ Intent[k] = "terminal"
                                    /\ sent[k].status # "sent"
                                    /\ sent'[k].status = "sent"
    BY <1>1
  <2>1. PICK k \in Op, m \in Nat : Finalize(k, Intent[k], m)
    BY <1>1, LedgerActions
       DEF lvars, Claim, MarkAmbiguous, Release, RecordPreflight, Ingest
  <2>2. Recordable(k, m) /\ Intent[k] = "terminal"
    BY <2>1 DEF Finalize
  <2> QED
    BY <1>1, <2>1, <2>2 DEF Finalize, Recordable, TypeOK, LedgerTypeOK, Row
<1> QED BY <1>1, TypeInit, TypeNext, PTL DEF Spec, ClearedByTerminalReply

-----------------------------------------------------------------------------
(* Refinement of SubmissionPermits *)

PermitsOf(k) == Cardinality(Holders(k)) + Bit(sent[k].status = "none")
Callable(k) == Holders(k) # {} \/ sent[k].status = "none"

\* There is at most one owner and it excludes a free row.
PermitsInv == \A k \in Op : PermitsOf(k) = IF Callable(k) THEN 1 ELSE 0

LEMMA PermitsValue == TypeOK /\ OwnerInv => PermitsInv
<1> SUFFICES ASSUME TypeOK, OwnerInv, NEW k \in Op
             PROVE  PermitsOf(k) = IF Callable(k) THEN 1 ELSE 0
  BY DEF PermitsInv
<1>1. CASE Holders(k) = {}
  BY <1>1, FS_EmptySet DEF PermitsOf, Callable, Bit
<1>2. ASSUME NEW r \in Holders(k)
      PROVE  PermitsOf(k) = 1
  <2>1. r \in Run /\ Holders(k) = {r}
    BY <1>2 DEF OwnerInv, Holders
  <2>2. Cardinality(Holders(k)) = 1
    BY <2>1, FS_Singleton
  <2>3. sent[k].status # "none"
    BY <1>2, <2>1 DEF OwnerInv
  <2> QED BY <2>2, <2>3 DEF PermitsOf, Bit
<1> QED BY <1>1, <1>2 DEF Callable

\* A step that makes nothing callable keeps the permits or loses one.
LEMMA MapLose ==
  ASSUME PermitsInv, PermitsInv', NEW k \in Op, UNCHANGED calls,
         \A j \in Op \ {k} : Callable(j)' <=> Callable(j),
         Callable(k)' => Callable(k)
  PROVE  Permits!PNext \/ UNCHANGED Permits!pvars
<1>1. \A j \in Op \ {k} : PermitsOf(j)' = PermitsOf(j)
  BY DEF PermitsInv
<1>2. CASE Callable(k)' <=> Callable(k)
  <2>1. \A j \in Op : PermitsOf(j)' = PermitsOf(j)
    BY <1>1, <1>2 DEF PermitsInv
  <2> QED BY <2>1 DEF Permits!pvars, PermitsOf
<1>3. CASE Callable(k) /\ ~Callable(k)'
  <2>1. PermitsOf(k) > 0 /\ PermitsOf(k)' = PermitsOf(k) - 1
    BY <1>3 DEF PermitsInv
  <2>2. Permits!Lose(k)
    BY <1>1, <2>1 DEF Permits!Lose, PermitsOf
  <2> QED BY <2>2 DEF Permits!PNext
<1> QED BY <1>2, <1>3

LEMMA MapSubmit ==
  ASSUME PermitsInv, PermitsInv', NEW k \in Op, calls' = [calls EXCEPT ![k] = @ + 1],
         \A j \in Op \ {k} : Callable(j)' <=> Callable(j),
         Callable(k) /\ ~Callable(k)'
  PROVE  Permits!PNext
<1>1. \A j \in Op \ {k} : PermitsOf(j)' = PermitsOf(j)
  BY DEF PermitsInv
<1>2. PermitsOf(k) > 0 /\ PermitsOf(k)' = PermitsOf(k) - 1
  BY DEF PermitsInv
<1>3. Permits!Submit(k)
  BY <1>1, <1>2 DEF Permits!Submit, PermitsOf
<1> QED BY <1>3 DEF Permits!PNext

\* A step of r for reply k: the other replies stay as callable as they were.
LEMMA OthersCallable ==
  ASSUME TypeOK, NEW r \in Run, NEW k \in Op,
         \A q \in Run \ {r} : pc'[q] = pc[q] /\ op'[q] = op[q],
         op[r] \in {k, NoOp}, op'[r] \in {k, NoOp},
         \A j \in Op \ {k} : sent'[j].status = sent[j].status
  PROVE  \A j \in Op \ {k} : Callable(j)' <=> Callable(j)
BY OpAssumption DEF Callable, Holders

LEMMA RowOfOthers ==
  ASSUME LedgerTypeOK, NEW k \in Op,
         \/ Claim(k) \/ MarkAmbiguous(k) \/ Release(k) \/ UNCHANGED lvars
         \/ (\E n : RecordPreflight(k, n)) \/ \E i, m : Finalize(k, i, m)
  PROVE  \A j \in Op \ {k} : sent'[j] = sent[j]
BY DEF Claim, MarkAmbiguous, Release, RecordPreflight, Finalize, lvars, LedgerTypeOK

LEMMA RefineRun ==
  ASSUME TypeOK, TypeOK', OwnerInv, PermitsInv, PermitsInv', NEW r \in Run, Step(r)
  PROVE  Permits!PNext \/ UNCHANGED Permits!pvars
<1>t. /\ pc \in [Run -> PC] /\ op \in [Run -> Op \cup {NoOp}]
      /\ LedgerTypeOK /\ calls \in [Op -> Nat]
      /\ pc[r] # "idle" => op[r] \in Op
  BY DEF TypeOK
<1> USE DEF At, pvars
<1>1. ASSUME NEW k \in Op, NEW s \in 0..MaxThread, Begin(r, k, s)
      PROVE  Permits!PNext \/ UNCHANGED Permits!pvars
  <2>1. /\ \A q \in Run \ {r} : pc'[q] = pc[q] /\ op'[q] = op[q]
        /\ op'[r] = k /\ pc[r] = "idle" /\ UNCHANGED calls
        /\ Claim(k) \/ (UNCHANGED lvars /\ pc'[r] = "lookup")
    BY <1>1, <1>t DEF Begin, Goto
  <2>2. \A j \in Op \ {k} : Callable(j)' <=> Callable(j)
    <3>1. \A j \in Op \ {k} : sent'[j] = sent[j]
      BY <1>t, <2>1, RowOfOthers
    <3> QED BY <2>1, <3>1 DEF Callable, Holders
  <2>3. Callable(k)' => Callable(k)
    BY <2>1 DEF Claim, Callable, Holders, lvars
  <2> QED BY <2>1, <2>2, <2>3, MapLose
<1>2. CASE Call(r)
  <2>1. /\ \A q \in Run \ {r} : pc'[q] = pc[q] /\ op'[q] = op[q]
        /\ op[r] \in Op /\ op'[r] = op[r] /\ pc[r] = "send" /\ pc'[r] = "wait"
        /\ calls' = [calls EXCEPT ![op[r]] = @ + 1] /\ UNCHANGED sent
    BY <1>2, <1>t DEF Call, Goto, lvars
  <2>2. \A j \in Op \ {op[r]} : Callable(j)' <=> Callable(j)
    BY <2>1, OthersCallable
  <2>3. r \in Holders(op[r])
    BY <2>1 DEF Holders
  <2>4. Holders(op[r])' = {} /\ sent'[op[r]].status # "none"
    BY <2>1, <2>3 DEF OwnerInv, Holders
  <2> QED BY <2>1, <2>2, <2>3, <2>4, MapSubmit DEF Callable
<1>3. ASSUME Lookup(r) \/ Read(r) \/ ReadFails(r) \/ ReleaseClaim(r) \/ Preflight(r)
              \/ PreflightFails(r) \/ Answer(r) \/ CallFails(r) \/ Readback(r)
              \/ Reconcile(r) \/ Record(r) \/ Crash(r)
      PROVE  Permits!PNext \/ UNCHANGED Permits!pvars
  <2>k. PICK k \in Op : k = op[r]
    BY <1>3, <1>t DEF Lookup, Read, ReadFails, ReleaseClaim, Preflight, PreflightFails,
       Answer, CallFails, Readback, Reconcile, Record, Crash
  <2>1. /\ \A q \in Run \ {r} : pc'[q] = pc[q] /\ op'[q] = op[q]
        /\ op[r] = k /\ op'[r] \in {k, NoOp} /\ UNCHANGED calls
    BY <1>3, <1>t, <2>k DEF Lookup, Read, ReadFails, ReleaseClaim, Preflight, PreflightFails,
       Answer, CallFails, Readback, Reconcile, Record, Crash, Abandon, Leave, Goto
  <2>2. pc'[r] \in Owning => pc[r] \in Owning
    BY <1>3, <1>t DEF Lookup, Read, ReadFails, ReleaseClaim, Preflight, PreflightFails,
       Answer, CallFails, Readback, Reconcile, Record, Crash, Abandon, Leave, Goto, Owning
  <2>3. \/ UNCHANGED lvars
        \/ MarkAmbiguous(k)
        \/ Release(k) /\ pc[r] = "release"
        \/ \E n : RecordPreflight(k, n)
        \/ \E i, m : Finalize(k, i, m)
    BY <1>3, <2>k DEF Lookup, Read, ReadFails, ReleaseClaim, Preflight, PreflightFails,
       Answer, CallFails, Readback, Reconcile, Record, Crash
  <2>4. \A j \in Op \ {k} : Callable(j)' <=> Callable(j)
    <3>1. \A j \in Op \ {k} : sent'[j] = sent[j]
      BY <1>t, <2>1, <2>3, RowOfOthers
    <3> QED BY <2>1, <3>1, OthersCallable
  <2>5. \/ sent'[k].status = "none" => sent[k].status = "none"
        \/ pc[r] = "release"
    BY <1>t, <2>1, <2>3, StatusKept DEF lvars
  <2>6. Callable(k)' => Callable(k)
    <3>1. Holders(k)' \subseteq Holders(k)
      BY <2>1, <2>2 DEF Holders, Owning
    <3>2. pc[r] = "release" => r \in Holders(k)
      BY <2>1 DEF Holders
    <3> QED BY <2>5, <3>1, <3>2 DEF Callable
  <2> QED BY <2>1, <2>4, <2>6, MapLose
<1> QED BY <1>1, <1>2, <1>3 DEF Step

LEMMA RefineNext ==
  TypeOK /\ TypeOK' /\ OwnerInv /\ PermitsInv /\ PermitsInv' /\ [Next]_vars
    => [Permits!PNext]_(Permits!pvars)
<1> SUFFICES ASSUME TypeOK, TypeOK', OwnerInv, PermitsInv, PermitsInv', [Next]_vars
             PROVE  Permits!PNext \/ UNCHANGED Permits!pvars
  OBVIOUS
<1>1. CASE UNCHANGED <<sent, calls, pc, op>>
  BY <1>1 DEF Permits!pvars, Holders
<1>2. Outside \/ UNCHANGED vars => UNCHANGED <<sent, calls, pc, op>>
  BY DEF Outside, Land, Refuse, SomebodyWrites, Sync, Ingest, vars, lvars, pvars, rvars
<1> QED BY <1>1, <1>2, RefineRun DEF Next

LEMMA RefineInit == Init => Permits!PInit
<1> SUFFICES ASSUME Init PROVE Permits!PInit
  OBVIOUS
<1>1. ASSUME NEW k \in Op PROVE PermitsOf(k) = 1
  <2>1. Holders(k) = {} /\ sent[k].status = "none"
    BY <1>1 DEF Init, LedgerInit, Holders, NoRow
  <2> QED BY <2>1, FS_EmptySet DEF PermitsOf, Bit
<1> QED BY <1>1 DEF Permits!PInit, PermitsOf, Init

\* The reply rows are a permit ledger that nobody tops up: a call consumes the
\* one permit of its reply, and every other end of an attempt at most loses it.
THEOREM RefinesPermits == Spec => ImplementsPermits
<1> QED
  BY TypeInit, TypeNext, OwnerInit, OwnerNext, PermitsValue, RefineInit, RefineNext, PTL
  DEF Spec, ImplementsPermits, Permits!PSpec
=============================================================================
