----------------------------- MODULE MCInquiry -----------------------------
\* Two invocations of the classification job over three rows, one of which
\* appears late, and two invocations on one thread.
EXTENDS InquiryPortal, TLC

\* The stored position of row 2 falls back to row 1: both are dated within one
\* second.
MCCursorOf == [i \in Row |-> IF i = 2 THEN 1 ELSE i]

\* Events, replies and a talkative buyer; then sends alone, with a second
\* message not ingested yet and a follow-up scheduled.
MCStarts ==
  { [buyer |-> 1, buyers |-> 3, messages |-> 3, events |-> 1, cycle |-> 0],
    [buyer |-> 2, buyers |-> 2, messages |-> 4, events |-> 0, cycle |-> 1] }

\* Only the thread half is reduced: the job half never touches Slot, and the
\* liveness property speaks of the job half alone.
SlotSymmetry == Permutations(Slot)
=============================================================================
