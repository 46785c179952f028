CONSTANTS
  k1 = k1
  k2 = k2
  Op = {k1, k2}
  NoOp = NoOp
  Earlier = Earlier
  Run = {r1, r2}
  MaxThread = 2
  Text <- MCText
  Console = {"other"}
  Intent <- MCIntent
SYMMETRY RunSymmetry
SPECIFICATION Spec
INVARIANTS TypeOK NeverSentTwice DeliveredRecoverable RecordsTrue
PROPERTIES CallOnReviewedThread ClearedByTerminalReply
