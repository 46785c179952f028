--------------------------- MODULE OperationLedger ---------------------------
(***************************************************************************)
(* The table external_operation_attempts and the three SQL functions that  *)
(* are its only writers: claim_external_operation,                         *)
(* finalize_external_operation and resolve_external_operation.  Each is    *)
(* one SQL statement on one row, so each is one atomic step here.          *)
(*                                                                         *)
(* A module that models a writer of an external effect EXTENDS this one    *)
(* and calls the actions below inside its own.                             *)
(***************************************************************************)
EXTENDS Naturals, FiniteSets

CONSTANTS Key,          \* operation_key: capability:platform:store:order:hash
          Run,          \* run_id of the worker invocations
          NoRun         \* run of a row that does not exist

ASSUME RunAssumption == IsFiniteSet(Run) /\ NoRun \notin Run

VARIABLES ledger,       \* the row of each key; status "NONE" is no row
          released      \* rows of external_operation_resolutions per key
                        \* whose outcome is NOT_APPLIED

lvars == <<ledger, released>>

Applied == {"CONFIRMED", "ALREADY_APPLIED"}
Open == {"RESERVED", "UNKNOWN_RESULT", "DEFINITIVE_FAILURE"}
Free == {"NONE", "RELEASED"}
Status == Applied \cup Open \cup Free
Terminal == Applied \cup {"UNKNOWN_RESULT", "DEFINITIVE_FAILURE"}
Row == [status : Status, run : Run \cup {NoRun}]

LedgerTypeOK == /\ ledger \in [Key -> Row]
                /\ released \in [Key -> Nat]

LedgerInit == /\ ledger = [k \in Key |-> [status |-> "NONE", run |-> NoRun]]
              /\ released = [k \in Key |-> 0]

\* INSERT ... ON CONFLICT DO UPDATE ... WHERE status = 'RELEASED': the claim
\* is won on a missing or released row and changes nothing on any other.
ClaimableAfterUnknown(k) == ledger[k].status \in Free \cup {"UNKNOWN_RESULT"} \* mutant
Claimable(k) == ledger[k].status \in Free

Claim(k, r) ==
  /\ ledger' = IF Claimable(k)
               THEN [ledger EXCEPT ![k] = [status |-> "RESERVED", run |-> r]]
               ELSE ledger
  /\ UNCHANGED released

\* UPDATE ... WHERE run_id = p_run_id AND status = 'RESERVED'.
Owns(k, r) == ledger[k] = [status |-> "RESERVED", run |-> r]

Finalize(k, r, s) ==
  /\ s \in Terminal
  /\ ledger' = IF Owns(k, r) THEN [ledger EXCEPT ![k].status = s] ELSE ledger
  /\ UNCHANGED released

\* Compare-and-set on the status the caller read, with an audit row in the
\* same transaction.  A conflict raises and rolls both back.
Resolvable(k, expected) == expected \in Open /\ ledger[k].status = expected

ResolveStoringOutcome(k, expected, outcome) ==                          \* mutant
  /\ Resolvable(k, expected)
  /\ ledger' = [ledger EXCEPT ![k].status = outcome]
  /\ UNCHANGED released

Resolve(k, expected, outcome) ==
  IF Resolvable(k, expected)
  THEN /\ ledger' = [ledger EXCEPT ![k].status =
                       IF outcome = "APPLIED" THEN "ALREADY_APPLIED" ELSE "RELEASED"]
       /\ released' = IF outcome = "APPLIED" THEN released
                      ELSE [released EXCEPT ![k] = @ + 1]
  ELSE UNCHANGED lvars
=============================================================================
