-------------------------- MODULE OrchestratorLease --------------------------
(***************************************************************************)
(* The single row of order_orchestrator_lease, the three SQL functions     *)
(* that write it, and the database clock.  Time is relative: the lease     *)
(* counts down to its expires_at, so the clock itself is unbounded.        *)
(***************************************************************************)
EXTENDS Naturals

CONSTANTS Run,          \* invocation slots, each used again and again
          NoRun,        \* holder of a lease row that does not exist
          Gone,         \* holder that has ended without releasing
          TTL           \* LEASE_TTL_SECONDS, in ticks

ASSUME LeaseAssumption == /\ NoRun \notin Run /\ Gone \notin Run /\ NoRun # Gone
                          /\ TTL \in Nat \ {0}

VARIABLES lease,        \* [run, left]: the row, and the time to expires_at
          own           \* own[r]: what is left of the TTL that run r was last
                        \* granted, whatever happened to the row since

leasevars == <<lease, own>>

LeaseTypeOK == /\ lease \in [run : Run \cup {NoRun, Gone}, left : 0..TTL]
               /\ own \in [Run -> 0..TTL]

Unleased == [run |-> NoRun, left |-> 0]

LeaseInit == lease = Unleased /\ own = [r \in Run |-> 0]

\* ON CONFLICT DO UPDATE ... WHERE expires_at <= now(): a missing row or an
\* expired one.  A run id acquires once, so re-entry never applies.
AcquirableNeverExpires == lease.run = NoRun                              \* mutant
Acquirable == lease.run = NoRun \/ lease.left = 0

Grant(r) == /\ lease' = [run |-> r, left |-> TTL]
            /\ own' = [own EXCEPT ![r] = TTL]

\* WHERE owner_id, run_id AND expires_at > now().
RenewableByAnyone(r) == lease.run # NoRun /\ lease.left > 0              \* mutant
Renewable(r) == lease.run = r /\ lease.left > 0

\* SET expires_at = now() + ttl.
RenewAdding == lease' = [lease EXCEPT !.left = @ + TTL]                  \* mutant
Renew == lease' = [lease EXCEPT !.left = TTL]

\* DELETE ... WHERE owner_id, run_id.
Release(r) == lease' = IF lease.run = r THEN Unleased ELSE lease

\* The run is over and left its row behind.
Abandon(r) == lease' = IF lease.run = r THEN [lease EXCEPT !.run = Gone] ELSE lease

Dec(n) == IF n = 0 THEN 0 ELSE n - 1

Pass == /\ lease.left > 0 \/ \E r \in Run : own[r] > 0
        /\ lease' = [lease EXCEPT !.left = Dec(@)]
        /\ own' = [r \in Run |-> Dec(own[r])]
=============================================================================
