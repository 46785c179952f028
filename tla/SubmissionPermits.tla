-------------------------- MODULE SubmissionPermits --------------------------
(***************************************************************************)
(* What the external-operation ledger promises to a marketplace, with no   *)
(* ledger in sight: every operation starts with one permit, each call made *)
(* to the marketplace consumes a permit, a permit can be lost (a crashed   *)
(* worker, a lost claim), and only an operator who has evidence that the   *)
(* call did not take effect can hand out another one.  No amount of        *)
(* retrying, crashing or waiting creates a permit.                         *)
(***************************************************************************)
EXTENDS Naturals

CONSTANT Key            \* operation keys

VARIABLES permits,      \* permits[k]: calls that may still be made
          granted,      \* granted[k]: permits handed out by an operator
          calls         \* calls[k]: calls made to the marketplace so far

pvars == <<permits, granted, calls>>

PInit == /\ permits = [k \in Key |-> 1]
         /\ granted = [k \in Key |-> 0]
         /\ calls = [k \in Key |-> 0]

\* A worker that holds a permit makes the marketplace call.
Submit(k) == /\ permits[k] > 0
             /\ permits' = [permits EXCEPT ![k] = @ - 1]
             /\ calls' = [calls EXCEPT ![k] = @ + 1]
             /\ UNCHANGED granted

\* The permit is gone and the call was never made.
Lose(k) == /\ permits[k] > 0
           /\ permits' = [permits EXCEPT ![k] = @ - 1]
           /\ UNCHANGED <<granted, calls>>

\* The operator found that the marketplace did not apply the operation.
Authorise(k) == /\ permits' = [permits EXCEPT ![k] = @ + 1]
                /\ granted' = [granted EXCEPT ![k] = @ + 1]
                /\ UNCHANGED calls

PNext == \E k \in Key : Submit(k) \/ Lose(k) \/ Authorise(k)

PSpec == PInit /\ [][PNext]_pvars
=============================================================================
