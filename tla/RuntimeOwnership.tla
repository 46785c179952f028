-------------------------- MODULE RuntimeOwnership --------------------------
(***************************************************************************)
(* Which uploaded version of a platform Worker may operate: the ownership  *)
(* row of one component, the leases its invocations hold, Cloudflare's     *)
(* routing, and the scripts that move a component to a new version or      *)
(* back.  Each RPC is one transaction; an answer may be lost, and a call   *)
(* the script gave up on may take effect at any later time.                *)
(*                                                                         *)
(* ROUTING_GENERATION is part of a version's configuration, so a           *)
(* generation is named by its version.  The first activation of a          *)
(* component ('none') is left out.  A Worker takes an intake lease for one *)
(* webhook; no transition looks at it, so intake is only a question.       *)
(***************************************************************************)
EXTENDS Integers, FiniteSets

CONSTANTS Version, First,   \* uploaded versions, the one in service at first
          NoVersion,        \* NULL
          Invocation,       \* invocations of the component's Worker
          MaxNonce,         \* bound: transitions begun
          MaxLost           \* bound: calls the deployer got no answer to

ASSUME RuntimeAssumption ==
  /\ First \in Version /\ NoVersion \notin Version
  /\ IsFiniteSet(Invocation)
  /\ MaxNonce \in Nat /\ MaxLost \in Nat

VARIABLES
  own,      \* the component's row of platform_runtime_ownership
  lease,    \* lease[i]: the version i's work lease names, or NoVersion
  works,    \* works[i]: i is inside its operation
  traffic,  \* the version Cloudflare routes to
  fresh,    \* versions not uploaded yet
  accepted, \* the manifest a rollback may start from
  dep,      \* the deployer's script
  late,     \* calls given up on that may still arrive
  lost,     \* how many calls were not answered
  reap,     \* the reaping transaction: lease and count it has read
  blind,    \* a finish or a restore took effect that no script knows of
  raced     \* a reaping wrote a count that was not the number of leases

rvars == <<own, lease, works, traffic, fresh, accepted, dep, late, lost, reap, blind, raced>>
workers == <<lease, works, reap, raced>>

Null == Version \cup {NoVersion}
State == {"active", "quiesced", "activating", "rolling_back"}
Transition == {"activating", "rolling_back"}
Pc == {"idle", "prepare", "cancel", "begin", "deploy", "finish", "manifest",
       "redeploy", "read", "restore", "verify",
       "back", "route", "rolled", "done", "cleanup", "inspect", "abort", "again", "regained"}
NoManifest == [cur |-> NoVersion, prev |-> NoVersion]
NoReap == [of |-> {}, version |-> NoVersion, count |-> 0]
Leased == {i \in Invocation : lease[i] # NoVersion}

RInit ==
  /\ own = [state |-> "active", active |-> First, gen |-> First, prev |-> NoVersion,
            pend |-> NoVersion, nonce |-> 0, count |-> 0]
  /\ lease = [i \in Invocation |-> NoVersion]
  /\ works = [i \in Invocation |-> FALSE]
  /\ traffic = First /\ fresh = Version \ {First}
  /\ accepted = NoManifest
  /\ dep = [pc |-> "idle", from |-> First, to |-> First, gen |-> First, nonce |-> 0]
  /\ late = {} /\ lost = 0
  /\ reap = NoReap
  /\ blind = FALSE /\ raced = FALSE

-----------------------------------------------------------------------------
(* The deployer's transactions: what the row becomes, {} if refused *)

If(accepts, becomes) == IF accepts THEN {becomes} ELSE {}

\* prepare_platform_runtime_handoff_v1 counts the leases under the row's lock.
Prepared(q) ==
  If(own.active = q.from /\ own.state = "active" /\ Leased = {},
     [own EXCEPT !.prev = own.gen, !.gen = q.to, !.state = "quiesced", !.count = 0])

BegunUncounted(q) ==                                                    \* mutant
  If(/\ own.gen = q.gen /\ own.active = q.from
     /\ own.state = (IF q.as = "activating" THEN "quiesced" ELSE "active"),
     [own EXCEPT !.state = q.as, !.pend = q.to, !.nonce = q.nonce])
Begun(q) ==
  If(/\ own.gen = q.gen /\ own.active = q.from /\ own.count = 0
     /\ own.state = (IF q.as = "activating" THEN "quiesced" ELSE "active"),
     [own EXCEPT !.state = q.as, !.pend = q.to, !.nonce = q.nonce])

Settled(r, version) ==
  [r EXCEPT !.state = "active", !.active = version, !.gen = version,
              !.pend = NoVersion, !.nonce = 0]

Finished(q) ==
  If(/\ own.gen = q.gen /\ own.pend = q.to /\ own.nonce = q.nonce
     /\ own.state \in Transition,
     Settled(own, q.to))

Aborted(q) ==
  If(/\ own.gen = q.gen /\ own.active = q.from /\ own.nonce = q.nonce
     /\ own.state \in Transition,
     [own EXCEPT !.gen = IF own.state = "activating" /\ own.prev # NoVersion
                         THEN own.prev ELSE own.gen,
                 !.state = "active", !.pend = NoVersion, !.nonce = 0])

Cancelled(q) ==
  If(/\ own.gen = q.gen /\ own.active = q.from /\ own.state = "quiesced"
     /\ own.pend = NoVersion /\ own.prev # NoVersion,
     [own EXCEPT !.gen = own.prev, !.state = "active", !.prev = NoVersion])

\* reconcile_platform_runtime_restored_v1, in whatever state the row is
Restored(q) ==
  If(own.count = 0 /\ Leased = {} /\ own.active \in {q.from, q.to},
     [Settled(own, q.to) EXCEPT !.gen = q.gen, !.prev = NoVersion])

Effect(q) ==
  CASE q.rpc = "prepare" -> Prepared(q)
    [] q.rpc = "begin"   -> Begun(q)
    [] q.rpc = "finish"  -> Finished(q)
    [] q.rpc = "abort"   -> Aborted(q)
    [] q.rpc = "cancel"  -> Cancelled(q)
    [] q.rpc = "restore" -> Restored(q)

Query(rpc, gen, from, to) ==
  [rpc |-> rpc, as |-> "none", gen |-> gen, from |-> from, to |-> to, nonce |-> dep.nonce]

Tells(q) == q.rpc \in {"finish", "restore"}

\* One curl of a script: refused, answered, answered to nobody, or given up.
Call(q, ok, failed) ==
  \/ Effect(q) = {} /\ dep' = [dep EXCEPT !.pc = failed]
     /\ UNCHANGED <<own, late, lost, blind>>
  \/ /\ own' \in Effect(q)
     /\ dep' = [dep EXCEPT !.pc = ok]
     /\ blind' = (blind /\ ~Tells(q))
     /\ UNCHANGED <<late, lost>>
  \/ /\ lost < MaxLost /\ lost' = lost + 1
     /\ dep' = [dep EXCEPT !.pc = failed]
     /\ \/ own' \in Effect(q) /\ blind' = (blind \/ Tells(q)) /\ UNCHANGED late
        \/ late' = late \cup {q} /\ UNCHANGED <<own, blind>>

Ask(at, query, ok, failed) ==
  /\ dep.pc = at
  /\ \E q \in {query} : Call(q, ok, failed)
  /\ UNCHANGED <<workers, traffic, fresh, accepted>>

Land(q) ==
  /\ late' = late \ {q}
  /\ \/ Effect(q) = {} /\ UNCHANGED <<own, blind>>
     \/ own' \in Effect(q) /\ blind' = (blind \/ Tells(q))
  /\ UNCHANGED <<workers, traffic, fresh, accepted, dep, lost>>

-----------------------------------------------------------------------------
(* Invocations of the Worker: withRuntimeLease *)

quietly == <<traffic, fresh, accepted, dep, late, lost, blind>>

\* An invocation whose answer is lost leaves, and its lease stays.
Acquire(i) ==
  /\ lease[i] = NoVersion
  /\ own.state = "active"
  /\ own' = [own EXCEPT !.count = @ + 1]
  /\ lease' = [lease EXCEPT ![i] = own.active]
  /\ works' \in {works, [works EXCEPT ![i] = TRUE]}
  /\ UNCHANGED <<quietly, reap, raced>>

\* A release that arrives late finds its invocation gone.
Release(i) ==
  /\ lease[i] # NoVersion /\ i \notin reap.of
  /\ own' = [own EXCEPT !.count = IF @ > 0 THEN @ - 1 ELSE 0]
  /\ lease' = [lease EXCEPT ![i] = NoVersion]
  /\ works' = [works EXCEPT ![i] = FALSE]
  /\ UNCHANGED <<quietly, reap, raced>>

\* It crashes, or its release fails, which is only logged.
Abandon(i) ==
  /\ works[i]
  /\ works' = [works EXCEPT ![i] = FALSE]
  /\ UNCHANGED <<quietly, own, lease, reap, raced>>

\* reap_expired_platform_runtime_lease_v1, of an invocation known to be over.
\* The update counts the leases its statement sees, then waits for the row:
\* what commits in between is not counted.  Bound: none after one that raced.
ReapReads(i) ==
  /\ reap = NoReap /\ ~raced
  /\ lease[i] # NoVersion /\ ~works[i]
  /\ own.state = "active"
  /\ reap' = [of |-> {i}, version |-> own.active, count |-> Cardinality(Leased \ {i})]
  /\ UNCHANGED <<quietly, own, lease, works, raced>>

ReapWrites(i) ==
  /\ reap.of = {i}
  /\ own' = IF own.state = "active" /\ own.active = reap.version
            THEN [own EXCEPT !.count = reap.count] ELSE own
  /\ lease' = [lease EXCEPT ![i] = NoVersion]
  /\ raced' = (raced \/ own'.count # Cardinality(Leased \ {i}))
  /\ reap' = NoReap
  /\ UNCHANGED <<quietly, works>>

-----------------------------------------------------------------------------
(* Activation of an uploaded version, and its reconciliation *)

settled == <<own, workers, late, lost, blind>>

Goto(pc) == dep' = [dep EXCEPT !.pc = pc]

\* wrangler, and the readback that tells where traffic goes: whatever wrangler
\* reports, it may have switched or not.
Switch(at, version, ok, failed) ==
  /\ dep.pc = at
  /\ \/ traffic' = version /\ Goto(ok)
     \/ traffic' \in {traffic, version} /\ Goto(failed)
  /\ UNCHANGED <<settled, fresh, accepted>>

Upload(v) ==
  /\ dep.pc = "idle" /\ v \in fresh /\ dep.nonce < MaxNonce
  /\ fresh' = fresh \ {v}
  /\ dep' = [pc |-> "prepare", from |-> traffic, to |-> v, gen |-> dep.gen,
             nonce |-> dep.nonce + 1]
  /\ UNCHANGED <<settled, traffic, accepted>>

Activate ==
  \/ Ask("prepare", Query("prepare", dep.to, dep.from, dep.to), "begin", "cancel")
  \/ Ask("cancel", Query("cancel", dep.to, dep.from, dep.to), "idle", "idle")
  \/ Ask("begin", [Query("begin", dep.to, dep.from, dep.to) EXCEPT !.as = "activating"],
         "deploy", "redeploy")
  \/ Switch("deploy", dep.to, "finish", "redeploy")
  \/ Ask("finish", Query("finish", dep.to, dep.from, dep.to), "manifest", "redeploy")

\* build_platform_runtime_manifest.sh
Manifest ==
  /\ dep.pc = "manifest" /\ Goto("idle")
  /\ accepted' = [cur |-> dep.to, prev |-> dep.from]
  /\ UNCHANGED <<settled, traffic, fresh>>

\* reconcile_platform_runtime_activation_failure.sh: traffic first, then the
\* row.  A run that exits with an error is started again.
Redeploy == Switch("redeploy", dep.from, "read", "redeploy")

ReadRestored ==
  /\ dep.pc = "read"
  /\ dep' = [dep EXCEPT !.pc = "restore",
                        !.gen = IF own.prev # NoVersion THEN own.prev ELSE own.gen]
  /\ UNCHANGED <<settled, traffic, fresh, accepted>>

Restore == Ask("restore", Query("restore", dep.gen, dep.to, dep.from), "verify", "verify")

VerifyRestored ==
  /\ dep.pc = "verify"
  /\ Goto(IF own.state = "active" /\ own.active = dep.from /\ own.gen = dep.gen
          THEN "idle" ELSE "redeploy")
  /\ UNCHANGED <<settled, traffic, fresh, accepted>>

-----------------------------------------------------------------------------
(* rollback_platform_runtime.sh, and the cleanup it runs when it fails *)

StartRollback ==
  /\ dep.pc = "idle" /\ accepted # NoManifest /\ dep.nonce < MaxNonce
  /\ traffic = accepted.cur
  /\ dep' = [pc |-> "back", from |-> accepted.cur, to |-> accepted.prev,
             gen |-> dep.gen, nonce |-> dep.nonce + 1]
  /\ UNCHANGED <<settled, traffic, fresh, accepted>>

BackQuery(rpc, from, to) == [Query(rpc, from, from, to) EXCEPT !.as = "rolling_back"]

Rollback ==
  \/ Ask("back", BackQuery("begin", dep.from, dep.to), "route", "cleanup")
  \/ Switch("route", dep.to, "rolled", "cleanup")
  \/ Ask("rolled", BackQuery("finish", dep.from, dep.to), "done", "cleanup")

RolledBack ==
  /\ dep.pc = "done" /\ Goto("idle")
  /\ accepted' = NoManifest
  /\ UNCHANGED <<settled, traffic, fresh>>

\* Traffic first; when that fails the row is left as it is.
Cleanup == Switch("cleanup", dep.from, "inspect", "idle")

Inspect ==
  /\ dep.pc = "inspect"
  /\ dep' = IF own.state = "rolling_back" /\ own.nonce = dep.nonce
            THEN [dep EXCEPT !.pc = "abort"]
            ELSE IF own.state = "active" /\ own.active = dep.to /\ own.gen = dep.to
            THEN [dep EXCEPT !.pc = "again", !.nonce = @ + 1]
            ELSE [dep EXCEPT !.pc = "idle"]
  /\ UNCHANGED <<settled, traffic, fresh, accepted>>

\* The recovery finishes what it may have failed to begin.
Recover ==
  \/ Ask("abort", BackQuery("abort", dep.from, dep.to), "idle", "idle")
  \/ Ask("again", BackQuery("begin", dep.to, dep.from), "regained", "regained")
  \/ Ask("regained", BackQuery("finish", dep.to, dep.from), "idle", "idle")

\* Killed, without its cleanup: nothing else reads what it has begun.
Killed ==
  /\ dep.pc \in {"back", "route", "rolled", "cleanup", "inspect", "abort", "again", "regained"}
  /\ lost < MaxLost /\ lost' = lost + 1
  /\ Goto("idle")
  /\ UNCHANGED <<workers, own, traffic, fresh, accepted, late, blind>>

-----------------------------------------------------------------------------
OnLease(i) == Acquire(i) \/ Release(i) \/ Abandon(i) \/ ReapReads(i) \/ ReapWrites(i)

RNext ==
  \/ \E i \in Invocation : OnLease(i)
  \/ \E v \in Version : Upload(v)
  \/ Activate \/ Manifest \/ Redeploy \/ ReadRestored \/ Restore \/ VerifyRestored
  \/ StartRollback \/ Rollback \/ RolledBack \/ Cleanup \/ Inspect \/ Recover \/ Killed
  \/ \E q \in late : Land(q)

RSpec == RInit /\ [][RNext]_rvars

-----------------------------------------------------------------------------
(* Properties *)

RTypeOK ==
  /\ own \in [state : State, active : Version, gen : Version, prev : Null, pend : Null,
              nonce : 0..(MaxNonce + 1), count : 0..(2 * Cardinality(Invocation))]
  /\ lease \in [Invocation -> Null] /\ works \in [Invocation -> BOOLEAN]
  /\ traffic \in Version /\ fresh \subseteq Version
  /\ lost \in 0..MaxLost /\ Cardinality(late) <= lost
  /\ own.state \in Transition <=> own.pend # NoVersion
  /\ dep.pc \in Pc /\ dep.from \in Version /\ dep.to \in Version
  /\ dep.nonce \in 0..(MaxNonce + 1)

\* No two versions operate at once, however activations, rollbacks, late
\* calls and abandoned leases interleave (in_flight_count guards the begin of
\* a rollback, which looks at no lease), unless a lease was reaped while the
\* count was being changed: only then is the count not the number of leases.
OverlapNeedsRacedReap ==
  \A i, j \in Invocation : works[i] /\ works[j] /\ lease[i] # lease[j] => raced

\* acquire_platform_runtime_lease_v1, purpose 'intake', for version v
MayIntakeActive(v) == v = own.active /\ v \in {own.gen, own.prev}          \* mutant
MayIntake(v) ==
  /\ v \in {own.active, own.pend}
  /\ v \in {own.gen, own.prev, own.pend}

\* The version Cloudflare routes to is always admitted to take in webhooks,
\* in every state of a transition and of its repair, unless the row was moved
\* by a finish or a restore whose answer no script got; the next answered one
\* ends that (the order of traffic and row in the scripts).
IntakeGapNeedsBlindness == MayIntake(traffic) \/ blind
=============================================================================
