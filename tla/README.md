# Verification of commerce-ops

TLA+ models of the parts of commerce-ops that several processes, people and
marketplaces act on at once, TLC runs that check them on small instances, and
TLAPS proofs of what matters most for instances of any size.  Paths below are
relative to the repository; `apps/orders/` is left out where it is obvious.

## 1. The system

commerce-ops consolidates four applications that share one Supabase database
and the marketplaces Mercari Shops, Rakuten and Amazon, and the supplier GIGA.

**orders** pulls marketplace orders, decides which are eligible, projects them
into supplier shipments, pushes them to GIGA, brings tracking numbers back and
closes the orders at the marketplace.  The same phases exist twice: as cron
phases of a Cloudflare Worker (the old scheduler) and as units of a VPS
orchestrator (the new one).  Workloads are being handed over one at a time.

**inquiry** collects customer inquiries in a Worker job with a durable object
as lock and cursor, and handles Mercari events one by one.  **tickets** turns
inbound messages into tickets, and sends operators' replies to the platforms.
**ops-portal** is a shell around the other three.

### Components, their state and their operations

| component | state | operations | what makes it correct |
|---|---|---|---|
| external-operation ledger | one row per operation key: status, run id; resolutions | claim, finalize, resolve | a call to a marketplace is made once per permit; nobody overwrites a settled row |
| Mercari close | ledger row, order at Mercari, `shop_close_status` | close script: preflight, claim, execute, read back, finalize, patch; operator resolution | no second close without evidence; local completion is true and arrives |
| orchestrator | lease row, run row, step rows, `stepState` | acquire, heartbeat, release; walk the DAG; finish or fail | one run at a time within the TTL; dependencies hold on durable rows; an honest run status; no stuck lease |
| payment reminders | reminder row with `delivery_state`, messages at Mercari | reconcile, reserve, send, confirm, mark | duplicates only where unavoidable; closed rows are true; no row stays open |
| scheduler ownership | ownership row, audit rows, cron trigger | two fences, record, verify quiescence | the two schedulers overlap only on a stale admission; the drain is a drain |
| Rakuten confirm and close | ledger rows, sales row with in-progress flag, order at RMS | claim, submit, read back, finalize, stuck-flag reset, portal request | as Mercari close; local completion is true |
| GIGA outbound | ledger row keyed by payload hash, shipment row, supplier order | recheck, claim, attempt, create, finalize, progress | a shipment counts as pushed only if the supplier has it; no payload is sent twice unaccounted |
| review and Mercari pipeline | sales lines (status, review), shipment rows, supplier order | auto-approval, portal review, cancel and added line; projector; push | the operator's decision stands; a label says what the supplier holds |
| ingest and lifecycle | sales row, its evidence (`rms_order_progress`) | ingest patch, compare-and-set, invalidation of a shipment, projection | a terminal status stands for a terminal order |
| order webhooks | event rows | ingest, claim, retry | each event applied once |
| inquiry job | lock with expiry, alarm, cursor | acquire, renew, release, alarm, page, classify, advance | one run at a time while it holds the lock, the cursor passes no waiting inquiry, all are classified in the end |
| inquiry events | inbox rows with a claim, message rows, follow-up cycle | dedupe, claim, read thread, reconcile, transition, tombstone, complete | no event completes without its message |
| inquiry sends | outbound operations by idempotency key | claim, fresh read, mutate, read back, finalize | few duplicates, true confirmations, no reminder to a customer who answered |
| ticket replies | `sent_messages`, ticket messages, the thread | claim, preflight, send, finalize, reconcile, resolve | one message per operator action |
| ticket platform runtimes | ownership row per component, leases, Cloudflare routing | prepare, begin, finish, abort, cancel, restore, lease, release, reap; activation and rollback scripts | one version operates at a time; intake is never shut out |
| ticket inbound | queue rows, cursors | sync, classify, promote, retry | each message on exactly one ticket |

### How they interact

The orchestrator's units call the phases (close, reminders, push, tracking);
phases never call each other, they meet in the database.  The ownership row is
read by both schedulers before they start a unit or a set of phases.  The close
scripts, the Rakuten modules and the GIGA push share the ledger, and operators
write to it through a script.  Marketplaces are reached over HTTP, directly or
through a relay, and may lose a request, a response, or answer late.

### What is hard about it

No process holds a lock across a marketplace call; all coordination is by
single SQL statements between which anything may happen.  Processes die between
two of them.  An answer that does not arrive says nothing.  Evidence is read,
and used later.  Time is involved in five places: the lease, the five minutes
after which a reminder is considered lost, the drain of a cutover, the 30
minutes after which a confirmation or a push in progress counts as stuck, and
the lock of the inquiry job.
`PROJECT.json` lists each such hazard at its line.

## 2. The modules

| module | models | used by |
|---|---|---|
| `SubmissionPermits` | what a ledger promises a platform, abstractly | `MercariClose`, `TicketReply`, `GigaOutbound_proofs` (refinement) |
| `OperationLedger` | table `external_operation_attempts` and its three SQL functions | `MercariClose`, `RakutenOrder`, `MercariOrder` |
| `RakutenOrder` | `rakuten-confirmer.mjs`, `rakuten-closer.mjs`, `rakuten-ingest.mjs`, `rakuten-lifecycle-reconciler.mjs`, the portal's confirmation request | `GigaOutbound` |
| `GigaOutbound` | `runSync` of `outbound-sync.mjs` and the update of `rakuten-projector.mjs`, beside all of `RakutenOrder` | `MCRakutenOrder` |
| `MercariOrder` | the Mercari ingest script, `lifecycle-reconciler.mjs`, `cancellation-reconciler.mjs`, `auto-approval.mjs`, the portal's review requests, `shipment-projector.mjs` and `runSync`, on one order | `MCMercariOrder` |
| `MasterJob` | `runMasterHandler`, `handleReplay` and `JobStateDO` of `apps/inquiry` | `InquiryPortal` |
| `InquiryThread` | `processNextEvent`, the thread refresh, the send handler and their SQL functions | `InquiryPortal` |
| `InquiryPortal` | the inquiry application: the two together | `MCInquiry` |
| `MercariClose` | `scripts/close_all_shipped_orders.mjs`, `src/lib/mercari-close-operation.mjs`, `scripts/resolve-external-operation.mjs` | `MCMercariClose` |
| `OrchestratorLease` | table `order_orchestrator_lease`, its three SQL functions and the clock | `Orchestrator` |
| `OrderPipelineDag` | the constant `ORDER_PIPELINE_DAG` | `MCOrchestrator` |
| `Orchestrator` | `runOrchestrator` of `src/orchestrator.mjs` | `MCOrchestrator` |
| `PaymentReminders` | `sendPaymentReminders` and `reserve_payment_reminder` | `MCPaymentReminders` |
| `SchedulerOwnership` | both fences, the registry, the verifier, the start of phases | `Handovers`, `MCSchedulerOwnership` |
| `RuntimeOwnership` | `platform_runtime_ownership`, its RPCs, `withRuntimeLease`, the activation's repair and the rollback script of `apps/tickets` | `Handovers` |
| `Handovers` | the two registries of who may work, side by side | `MCHandovers` |
| `ReplyLedger` | `sent_messages`, `ticket_messages`, `needs_reply` and the SQL that writes them | `TicketReply` |
| `TicketReply` | `MessageSendService.sendReply`, `RakutenRmesseSendService.send` of `apps/tickets/web/worker` | `MCTicketReply` |
| `*_proofs` | theorems about the module of that name | - |

Conventions.  A process has a program counter `pc[r]`, named after the call it
is about to make; one SQL statement or one HTTP exchange is one action.  A call
may fail before it takes effect or lose its answer after it: such a disjunct
spends one of `MaxFaults` (`MaxUpsets` and `MaxBreaks` in the inquiry modules,
where operators' requests count too), the only bound on failures
(`SchedulerOwnership` and `TicketReply` have no such bound, an invocation may
end anywhere).  Processes are slots in
a finite set; a slot is used again and again, so a bounded number of them are
alive at once but any number over time.  An operator marked `\* mutant` is a
faulty variant of the definition that follows it; no action uses it.  It is
there to show that the properties notice the fault.

### OperationLedger and MercariClose

`ledger[k]` is the row of key `k`, with status `NONE` for no row; `released[k]`
counts the audit rows with outcome `NOT_APPLIED`.  `Claim`, `Finalize` and
`Resolve` are the SQL functions, guards as in their `WHERE`.

An invocation reads its candidates (`Start`), reads an order at the marketplace
(`Preflight`), claims (`ClaimCall`), closes (`Execute`, then `ExecuteReturns`
or `ExecuteThrows`), reads back (`ReadBack`), finalizes (`FinalizeCall`) and
writes the local row (`Complete` or `Patch`).  A status COMPLETED at preflight
leads to `ResolveCall` on a row some other invocation left open.  The
marketplace processes a call at any later time (`Process`), or never
(`CallLost`), and orders move on their own (`MarketMoves`).  An operator reads
evidence (`OperatorReads`) and applies it later (`OperatorResolves`).

Abstractions: a shipping plan (one to three mutations per shipping method) is
one call, accepted or not; CANCELING is CANCELED; an order is one key; the rows
of one order are patched together; run ids are distinct; candidates are not
filtered by shop, limit or tracking.  Evidence for NOT_APPLIED is an order that
is waiting or canceled at the time of reading.

### RakutenOrder and GigaOutbound

One Rakuten order with everything that writes its sales row.  `rms` is
`orderProgress` at RMS, `row` the sales row (status, stored progress, the
`rms_confirm_in_progress` flag, `rms_confirm_result`, whether the close is
completed), `proj` the shipment row, `giga` what the supplier holds.
`ConfirmFind`, `MarkInProgress`, `ResetStuck`, `ClaimCall`, `Execute`,
`RelayOk`, `RelayFails`, `ReadBack`, `FinalizeCall`, `StoreConfirmed` are
`findConfirmedRakutenOrders` and `runRakutenConfirmOperations`; `CloseFind`,
`ClosePreflight`, `ResolveCall`, `StoreClosed` the rest of
`closeRakutenOrders`, whose middle is the same protocol.  `LifecycleList`,
`LifecycleFetch`, `LifecycleCas` read the row first and RMS second and write by
compare-and-set; `IngestFetch`, `IngestList`, `IngestWrite` read RMS first and
patch without a condition.  In `GigaOutbound`, `Collect` to `Progressed` are
`runSync`, `ProjectorReads` and `Project` the projector's update, and
`InvalidateOnCancel` is conjoined to `LifecycleCas`, as both happen in one SQL
function.  The operation key of a push contains the payload's hash, so a
payload is represented by its key.

Abstractions: the lines of an order are one row (the functions that write them
are transactions); progress 200 and 400 lead to the statuses of 600 and 100, 800
goes with 900, unknown codes are left out, 500 and 900 are final at RMS; a flag
or an attempt may be of any age, since nothing bounds how long a phase stalls;
a relay that refuses is a response that is not 200; the texts of
`rms_close_result` and `sync_error`, limits, dry runs and the tracking gate are
left out; the shipment row exists already (the projector's create path is not
modelled); whether a payload passes validation is a choice.  A behaviour lets one phase with an external call run (`live`),
beside ingest and reconciliation, which always do: the phases gate on disjoint
statuses and meet in the row only through them.

### MercariOrder

One Mercari order of a few lines, from its payment to the supplier.  `sales[l]`
is the status and review of a line, `ship[l]` the `giga_sync_status` of its
shipment row, `supplied` the lines of the order GIGA holds.  `job[r]` is where an
invocation is, `view[r]` what it has read.  `IngestReads` to `IngestPatches` are
the ingest script: existing rows first, pages second, backfill and patch last.
`StatusLists` to `StatusCas` are `reconcileMercariLifecycle`, `SweepLists` to
`SweepCatchesAll` are `reconcileCancellations`, which runs an ingest on its way.
`AutoReads`, `ReviewReads` and `CancelReads` are auto-approval and the portal's
requests up to the one RPC they share, `ReviewRpc`; `LineReads` and `LineInserts`
add an operator's line.  `BoxesList` to `BoxesCreate` are the projector, and
`SyncCollects` to `SyncLabels` `runSync`, which patches row by row.  `Breaks` is
a crash, or an exception that leaves the order.

`decision` is the operator's last word; `reset`, `defied`, `blind` and `split`
record the circumstances the properties speak of.  A payload is the set of its
lines and stands for the operation key with its hash.

Abstractions: COMPLETED, and the sync of completed orders that runs at the end
of an ingest, are left out, as are edits of lines, webhooks, fee rows,
quantities, and every rule or message gate of auto-approval, which can only stop
it; CANCELING is CANCELED; the lists a job reads together are one read; GIGA
answers a call before it returns or not at all; an operator adds one line and
resolves no ledger row (`MercariClose` and `RakutenOrder` have that); a missing
shipping name is a choice, and payloads are valid (`GigaOutbound` has the branch
that marks one `INVALID`).  An ingest also creates orders it does not know and
deletes stored lines that Mercari no longer shows
(`sync_mercari_sales_orders_multi_shop_2026_04_01.mjs:470`); here the order
exists and its lines stay.  One projector runs at a time, as two of them
add duplicate rows of a line, which `dedupeOrderLines` merges.

### MasterJob

Rows are numbered in the order in which the job fetches them, so a cursor is a
number; `CursorOf` is where `formatCursorUTC` puts it, within the same second.
An invocation is `StartCron` or `StartReplay`, `ReadCursor`, `Fetch`, then
`WriteRow` and `Advance` per row, `Renew` between the pages of a replay, and
`Release`; `WriteFails` is the catch block of a row, after which the cursor
stops, `JobFails` any other exception, `JobCrashes` a killed Worker.  The lock
is one Boolean that anyone renews or releases, as in the code; `LockExpires` is
the alarm.  `AdminReleasesLock` and `AdminResetsCursor` are the admin routes.
`freed` and `skipped` record history for the properties.  What else happens to
the rows is beside the job: `Appears` (ingestion), `Answered` (an operator, or a
sent reply), `Reopened` (the dashboard's status route, which writes any status
over any other, `received` included) and `OperatorTypes` (its type route).
`table` tells `received` from every other status, `typed` the rows that have an
`inquiry_type`, which nothing takes away again.  A cron run patches the rows as
it fetched them; a replay reads each row again.

Abstractions: the order of the rows is fixed, although a reconcile may move an
`inquiry_date` (it writes the thread's opening date, which stays) and the sort
in memory compares strings where the database compares times; rows without a
date would come first, are fetched only while there is no cursor, and store
none, so they are not told apart from rows that appear late; `Late` rows may
come behind the cursor and then count as skipped.  A replay pages by position,
not by offset; dry runs, explicit ids, the run history, alerts and what the
classification says are left out.  `Reopened` and `OperatorTypes` count as
upsets.

### InquiryThread

One inquiry.  `thread` is what Mercari took, `stored` its copy in
`inquiry_messages`, `inbox` the events, `ops` the outbound operations by
idempotency key, `follow` the follow-up cycle.  `ClaimEvent`, `ReadThread`,
`Reconcile`, `Transition`, `Tombstone`, `Complete` are `processNextEvent`; the
same `ReadThread` and `Reconcile` without an event are the detail page's refresh
and the audit.  `SendContext` to `Finalize` are the send handler, with
`StaleMarkLost` and `SendFails` for its catch blocks.  Retry times and leases are
not bounded by anything the invocations can rely on, so a failed event may or
may not be due, and an open reply may or may not refuse another.

Abstractions: sellers write through the portal only; a platform's deletion
removes a message from readbacks; a thread's pages are one read; threads that
belong to an order or cannot be routed are `Quarantine`; `do_not_follow_up` and
`cleared` are one state; the first message's event has been processed.  The job
and the thread share rows and hardly a column: the job reads `status`, which a
finalize moves on from received, and the rows' dates, which a reconcile writes,
and both it and an operator write `inquiry_type`.  So `InquiryPortal` lets one of
the two halves move in a behaviour, and what else happens to the job's rows are
actions of `MasterJob`.

### OrchestratorLease and Orchestrator

The lease is `[run, left]`, `left` being the time to `expires_at`: only
relative time matters, so the clock needs no bound.  `own[r]` is what is left
of the TTL that `r` was granted last, and is only read by a property.  `Gone`
stands for a holder that ended without releasing.  A run is one walk of
`idx[r]` over `Dag`, which is a constant: the theorems hold for every DAG whose
dependencies precede their dependants (`DagAssumption`), and the runs use
excerpts of `ORDER_PIPELINE_DAG`; TLC also evaluates the assumption on the whole
of it.  `state[r]` is the map `stepState`, `row[r]` the step rows, `runRow[r]`
the run row.  The phases of a unit are one step that succeeds, fails or throws;
the ownership check of a live unit may answer either way (what it answers is
the subject of `SchedulerOwnership`).

### RuntimeOwnership

One component of the ticket platform (a sender or an ingestion Worker) whose
versions replace each other.  `own` is its row, `lease[i]` the version an
invocation's work lease names, `works[i]` whether it is inside its operation,
`traffic` where Cloudflare routes.  `Prepared` to `Restored` are the SQL
functions, each the set of rows it may leave behind, empty when it refuses.
`Ask` is one `curl` of a script: refused, answered, done with the answer lost,
or given up and done later (`Land`).  `Upload` and `Activate` are the activation
workflow, which is not in the repository and is reconstructed from the
arguments its scripts take and the RPCs it has to use; `Redeploy` to
`VerifyRestored` are its repair script, `StartRollback` to `RolledBack` the
rollback script, `Cleanup` to `Recover` that script's exit trap.  `Switch` is a
wrangler command and the readback after it.  Reaping an expired lease is two
steps: the `UPDATE` counts the leases in its snapshot, and may then wait for the
row (`ReapReads`, `ReapWrites`).

Abstractions: a version's `ROUTING_GENERATION` is part of its configuration, so
a generation is named by its version; the first activation (`none`), role and
health checks and the comparison of the other components are left out; lease
expiry is no guard of anything but reaping, so a lease may be of any age; a
lease is reaped only when its invocation is over, which is what the SQL comment
asks of the operator; traffic is moved by the handover scripts only, although
the workflow `tickets-production-deploy.yml:56` can deploy a version with no call
to the registry.  `blind` records that a finish or restore took effect
unknown to any script, until the next one that is answered; `raced` that a
reaping wrote a count that was not the number of leases.

### PaymentReminders

`row[s]` is the reservation of one order and reminder day, `age` the time since
`reserved_at`, capped at `Cutoff` (five minutes), beyond which the code tells
no ages apart.  `call[r]` is a message under way, which arrives (`Deliver`) or
not (`Drop`) whenever it likes.  `shown` are the slots for which a message
exists that is younger than the reservation: what `findMatchingReminderMessage`
looks for.  `hit[r]` is what a reconciliation sees, for the rows it read.
`late`, `old` and `stale` record history for `DuplicatesExplained`.  The stock,
status and last-message checks only skip a candidate (`Pick`); the freshness
gate, the limit, the template and dry runs are left out.

### SchedulerOwnership

One workload, its ownership row, any number of Worker invocations and the
orchestrator's unit.  `Admit` and `VpsAdmit` are the two fences, `StartPhase`,
`EndPhase` and their `Vps` twins the phases that follow; `Record` is the SQL
function in an operator's hands, `Verify` the quiescence verifier, `Trigger` the
cron switch.  Times are ages in ticks, capped at `Day`.  `stale` names who was
admitted under an owner that has been replaced since.

Abstractions: host and release names only ever block, and are left out, as is
the owner `vps_reporting_timer`; `unverified` is `disabled`; the verifier's
parallel reads are one step and its lease check is the unit being inside; open
operations and the shadow acceptance, which can only fail the verifier, are
left out; evidence is truthful, observed no earlier than the trigger went off.

### ReplyLedger and TicketReply

One ticket of a Mercari or Rakuten thread.  `sent[k]` is the `sent_messages` row
of client operation `k`, status `none` for no row; `inbound` are the messages
ingestion has put on the ticket; `needs` is `needs_reply`.  A thread only grows,
so a message is its position in it and a stored set of message ids is a length.

An invocation is `sendReply` (Mercari) or `send` (Rakuten), which differ in a
few places and share the rest: `Begin` claims, or leads to `Lookup` and
`Reconcile`; the owner of a claim reads the thread and checks freshness
(`Read`), stores the snapshot (`Preflight`), calls (`Call`), learns the
message (`Answer`: Mercari takes the last seller message of the thread it gets
back; `Readback`: Rakuten searches) and finalizes (`Record`).  What goes wrong is
`Abandon`, `ReleaseClaim`, `CallFails` or `Crash`.  The platform posts a reply
whenever it likes (`Land`) or never (`Refuse`); customers and the seller console
write (`SomebodyWrites`); the sync job and the events ingest (`Sync`).

Abstractions: an operation keeps its text and intent
(`CLIENT_OPERATION_CONFLICT` cannot happen); the two-minute window before the
row is any prefix `w` of the thread, and matters without a snapshot only, as
everything after a snapshot is younger; `Readback` leaves out older candidates
by the snapshot alone, which is read just before the call; a database request
that fails has happened, or not, by the time its caller learns; one that had no
effect is the `Crash` of an invocation that throws.  Every retry is an
operator's, so nothing must happen and no liveness is stated.  The
platform-specific parts of a reply that never change a row (form links, the
double-form warning, the dry run) are left out, as is Amazon.  A ticket has one
thread, although a Rakuten ticket may collect several inquiries, and
`needs_reply` is cleared by finalize only, although an operator can also clear it
with a `PATCH` of the ticket; the reply protocol never reads it.

## 3. What is checked

| run | instance | shows |
|---|---|---|
| `mercari_close` | 1 order, 2 runs, 2 faults, 1 release | `EveryCallAccounted`, `AppliedMeansAccepted`, `LocalCompletionProven`, refinement `ImplementsPermits`, liveness `CompletionReachesLocal` |
| `orchestrator` | 2 runs, TTL 2, 1 fault, 3 units, 4 plans | `OverlapNeedsOverrun`, `RowsHonest`, liveness `PipelineKeepsRunning` |
| `payment_reminders` | 1 slot, 2 runs, 2 sends, 2 faults | `DuplicatesExplained`, `SentMeansDelivered`, liveness `AmbiguityResolved` |
| `payment_reminders_resend` | same | violates `NotResentByAge` (a document's claim) |
| `rakuten_order` | 1 order, 2 invocations of any phase, 2 payloads, 1 fault, 1 release of the confirmation and of the close (none of a push; `CallsCorrect` has the general case) | `EveryCallAccounted`, `AppliedIsTrue`, `CompletionProven` |
| `mercari_order` | 1 order of 2 lines, 2 invocations of any job of a cast, 5 casts, 1 lapse in three of them | `DecisionHonoured`, `AutoApprovalYields`, `LabelsHonest` |
| `inquiry` | 2 job runs over 3 rows, one of them late, pages of 2; 2 invocations on a thread of up to 4 messages; 1 upset or break | `OverlapNeedsLostLock`, `CursorLosesNothing`, liveness `RowsGetClassified`; `SendsHonest`, `AnsweredLeavesQueue`, `EventAccounted` |
| `scheduler_ownership` | 2 invocations, drain 2, day 3; beside it 3 versions, 2 invocations, 3 transitions, 2 unanswered calls | `OverlapNeedsStaleAdmission`, `VerifiedMeansDrained`; `OverlapNeedsRacedReap`, `IntakeGapNeedsBlindness` |
| `scheduler_quiescence` | the first of these | violates `QuiescentMeansTerminated` (a document's claim) |
| `ticket_reply` | 2 operations with one text, 2 runs, 2 messages | `NeverSentTwice`, `DeliveredRecoverable`, `RecordsTrue`, `CallOnReviewedThread`, `ClearedByTerminalReply` |
| `ticket_reply_refused` | same | violates `ConfirmedReplyRecordable` (a document's claim) |
| `ticket_reply_needs` | same | violates `NewerCustomerKeepsNeedsReply` (a document's claim) |

Each passing run also checks the type invariant of its modules.

Why the bounds suffice.  Keys, slots and workloads never interact, so one of
each loses nothing.  Two processes give every pairwise interleaving: a stalled
one, and a second one, slot reuse included, that does as much as it likes
meanwhile.  Two faults cover a lost answer followed by a crash or a failed
write, which is what the recovery paths are for.  One release gives a second
life to a key.  TTL 2 is the smallest with a "still valid, partly used" lease,
`Cutoff` 2 and `Drain` 2 the same for reminders and cutover, and `Day` 3 lets
evidence get too old after a drain.  The three units are the start of the Mercari chain; the plans are a shadow run, a
live one, a live one without its last unit's flag, and a canary of that unit.
Two operations with the same text, one terminal and one holding, are what a
reconciliation can confuse, a thread of two messages holds both replies, or one
and the customer's message, an older reply or one from the console; a third
message adds no new pair and takes TLC from one minute to hours.
For `rakuten_order` the starts are an order that waits for confirmation, one
ready to be closed and one ready to be pushed; every lag between RMS, the row
and the ledger is reached from these by ingest and RMS moving on.  One fault is
enough there, as a stalled second invocation already does what a crash leaves
behind.  For `mercari_order` two lines are the least a row-by-row step can be
interrupted between, and two invocations at a time suffice for one to be stale
when it writes.  A cast is the jobs that meet in one story: a payment seen by the
ingest and the lifecycle job while an operator decides; the sweep among them;
lines added beside a push.  Each has the projector and the push.
For `inquiry`, three rows and pages of two give a page boundary, two
rows within one second and one dated late; the two starts of a thread are a
talkative buyer with an event, and a scheduled follow-up with a message not yet
ingested, where a reply and a follow-up can collide.
For the runtime half three versions are the least in which a rollback and a new
activation can follow an activation, three transitions let a repair be followed
by another change, and two unanswered calls let one be lost and another arrive
late.  No reaping starts after one that raced: the count stays wrong until the
next prepare anyway.  That half may stop, with an abandoned rollback, so the run
does not check deadlock.
Beyond these bounds the theorems take over, for all but liveness.

Symmetry is used where a run checks no liveness (`Handovers`,
`TicketReply`, `RakutenOrder`, `MercariOrder`), and in `inquiry` for the slots of the thread,
which no liveness property or fairness condition mentions: the job's slots,
of which `RowsGetClassified` speaks, are not permuted.

Fairness.  Timers start the scripts over and over, a live process is scheduled,
and HTTP calls end, by timeout if nothing else: weak fairness of each process's
steps, of the marketplace's processing of a call, and of time.  Nothing is
assumed of operators, of the marketplace's own moves, or of a fault.
For the inquiry job that is: cron fires, a Worker that is not killed goes on,
and the alarm of the lock is delivered.
`SchedulerOwnership`, `RuntimeOwnership`, `TicketReply`, `RakutenOrder`, `MercariOrder` and the
thread half of the inquiry assume no fairness.

Two liveness properties deserve a word.  `CompletionReachesLocal` says *stays*:
a stalled invocation overwrites a completed row unconditionally, and what saves
it is that the order then becomes a candidate again.  `AmbiguityResolved` needs
that reads of an order succeed in the end: one that always fails blocks all
reminders (`ambiguous_reconciliation_failed`), as the hazard list says.

## 4. What the runs found

* **A reminder is resent by age.**  `docs/SYNC_JOB_INVENTORY.md:501` and `:511`
  say that unresolved rows are not released for resend.  The reconciliation
  releases them five minutes after `reserved_at` when no message is visible
  (`payment-reminders.mjs:600`).
* **The verifier cannot see a running legacy phase.**  `05_DECISION_LOG.md:268`
  relies on unterminated audit rows; the only writer inserts a row after a
  phase has ended (`pipeline-runner.mjs:607`).  What holds is the weaker
  `VerifiedMeansDrained`: an invocation still inside is at least a drain old.
* **A confirmed Rakuten reply can be unrecordable.**  The sync job inserts the
  merchant's messages under the id that finalize uses.  When it comes first,
  `finalize_operator_message_send` (`20260715000005_...sql:87`) raises a unique
  violation in every retry: the reply never gets its row, and `needs_reply`
  stays.  `rakuten-rmesse-order-ticket-ingestion.md:186` promises the opposite.
* **A terminal reply hides a newer customer message.**  Finalize clears
  `needs_reply` (`...sql:131`) without the comparison that
  `platform-aware-message-boundaries.md:188` requires.  What holds is
  `CallOnReviewedThread`, for the time of the check, and
  `ClearedByTerminalReply`: a replay at least clears nothing.

Not a finding, but worth knowing: `SentNamesReply`, the first half of
`RecordsTrue`, is weaker for Mercari.  The
last seller message of the returned thread (`clients/mercari.ts:182`) may be one
that somebody else posted after the reply, and a reconciliation may take
another operation's reply with the same text; all that holds is that the
message is a seller's, and not older than the replies.

Other places where a property had to be weaker than a reader would expect:

* *Rakuten.*  An ingest that read RMS before an order ended patches the row
  without a condition, so a terminal row can go back to `RMS_CONFIRMED`,
  although a comment says that terminal states always win; `CompletionProven`
  holds in the other direction only.  A payload that changed after an unknown
  result has a new key and is pushed again (`docs/SYNC_JOB_INVENTORY.md:312`
  expects a person to look): GIGA's refusal of a known order number is what
  prevents a second order, and the row may then be `SYNCED` with a payload GIGA
  does not hold.
* *Supplier answers.*  A response whose body is lost after its headers arrived is
  read outside the `try` that marks an outcome uncertain (`giga-client.mjs:71`),
  so a push GIGA accepted may be recorded as a definitive failure; its row stays
  closed to a new claim either way, until an operator resolves it.
* *Mercari review.*  `order-backfill.mjs:50` says that any review that is not
  empty "is operator-owned and must be preserved", and the comment of
  `20260815120000_add_canceled_review_status.sql:31` that a local CANCELED is
  "never auto-reset".  The ingest tests the row it read before it fetched the
  pages and patches without a condition: a hold, an approval or a cancellation
  made meanwhile goes back to PENDING_REVIEW, and may then be auto-approved
  (`reset`).  A cancel is refused only by labels, so it may be accepted while a
  push is at GIGA or while only the ledger knows of an order (`blind`).
* *Mercari cancellations.*  A page fetched before a cancellation and patched
  after it brings a line back to paid, now with an empty review, which the
  outbound gates accept as a legacy row: hence `mercari = "CANCELED"` among the
  exceptions of `DecisionHonoured`.  The next reconciliation repairs the line,
  not the push.
* *Supplier labels.*  GIGA keeps the first order under a number.  A push whose
  rows had become due at different times, or a line projected after it, gets
  ALREADY_EXISTS although the supplier's order lacks the line (`split`); the
  order then counts as pushed.
* *Runtime versions.*  `apps/tickets/docs/trd/platform-aware-message-boundaries.md`
  (section 14.1) wants one active owner at any time and no gap in admission.
  The begin of a rollback goes by `in_flight_count` alone, and a reaping that
  waits for the row writes a count it read before: two versions may then operate
  at once (`OverlapNeedsRacedReap`), or, when it counted too many, a rollback is
  refused until the next prepare.  When the answer of a rollback's finish is lost,
  the cleanup moves traffic back before it has moved the row, and until it has, or
  for good when the recovery's calls fail, webhooks reach a version the row does
  not admit (`IntakeGapNeedsBlindness`).  A finish leaves `previous_generation`
  behind, so a repair run after a prepare that never took effect restores the
  generation before the one in service (`reconcile_...failure.sh:52`); work goes
  by the version and goes on, but the next prepare, cancel or begin that names
  the right generation is refused.
* *Inquiry sends.*  When the answer of the stale mark is lost, the catch block
  marks again, and may turn an operation that somebody else has claimed and
  sent meanwhile into `failed`, hence sendable.  `SendsBounded` (in
  `SendsHonest`) counts such marks; without one, a key is sent at most once.  A reply and a follow-up have
  separate leases and may both go out on one state of a thread.  A finalize
  that committed and lost its answer is overwritten by `ambiguous`.
* *Inquiry follow-ups.*  A reply's finalize can schedule a cycle after the
  customer's answer was processed; only the comparison in the queue's view
  keeps the inquiry out of the review queue (`AnsweredLeavesQueue`).
* *Inquiry events.*  An invocation that dies leaves its event `processing` for
  ever, and its operation `pending`: no liveness property is stated, because
  there is none.  A readback older than a tombstone brings a deleted message back.
* *Inquiry job.*  The lock has no owner, so a run that outlives it overlaps the
  next, and releases the lock of that one (`OverlapNeedsLostLock` is all that
  `index.ts:187` can promise).  A row that becomes received behind the cursor is
  not classified by any cron run (`skipped`): one ingested late with an older
  date, and one that was answered before it was classified, was passed by the
  cursor and is then set back to received in the dashboard (`status.ts:59`).
  Nor is one that a reset of the cursor passes over.

## 5. What is proved

All constants are arbitrary: any sets of keys and runs, any bounds, any DAG,
any TTL, drain and day within the named assumptions.

* `MercariClose_proofs`: `TypeCorrect`, `AppliedCorrect`, `CompletionCorrect`,
  `RefinesPermits`, `CallsCorrect`.  `MarketInv` adds to the two safety
  properties what each invocation relies on where it stands (`RunInv`): a
  read-back that did not fail, an outcome about to be finalised, a `COMPLETED`
  it has seen and a completion accepted but not yet answered are all backed by
  the marketplace, which never takes a completion back (`MarketStable`); and
  what an operator is about to record as applied is (`OpInv`).
  `RefinesPermits` maps the permits of a key to the invocations standing at
  `execute` with it, plus one when its row is free; a claim, a call, an answer
  and a resolution are then each a step of `SubmissionPermits` or a stutter
  (`MapLose`, `MapSubmit`, `MapAuthorise`, `MapStutter`).  `CallInv`, calls plus
  permits are at most one more than the recorded releases, follows from that
  refinement step by step and gives `EveryCallAccounted`.
* `Orchestrator_proofs`: `TypeCorrect`, `OverlapCorrect`, `DependenciesCorrect`,
  `StatusCorrect` and, of both, `RowsCorrect`, for every DAG and any plans that
  are plans of it (`DagAssumption`, `PlansAssumption`).  `LeaseInv`: what a run has left of its TTL since its last
  heartbeat (`own[r]`), the lease row still grants it; so an acquirable row
  means no run has anything left, and two runs overlap only when one overran.
  `RowsInv` is a conjunction per run: `Place` (which rows exist, and which units
  are remembered, at each program counter), `Remembered` (what memory says of a
  unit, its row confirms), `Honoured` (a unit that ran has its dependencies
  satisfied) and `Honest` (the final status).  A step writes one index only, the
  present one (`StoreKeeps`, `SettleRows`), and leaves other runs alone
  (`RowFrame`).
* `GigaOutbound_proofs`: `TypeCorrect`, `AppliedCorrect`, `CompletionCorrect`,
  `RefinesPermits`, `CallsCorrect`, about confirmations, closes and pushes
  together, so about all of `RakutenOrder`.  `TypeInv` adds to the types which
  key, progress and status an invocation can hold in which phase (`RunType`).
  `TruthInv` says what is still true of what an invocation remembers: an ending
  it has seen is the order's, an accepted call, an applied outcome or an
  existing order about to be recorded happened (`RunInv`), and RMS shows 300 or
  500 only of an order that was confirmed, or confirmed and shipped (`RmsInv`).
  Neither takes anything back (`Stable`).  `RefinesPermits` is the argument of
  `MercariClose_proofs` with three kinds of call on one table: the permits of a
  key are the invocations between its claim and its call, plus one when its row
  is free (`PermitsOf`).  Two assumptions say what the model could not do
  without.  `MovesAssumption`: RMS leaves neither 500 nor 900, which the
  lifecycle reconciliation never reads again (`rakuten-lifecycle-reconciler.mjs:6`),
  and reaches 500 from 300 only, the one progress the closer ships at
  (`rakuten-closer.mjs:147`).  `GigaKeyAssumption` also keeps a payload's key
  apart from the value that stands for no order at GIGA.
* `Handovers_proofs`, about the scheduler's registry: `TypeCorrect`,
  `OverlapCorrect`, `DrainCorrect`.  `FreshInv`: a worker at work that no change
  of ownership has made `stale` was admitted under the present owner.  `AgeInv`:
  an invocation at work is older than the silence of the trigger and than the
  observation of a row that shuts it out; so a cutover verified after a full
  drain finds nothing younger than the drain.
* `Handovers_proofs`, about the runtimes' registry: `OneVersionWorks`,
  `TrafficAdmitted`, `RTypeCorrect`.  `LeaseInv`: as long as no reaping raced,
  the count is the number of leases, and every lease names the active version; a
  begin or a restore, the only ways to a change of it, need a count of zero, and
  nothing takes a lease while a transition is under way.
  `TrafficAdmitted` is the longest argument here, as any call a script has given
  up may take effect in a later activation or rollback.  `TransInv` says what
  such a call can still do: versions are ranked by their upload, and a begin and
  a finish that may both still arrive lead to a newer version (`Ordered`); so
  during an activation the row is at one of its two versions, or has gone astray
  to a newer one, and then it was moved blindly (`Astray`); no call and no
  manifest leads back to a version given up for good (`RetiredInv`).  `PlaceInv`
  says where row and traffic are at each call of a script.  `RangeInv` bounds
  generations, nonces and late calls by what was lost.
  `HandoversSplit` and `HandoversTypeCorrect` join the two: neither registry
  reads or writes the other.
* `TicketReply_proofs`: `TypeCorrect`, `SentOnce`, `DeliveryRecoverable`,
  `CallReviewed`, `SentNames`, `RecordedCorrect` and, of both, `RecordsCorrect`,
  `ClearedCorrect`, `RefinesPermits`.  `OwnerInv`: an operation without a row has no owner and no
  call, a claim has at most one owner, and once its call is made nobody
  owns it again; so a call is made once.  `SnapshotInv`: from the moment of the
  call the row exists, with a snapshot, and whatever lands is behind it; a
  release cannot touch it because no owner is left.  `ReviewInv` carries the
  freshness check and the snapshot to the call.  `NameInv` says which message
  an invocation holds when it is about to record it.  `RefinesPermits` takes an
  owner before its call, or a missing row, for the permit of the operation; it
  is proved only, as TLC needs minutes more for it.
* `InquiryPortal_proofs`, about the job: `TypeCorrect`, `OverlapCorrect`,
  `CursorCorrect`, for any number of rows, any page size and any cursor format
  that falls back by less than a page.  `LockInv`: as long as nobody gave the
  lock up, at most one run is active and the lock is held while it is.
  `CursorInv`: every row up to the cursor is settled (if it waits, it is in
  `skipped`), and so is every row a cron run is past, except those it still has
  in its batch; the one it is about to advance over has its type (`RunInv`).  A
  row set back to received is therefore in a batch, ahead of every position, or
  skipped (`RunKept`); `PageRows` says that a page leaves no received row out
  below its last one.
* `InquiryPortal_proofs`, about the thread: `SendsCorrect`, `QueueCorrect`,
  `EventsCorrect`, for any invocations, thread and inbox.  `ThreadTyped` says
  which key and which message a handler holds at each step (`Fits`).
  `EventInv`: from the readback to the completion, the message of an event is in
  the snapshot, is stored, or has been deleted at the platform, and a row is
  deleted only if the message was (`HandlerInv`, `DeletedInv`); so a stale
  readback loses nothing and a processed message stays the latest one.
  `SentInv`: after its mutation a handler knows its message (`OnPlatform`), so
  whoever finalizes last names one that is there.  `WeightInv` weighs a key:
  messages sent, handlers between the claim and the mutation, and one if the
  operation can be claimed, are together at most one more than the stale marks
  repeated after a lost answer.  No step takes back what these speak of
  (`Onward`).  `Halves` shows a step of the application to be one of the job or
  one of the thread; `JobCorrect` and `ThreadCorrect` state the results for each
  alone.
* `PaymentReminders_proofs`: `TypeCorrect`, `SentCorrect`,
  `DuplicatesCorrect`, for any slots, any finite set of runs and any cutoff.
  `Bounds` counts the sends about to be made and the messages under way.
  `SentInv`: what a run goes by when it closes a row stands for a delivered
  message.  `DupInv` is, for a slot whose messages all came in time and of which
  no newer reservation was released, `Single`: who may release or reserve the
  row again knows that every message still under way is past the cutoff, and a
  delivered message is among the hits of whoever has read the row.
* `MercariOrder_proofs`: `TypeCorrect`, `LabelsCorrect`, `DecisionCorrect`,
  `AutoApprovalCorrect`, for any lines, invocations and openings.  `PushInv`: a
  push has shipment rows for its lines and a ledger row since its claim, and a
  word that says applied is about an order GIGA holds; GIGA's order has every
  line as long as no push was partial; shipment rows and ledger rows stay
  (`Grows`).  `ReviewInv`: whoever is about to clear a review has seen Mercari
  cancel, whoever inserts a line copies no approval; and until a stale backfill
  or Mercari overrides it, the operator's decision is the review of the line
  Mercari knows (`Standing`), so no push passes its recheck and no run approves
  again.  That a cancellation found nothing at GIGA uses `PushInv`: an order at
  GIGA has a row in the ledger.

With this every safety property of the passing runs, and every action property,
is stated by a theorem.  Only model-checked are the four liveness properties
`CompletionReachesLocal`, `PipelineKeepsRunning`, `AmbiguityResolved` and
`RowsGetClassified`: the prover has no ENABLED, hence no fairness.  The DAG of
`OrderPipelineDag` is a constant that TLC evaluates; the theorems about the
orchestrator hold for every DAG its assumptions admit.

## 6. Plan

In this order, each with its hazards from `PROJECT.json`:

1. More proofs: pushes of `MercariOrder` as an implementation of
   `SubmissionPermits`, which needs its calls counted, and what a claim of
   `TicketReply` and a send of `InquiryThread` have in common with it.
2. The two Mercari event paths, beside each other: the webhook of the orders
   application, and the forwarder and inbound queue of the ticket platform.
3. The leased Amazon send, beside `TicketReply`.
4. `MercariOrder` with completed orders and edits of lines, and its composition
   with `MercariClose`.

### Not modelled

* Portals beyond the requests that change an order, relay, reports, buyer
  messages: reads, forwarding and layout.
* Repair, backfill and migration scripts: run by hand, once.
* Field mappings, eligibility rules and classification by a language model:
  data, not control.
* Ticket state, forms and shares: sequential, single-row operations.
* Containers, CI workflows and systemd units: configuration.
