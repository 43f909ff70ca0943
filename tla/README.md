# A TLA+ development of the HAI back office

This directory holds TLA+ models of the Go backend of this repository
(`backend/`), the TLC configurations that check them on small instances, and
theorems about them with proofs checked by TLAPS. `PROJECT.json` is the index:
components, runs, the mutation each property must detect, the map from every
definition to the lines it stands for, hazards, findings and theorems. Paths in
this file are relative to `backend/internal/` unless they say otherwise.

Contents: 1 the system, 2 the modules, 3 the models, 4 the runs,
5 findings, 6 the proofs, 7 what is only model-checked or not modelled, 8 plan.

## 1. The system

HAI is an assistant's back office: it watches sources, turns what it finds into
work, decides how much of that work it may do alone, does it through bounded
runtimes, and asks a person for the rest. The backend is one Go process (or
several, over one PostgreSQL database); around it stand a frontend, an identity
provider and a gateway, which keep none of the state that matters here.

| Part | State it keeps | Operations | Interacts with |
|---|---|---|---|
| **Durable job queue** `durablejob` | table `durable_jobs`: status, attempts, due time, lease holder and time, lease generation | enqueue, ensure a recurring job, claim due, extend lease, mark succeeded / retry / dead, reap expired leases | called by the schedulers of `source`, `workflow`, `ambient`, `ambientmonitor`; handlers run in goroutines of the runner |
| **Control plane** `opscontrol` | emergency stop and autonomy mode, in memory and in two JSON files | engage, clear, verify the stop; set the mode; recover operations | asks `executionauth` for permission; the background worker reads it; verification starts a background pass |
| **Operation Ledger** `operations` | table of operations: status, decision, verification, whole-row saves; append-only events | ingest, transition, save, list due | written by the worker, by operator requests and by recovery |
| **Background worker** `background` | nothing but a try-lock | one pass: ingest feeds, classify, route, run safe work | `accountfeed`, `autonomypolicy`, `executionbroker`, `operations`, `opscontrol` |
| **Operator requests** `phase2` | block rules, in memory | approve, reject, later, block similar, run, recover | `operations`, `executionbroker` |
| **Execution broker** `executionbroker` | artifacts in a workspace directory | authorize, run the local safe worker, verify | `executionauth`, file system |
| **Execution authorization** `executionauth`, `executionapproval` | receipts, their single consumption, final effects | authorize, recheck, consume, exercise | constitution, mandates, approvals, emergency stop |
| **Resilience advisories** `resilience` | leases with generations, heartbeats, circuits, retry and recovery records | acquire, heartbeat, release; before / after a circuit attempt | compare-and-swap on PostgreSQL |
| **Task operations** `task` | one row per idempotency key with a fenced lease; the review queue; the completion log | claim, heartbeat, complete, needs review; approve or reject a review, reconcile | the task engine |
| **Workflow engine** `workflow` | items with claim id and lease, open loops | claim, renew, settle, recover; operators' requests; follow-ups | the task engine, the job queue |
| **Reminder delivery** `workflow/reminder_*` | prepared reminders and their decisions, delivery grants, attempts | decide, authorize, run due deliveries | the inbox (`proactivity`) |
| **Automations and runtimes** `automation`, `agentruntime` | approval decision, proofs and their consumption, launch events; running tasks, in memory | issue and consume a proof, launch, stop a task | `executionauth`, `executionapproval`, Docker |
| **Monitors** `ambientmonitor` | targets, runs, leased deliveries | claim, complete, recover | the job queue |
| **Pursuits** `pursuit` | goals, reservations of effort and cost, settlements | reserve, settle, release | task engine |
| **Bridges** (some thirty packages) | none | one bounded call to an external runner | external tools |

The complete list, with the reason for everything that is left out, is under
`components` in `PROJECT.json`.

What is hard in this code, and what the models are for:

- *Leases that expire while their holder is alive.* Runners, task workers and
  workflow claims all work under a lease somebody else may take over.
- *Whole-row saves from old copies.* The ledger's writers read a row, work for
  a while, and save all of it; the same holds for the autonomy mode.
- *Permissions that are checked before they are used.* The stop's revision, the
  mode, an authorization receipt, an approval proof, a reminder's approval.
- *Work whose outcome nobody knows.* A tool ran and its worker died, or its
  answer was lost: it must neither be repeated nor be called done.
- *Two writes that belong together.* The successor of a recurring job and the
  outcome of the current one; a file and the memory it persists; a delivery and
  its record.
- *Process death between any two of these steps*, and the passes that recover.
- *Progress*: due jobs, expired claims, uncertain outcomes and new operations
  must all be dealt with some day, whatever failed before.

What makes each modelled component correct:

- **Job queue**: at most one holder of a job can write its outcome; a success is
  recorded only for a handler that returned nil under the latest claim; attempts
  are charged once each and bounded; the recurring schedule never dies out; due
  jobs get claimed and expired leases get recovered.
- **Control plane**: an acknowledged stop stays in force until it is cleared
  with an authorization, which is for that very stop unless a restart brought
  back a revision that was used before; without an authorization a request raises
  the mode no higher than the mode it read, and no fault raises it.
- **Execution authorization**: one decision per idempotency key, for good; one
  claim of it, on evidence that was in force all at once; no effect under a stop
  that was there before the claim; no refusal without a cause.
- **Launches**: whatever ran had its intent, receipt and proof recorded, and ran
  the configuration the owner decided on; in one process one task of an
  automation runs at a time under a runtime; "completed" is said only of what no
  stop had reached before its result was judged; a stop engaged before the last
  check wins; the registry lets go of every task.
- **Task operations**: the controlled tool completes once at most for a request
  and for an approval; completion is proved by a stored plan; what is settled
  stays so; what is uncertain reaches the owner.
- **Workflow items**: completion is backed by an attestation or by evidence; a
  recovered execution is held for review until an operator resolves it, or an
  older copy of the row is saved; nothing stays in hand for ever.
- **Reminders**: a grant has one log and one verdict; a withdrawn grant stays
  silent; a due one gets its verdict.
- **Ledger**: an operation is completed only with a verified run of its own;
  only low-risk work is run; an item gets a second operation only when the
  operator rejected the first. That an operator's answer stands and that every
  new operation gets classified is what the code says; section 5 refutes both.

## 2. Modules

| Module | Role |
|---|---|
| `DurableJob` | the job table, its runners and handler goroutines |
| `OpsControl` | the emergency stop and the autonomy mode |
| `OperationLedger` | the ledger with the pass, the operator's requests and recovery |
| `PolicyEvidence` | the sources an effect is judged by, and what may be authorised on them |
| `GovernedGrant` | abstract: one final decision per key, claimed once on evidence in force |
| `ExecutionAuthorization` | receipts, recheck, claim and effect; implements `GovernedGrant` |
| `AgentLaunch` | an automation's launches: proof, authorization, registry, adapter, events |
| `TaskOperation` | task requests as durable operations, and their review queue |
| `WorkflowClaim` | one workflow item: its claims, recovery, operators and follow-ups |
| `ReminderDelivery` | one reminder: decisions, grants, runs and the log of attempts |
| `MCDurableJob`, `MCOpsControl`, `MCOperationLedger`, `MCExecutionAuthorization`, `MCAgentLaunch`, `MCTaskOperation`, `MCWorkflowClaim`, `MCReminderDelivery` | values of the constants for TLC, symmetry |
| `DurableJobProofs`, `OpsControlProofs`, `OperationLedgerProofs`, `ExecutionAuthorizationProofs`, `AgentLaunchProofs`, `TaskOperationProofs`, `WorkflowClaimProofs`, `ReminderDeliveryProofs` | theorems and proofs, a module per model |

Every model has the same layout: constants with named assumptions, variables,
types, `Init`, the repository's statements as operators, one action per
handler or step, `Next`, the fair specification, properties. Definitions whose
name has a suffix (`Owned_StatusOnly`) are plausible mistakes in the definition
they stand before; they take part in no specification.

A step is what the code does atomically: one database statement or transaction,
one call under a mutex, one file write. Everything else may come in between.
Faults are switched on by the constant `Faults` in the first three models, so
that a run says which it allows; in the others any step may fail, and
`MaxFaults` bounds how many do (in `AgentLaunch` `MaxEvents`, together with the
edits and stop requests of operators).

## 3. The models

### DurableJob: `durablejob/repository.go`, `runner.go`

`job` is the table. `pc`, `cycleNow`, `batch` and `stopping` are the local
state of each runner's `Start` / `RunOnce` / `execute`; `calls` are the handler
goroutines, which live on when the runner loses interest in them. `now` is an
explicit clock, so any amount of time may pass between two steps.

- `StartRunner` is `RegisterRecurring` (`EnsureScheduled`) followed by `Start`.
- `Reap`, `ClaimDue`, `ClaimError` are `RunOnce`. A claim hands the runner
  *copies* of rows, and `execute` decides with the copies.
- `Invoke`, `WorkSucceeds`, `WorkFails`, `WorkPanics`, `EnqueueNext`,
  `EnqueueNextFails`, `Discarded` are the goroutine of `safeInvoke` and, for the
  recurring kind, the closure `RegisterRecurring` wraps around the work.
- `Settle`, `SettleError`, `SettleCancelled`, `Heartbeat`, `LeaveJob` are the
  select loop of `safeInvokeWithHeartbeat` and the writes of `execute` after it.
- `Owned` is the fence `ownedLease`: the outcome statements have no effect
  unless the row is running, held by this runner, and of this generation.

Abstractions: one queue (reaping, the one statement that does not filter on it,
treats all rows alike); one process per runner, so that a crash takes the
handler goroutines along; ids are handed out in creation order; the clock read
at the start of a cycle is one step with the reap; `ClaimDue` is a transaction
with row locks and therefore one exact step; `SKIP LOCKED` only lets another
runner see fewer rows for a moment, which in the model is a claim that happens
a moment later.

### OpsControl: `opscontrol/emergency_stop.go`, `control.go`, `service.go`

`stop`/`stopErr` and `mode`/`modeErr` are the two stores in memory, `stopFile`
and `modeFile` their files, `resumer`, `setter` and `verifier` what each request
in flight has read. `approvals` are the unexpired approvals a person gave.

- `Pause` engages the stop. It fails closed: memory is stopped even when the
  file could not be written. `held` records whether a stop was acknowledged.
- `Resume`, `Authorize`/`Deny`, `Clear`/`ClearConflict` are
  `DisengageEmergencyStop`: read the revision, obtain an authorization bound to
  it, compare-and-swap.
- `Verify`, `VerifyEngage`, `VerifyRun`, `Restore`/`RestoreConflict` are
  `VerifyEmergencyStop`.
- `SetMode`, `AuthorizeMode`/`DenyMode`, `WriteRestriction`, `WriteEscalation`
  are `Service.SetMode` and the two controller writes it chooses from.
- `WriteStop` and `WriteMode` are `os.WriteFile`: new contents, old contents, or
  an undecodable remainder, because it truncates before it writes. `Restart`
  loads both files; an undecodable one counts as *stopped* and as *paused*. A
  write that failed before it leaves an older revision in the file, which the
  restart brings back; `lost` records the engagements that came before it.

`AuthSeesStop` says whether the authorizer consults this stop: the server's
does (`router/routes.go:127,613` with `executionauth/service.go:166`), the one
the tests inject does not. With the first, `Authorize` is never enabled while the
stop is engaged, so that a stop is cleared by nobody and all that is said about
clearing holds trivially; the runs about it take the second, the theorems hold
for both. `id` in a stop's state and in approvals names the engagement; it
exists for the properties only.

### OperationLedger: `operations`, `background`, `phase2`, `opscontrol/recovery.go`

`op` is the table in creation order; `actor` says where the pass and each
request are, with the copy of the row they hold (`cur`) and the rows they still
have to take (`due`); `rules` are the block rules, `todo` what the pass still
ingests, `artifacts` what the safe worker created. `verified` records which
runs the broker verified, `dismissed` which operations a request rejected.

- `StartPass`, `IngestNew`, `IngestFound`, `Refresh`, `IngestError`, `Halt`,
  `ListDue`, `Classify`, `Route`, `Draft`, `Done` are `Worker.RunOnce`.
- `Ready`, `Run`, `RunFails`, `Effect`, `Verifying`, `Complete`, `Fail` are
  `ExecuteSafeOperation`, which the pass and the run request share.
- `Get` and then `Approve`, `Reject`, `Later`, `AddRule`/`BlockSimilar` or
  `Ready` are a request: it reads the row, then writes what it made of it.
- `ListRunning`, `Interrupt`, `ListVerifying`, `Confirm` are `Recover`.
- `Control` changes the mode or the stop at any time; when that is allowed is
  the matter of `OpsControl`.
- `Transition` is `Service.Transition`: the status machine looks at the *copy*,
  and the save writes all of it over whatever the table holds by now.

Abstractions: one owner and workspace; audit events, versions and evidence are
left out (errors of `AppendEvent` are ignored by the code, and nothing reads an
event back); an item is its dedupe key, with its risk given by `Risk`; the feeds'
items are all reversible and internal, as their readers produce them; the order
in which a pass takes the rows it listed is left open. Passes exclude each
other by `Module.runMu`, so there is one `Worker`.

### ExecutionAuthorization: `executionauth`, `source/authorization.go`; GovernedGrant

`policy` holds the revision in force of each source the service consults (stop,
runtime selection, preflight, Constitution, agent, approval, mandate), and
`Verdict` what each revision says. `receipts` and `consumer` are the two tables,
by idempotency key; `call` says where each caller is.

- `Evaluate` is one consultation of `Authorize`, in the code's order; any source
  may change between two of them. `Persist` is `CreateOrGet`: the first decision
  under a key wins, a denial included.
- `StartRecheck` and `Recheck` read the sources again, in the recheck's order.
- `Consume` inserts the consumption row; `FinalStopCheck` and `RunEffect` are the
  caller, as `source/authorization.go` and the runtimes write it.
- `PersistFails`, `ConsumeFails` are database errors with or without the write,
  `Crash` the death of a caller; it may call again under the same key.

`GovernedGrant` is what this promises: a key is decided once; one caller claims
it, with the decided body, on pinned evidence that was in force *all at once*
during the call (`snapshot`), having seen the unpinned sources allow after that.
The refinement maps receipts to decisions and consumptions to holders. The
snapshot is the policy when the recheck begins; it is the right moment because a
pinned source that still has the recorded revision when it is reread had it then
too, revisions being never reused.

What it does not promise, and the model shows: the stop, the selection and the
approval are only seen to allow at some moment of the recheck; one may be
withdrawn before the claim. A receipt that was authorized with a mandate which
itself asks for an approval never passes its recheck.

### AgentLaunch: `automation/automation_service.go`, `approval_proof*.go`, `agentruntime/runtime.go`

`row` is the automation's configuration, `decision` the configuration that the
recorded decision of each approval source is bound to, `proofs`/`spent` the
single-use proofs, `intent` and `outcome` the two events of a launch. `running`
is the registry of each process, keyed by runtime; `cancelled` are the contexts a
stop request cancelled, `missed` those of them it cancelled after the result had
been judged. `stopper` is a stop request in progress.

- `RecordApprovalDecision` binds the decision of a source to the row as it is
  now, once per source; after an edit another source may decide anew.
  `IssueApprovalProof` makes a proof of a decision that still fits the row.
- `Begin`, `SaveIntent`, `EntryStopCheck`, `VerifyAndConsumeApproval`,
  `Authorize` are `launch` and `executeLaunch` up to the boundary; a script then
  runs (`BoundaryStopCheck`, `RunScript`), an agent runtime goes through
  `Execute`: `RegistryStopCheck`, `RegisterRunningTask`,
  `VerifyFinalEffectProof`, `CancellationCheck`, `LastStopCheck`,
  `StartAdapter`, `AdapterReturns`.
- Every return of `Execute` after the registration leaves its deferred
  `FinishRunningTask` to do, a step of its own: until then a stop request still
  finds the task.
- `SaveLaunchEvent` and `UpdateAutomation` end every launch; the second writes
  the whole row read at the beginning.
- `RequestStop`, `StopTask` and `PersistRuntimeStopEvent` are `stopRuntimeTask`:
  it reads the row, looks in the registry under the runtime that row names,
  answers "stopping" when it finds a task of its owner, and otherwise blocks and
  writes back the row it read. A script has no entry to look for.
- `EngageStop`, `ClearStop`, `Edit`, `Crash` happen at any time. A process that
  dies takes its registry, its launches and its stop request along, the rows
  stay.

Abstractions: when a proof's time is over is chosen when it is presented
(`VerifyAndConsumeApproval`); results are completed or failed, "blocked" being
handled as failed; the intent of a stop request is left out, a request that
cannot store it changes nothing else; proofs from workflow decisions are issued
and consumed as those from task reviews and are left out; when the authorizer
allows is the matter of `ExecutionAuthorization`, here it may refuse, and does
under a stop. Seen: the trailing whole-row write (`automation_service.go:955`)
undoes an operator's edit made during the launch, and so does the write-back of a
stop request; a stop that arrives between the check of the context
(`agentruntime/runtime.go:521`) and the release is answered "stopping" although
the launch is stored as completed; a stop requested after an edit of the runtime
does not find the task that was started before it, and a task under the new
runtime may run beside that one; the decision is bound to the row at the time it
is *recorded*; the memory store of proofs, used without a database, forgets
consumptions at a restart.

### TaskOperation: `task/task_operation_*.go`, `service.go`, `state_repository*.go`, `review_reconciliation.go`

`ops` are the operation rows: one per idempotency key, and one per approval of a
review (the approved run has a key of its own). `reviews` are the review items
with their revision, `decisions` the approvals in order, `plans` the completion
log, `effects` how often the controlled tool completed.

- `Submit` and `ClaimApproved` claim a row; an existing one answers, and a row
  whose lease is over goes to review (`ClaimTaskOperation`).
- `Attempt`, `RunTool`, `AttachReviewItem`, `AppendCompletionPlan`, `WorkFails`
  are `runOperation` with its two attempts; `HeartbeatTaskOperation` is the
  goroutine beside it, which may lose the lease without stopping the work.
- `Settle`, `SettleFails`, `MarkTaskOperationNeedsReview`, `EnsureReview`,
  `ReviewFails` are the end of `withTaskOperation`.
- `Approve`, `Reject`, `MarkReviewOutcome` resolve a review; `ListApproved` and
  `Reconcile` are `ReconcileApprovedReviewsForOwner`, which reads, then writes.

Planning, prompts and verification choose a result. Only the lease of a key
expires in the model (an approval's own operation is settled by the reconciler);
the minimum age of what is reconciled is left out, so that a reconciliation may
come at any time. Seen: a slow run of revision 1 may settle the approval of
revision 2, because outcome and approval are compared by time and status only
(`service.go:1436`); after a review is resolved, repeating the request answers a
conflict; a handler that lost its lease answers "needs review" without making
sure there is one, so somebody has to ask again; no worker recovers expired
operations by itself.

### WorkflowClaim: `workflow/repository.go`, `service.go`, `scheduler.go`

`row` is one item: state, claim, lease, attempts left, the required and the
given approval, the review of an unknown outcome, `archived`. `loop` is its open
loop, `worker` and `operator` hold the copies they read. `unknown` records that
the last recovered execution is still to be reviewed, and `stale` which copies
were read before that recovery.

- `Claim` is `claimRunnableItem` and the checks after it (`Preflight`);
  `RenewRunnableItemClaim`, `RunTask`, `Settle`, `Die` are `runTaskWithLease` and
  `runWorkflowItem` with every outcome; `CompleteClaimedItem` and
  `UpdateClaimedItem` are the fenced writes.
- `RecoverExpiredWorkflowClaim` is the sweep that sends an expired claim to
  review.
- `Request` reads the row and decides on it (`Transition`, `Reject`,
  `ResolveInterrupted`, `ResolveProposal`, `RetractSource`, `SupersedeSource`);
  `UpdateItem` saves the copy whole, `RecordDecision` the approval decision after
  it.
- `ClaimDueOpenLoop` to `TriggerOpenLoop` are `runOpenLoop`, whose save of the
  item is fenced by the *loop's* claim only.

Abstractions: one open loop and one operator; the claim's update and its read
back are one step; backoff is left out (a retry may come at any later time);
attempts are counted down (`left` = `max_retries` − `retry_count`); proposals are
always open; a task runner is configured, as `router/routes.go` always does; the
emergency stop is not in this model. Seen: a save of an older copy may undo a
claim, a completion, or a recovery with its review, and what holds in spite of it
is what the run checks; a worker whose last renewal fails settles its task, whose
effects nobody knows, as failed, and it may be retried at once
(`service.go:2699`); an archived item can be rejected, which makes it blocked
and still archived, so that nobody claims it; an item put `in_progress` by hand
before its first run has neither a claim nor a last run and is found by no
recovery, which `ClaimsEnd` leaves out; a second completion fails on the unique
attestation and ends in recovery.

### ReminderDelivery: `workflow/reminder_delivery*.go`, `reminder_activation*.go`

`decisions` is the chain of the owner's decisions on a prepared reminder,
`grants` the delivery authorizations with the decision each was given under,
`attempts` the log of each grant, `signals` the inbox, `source` the checklist
item compared with what was prepared.

- `Decide` and `Authorize` are the owner's calls. Both end in a transaction that
  checks all again that was read before it, so each is one step.
- `FindDue` takes a batch with the number of attempts made so far;
  `LoadActivation`, `LoadSource`, `Judge`, `Deliver`, `SaveAttempt` are one turn
  of the loop of `runDueReminderDeliveries`. The signal is recorded under the
  grant's id, so that a second delivery adds none.
- `SaveAttempt` meets the unique key of grant and number: what was stored first
  stays, and a different outcome is an error that ends the whole run.

Abstractions: the times after which a preparation takes no decisions and an
approval no grant are left out, because nobody has to decide; idempotency keys of
calls are folded into the grant. Seen: a grant can end as a dead letter or as
suppressed although its signal is in the inbox, when the answer or the save was
lost; the expiry of an approval is not looked at again at delivery, only the
chain's end is; after fifteen minutes a preparation takes no decisions, a
revocation included (`reminder_activation.go:267`), and only a change of the item
stops the reminder; a reminder more than thirty days ahead gets a grant that ends
before it is due (`reminder_delivery.go:138-142`).

## 4. The runs

Bounds are constants and appear in the guards of the actions they bound. In the
passing runs deadlock is not checked: the models end where a bound is used up,
and the real system may be idle.

| Run | Question | Bounds and why they are enough |
|---|---|---|
| `durable_fencing` | who may write an outcome, which success counts, does the schedule survive, with crashes, database errors and failing handlers | two runners (one an older build without a handler for one kind), one recurring chain of two rows or one row and a client's job, batch 2, clock to 2 with lease 1: enough for a claim to expire, be reaped and be claimed by the other runner while the first still holds it |
| `durable_restarts` | are attempts bounded, is a due job claimed and an expired lease recovered, with shutdowns, crashes, panics and failed rescheduling | two runners that handle both kinds, one recurring chain of two rows, `max_attempts` 2, batch 1, interval and lease 1, clock to 2: first and last attempt both occur on both runners, and a retried or reaped job and its own successor, both due, compete for a batch of one. A lease expires at most twice, so a job whose lease expires again and again, and which stays the oldest, cannot hold back the others for ever here |
| `ops_stop` | does an acknowledged stop hold, is the approved stop the one that is cleared, does nothing raise the mode beyond what the request read | one resume, two verifications, two mode changes, two engagements, revision up to 4; failing and torn writes and restarts: two of a kind race, and a revision comes back after a restart and is used by another engagement. Symmetric in verifications and mode changes |
| `ops_mode_race` | a finding of section 5 | two mode changes, nothing else |
| `ops_verify_race` | a finding of section 5 | one resume, one verification, two engagements, no faults |
| `ledger` | earned completion, low-risk effects, duplicates only of rejected operations | a low-risk and a high-risk item, two rows, one request or recovery at a time beside the pass, database errors, crashes; modes `autonomous_safe`, the only one in which the pass runs work itself, and `draft_only`, changed at any time. Requests beside each other are the matter of the theorems |
| `ledger_starved` | a finding of section 5 | two items, two rows, a limit of one, no requests, modes paused / autonomous |
| `authorization` | one effect per key, the refinement of `GovernedGrant`, no effect under an older stop, no refusal without a cause | one key, three callers: two with the same body, judged with a mandate, one of which may call twice (the retry after a lost answer), and one with another body, judged with an approval; two changes of the policy among stop (on, off again), Constitution, a withdrawn approval and a replaced mandate; one fault |
| `launch` | what backs a run, one task at a time under a runtime, what is reported, the stop, the end of tasks | two launches in one process, configurations of two agent runtimes and a script, two approval sources, two proofs, and two events among edits, stop requests (of the owner or not), engaged stops, failing steps and crashes: an edit and a stop may come before, between or after the decisions and in any place of the launches. Several processes are the matter of the theorems |
| `task` | one effect per request, proved completion, settled rows, no lasting uncertainty | two handlers, one key, two approvals (of the request's own review, and of the review of the approved run), one fault. Deadlock is checked |
| `workflow` | backed completion, held reviews, the end of claims | two workers, one of them the sweep that also follows loops; two attempts, two claims, one operator request, one fault; items born ready, or waiting for an approval: a follow-up and a request may each hold a copy from before a recovery |
| `reminders` | one log, silent withdrawn grants, settled due grants | two runners, two decisions and so two grants, batches of two, two attempts, one change of the source, two faults: enough for a dead letter, a collision and a grant replaced in mid-run |

Larger instances were explored once for safety where the run's own is small for
the sake of liveness or of time: `TaskOperation` with every review decidable
(1.5 million states), `ReminderDelivery` with keys of their own and expiring
approvals (more than 20 million states of a space that was not exhausted), all
without a violation.

Some exceptions are part of what a property says, and of the theorem about it.
`StopHolds` leaves out stops engaged while a verifier is between its read and its
own engagement; `ops_verify_race` shows why. `RaisesAreBounded` lets a request
that waived its authorization restore the mode it read; `ops_mode_race` shows
why. `ClearsTheApprovedStop` leaves out approvals from before a restart that
brought an older revision back. `DuplicatesWereDismissed` counts the operations
that were never rejected: a rejected one may be active beside its successor, when
two concurrent requests read it and the slower one saves its copy (`Later`);
`OperationLedger_duplicate.cfg` shows it. `ReviewHoldsItem` ends when a copy from
before the recovery is saved; `WorkflowClaim_review.cfg` shows that.
`ScheduleContinues` is checked and proved without panics, refused enqueues and
shutdowns; section 5 says what happens otherwise.

### Fairness

- `DurableJob!FairSpec`: weak fairness of a runner's own steps (`StartRunner`,
  `Reap`, `Invoke`, `DeadLetterUnregistered`, `Settle`, `Stop`), because the
  runner is a ticker loop that blocks on nothing but the handler; of the awaited
  handler, because handlers are assumed to return; strong fairness of `ClaimDue`,
  because a claim that fails is retried by the next tick and errors are
  transient; crashes stop some day. Nothing is assumed of the clock, of
  heartbeats or of callers.
- `OpsControl!FairSpec`: the operator keeps approving and resuming (weak
  fairness), requests in flight are answered, an approval that is there again
  and again is found some day (strong fairness of `Authorize`), and expiry and
  restarts stop some day. Only `OpsControl_clear_blocked.cfg` uses it: even with
  a correct operator, the stop does not go away.
- `OperationLedger!FairSpec`: passes are requested again and again and go on
  (no scheduler of the backend starts them; the interface does), a listing and a
  write that are tried again and again succeed some day (strong fairness of
  `ListDue` and of classifying each row), the operator clears the stop, crashes
  stop. Only `ledger_starved` uses it: even so a new operation may never be
  listed.
- `AgentLaunch!FairSpec`: weak fairness of a launch's own steps: it is one call
  that blocks on the database and on an adapter with a timeout.
- `TaskOperation!FairSpec`: weak fairness of a handler's steps and of the
  lease's expiry (time passes); strong fairness of `Submit` and `ListApproved`,
  because nothing in the backend repeats an unanswered request or reconciles on
  its own: the property says what a caller and an operator who keep trying get,
  and handlers are not always free for them.
- `WorkflowClaim!FairSpec`: tasks are assumed to return (`Progress`), leases
  expire, the scheduler's sweep runs. Nobody has to ask, to claim or to renew.
- `ReminderDelivery!FairSpec`: runs are started again and again (the durable
  scheduler and the interface do), and go on.

## 5. Findings

Three are runs, in which TLC finds the property violated.

- `ops_verify_race`, `OperatorStopHolds`: `VerifyEmergencyStop` reads the prior
  state, then engages (`opscontrol/service.go:323`). A stop an operator engages
  in between is released by the restore, although "a concurrent operator decision
  can never be overwritten by the verifier" (`:317-318`).
- `ops_mode_race`, `EscalationIsAuthorized`: `SetMode` compares the ranks on the
  mode it read and writes a restriction unconditionally (`:147`). When another
  request lowered the mode meanwhile, the restriction *raises* it, without the
  "fresh exact-bound authorization" (`:105-106`).
- `ledger_starved`, `NewIsClassified`: `ListDue` takes the oldest *actionable*
  rows up to a limit, and these include `classified`, `failed`, `interrupted` and
  `approved`, which a pass skips (`operations/repository.go:127-146`,
  `background/worker.go:190`). One item that is observed while the mode is
  `paused` stays `classified`, fills a limit of one in every later pass, and the
  next item stays `new`, although a pass is to classify "every actionable
  Operation currently in `new`" (`worker.go:181-182`). With the code's limit it
  takes that many such rows.

The others can be had with `tlc -config <file> <module>`:

| Configuration | Module | What happens |
|---|---|---|
| `DurableJob_panic.cfg` | `MCDurableJob` | Work that panics on its final attempt ends the recurring schedule: the recovery from a panic is outside the closure that enqueues the next occurrence (`durablejob/runner.go:262`), although "the schedule always continues" (`:143-144`). |
| `OpsControl_clear_blocked.cfg` | `MCOpsControl` | With the authorizer the server is wired with, every request to clear the stop is denied because the stop is engaged. |
| `OperationLedger_race.cfg` | `MCOperationLedger` | An answer of the operator is overwritten by the pass, which saves a row it read before (`operations/repository.go:76`). |
| `OperationLedger_duplicate.cfg` | `MCOperationLedger` | Two requests read an operation; one rejects it, the next sync creates its successor, and the other (`Later`) saves its copy: one item has two active operations. |
| `WorkflowClaim_review.cfg` | `MCWorkflowClaim` | A request that read the item before its execution was recovered saves its copy: the review is gone and no operator has resolved it, although "unknown external side effects require explicit operator resolution" (`ResolveInterruptedExecution`, `workflow/service.go`). A follow-up's save does the same. |
| `WorkflowClaim_rerun.cfg` | `MCWorkflowClaim` | Without an operator or a fault, a follow-up that read the item before it was claimed saves it as ready again (`workflow/service.go:2125`), and a second worker runs it beside the first, although the claim is a "single-consumer execution claim" (`:1966`). |
| `WorkflowClaim_approval.cfg` | `MCWorkflowClaim` | An item that the runtime sends to `needs_approval` is not marked as requiring one, and may be made ready without it. |

Seen on the way and not made runs of their own: the recurring chain also ends
when the last attempt's enqueue fails or the runner is shut down during the last
attempt, and it doubles when a lease expires between the successor's enqueue and
the outcome; with failing writes, an approval given for a stop that was never
persisted fits the stop that has its revision after a restart
(`opscontrol/emergency_stop.go:137,153`); an operation that was interrupted or
approved has no step that takes it on; a dismissed item comes back with the next
sync; block rules are lost at a restart.

## 6. Proofs

The proofs hold for every value of the constants that satisfies the named
assumptions: any number of runners, jobs, requests, items, any delays, leases,
limits and any set of faults. TLC evaluates the assumptions in every run. Those
of the models say that bounds are natural numbers, that functions have the
domains their names say, and that `None`, the null value, is no launch, review
status, outcome or other value it could be mistaken for. One
theorem, `ScheduleNeverEnds`, needs more and says so in its `ASSUME`.

Every safety invariant and every action property that a passing run checks is
also a theorem. Each proof has the same shape: an inductive invariant that
implies the property; a lemma for the initial states, one for each action or
group of alike actions, and temporal reasoning only in the theorem.

**DurableJobProofs.** The invariant `IInv` has five parts: types; a runner in its
batch has an entry left (`BatchNotEmpty`); rows satisfy the attempt bounds
(`RowsOK`); a held claim has an attempt left, the kind of its row and a
generation that is at most the row's, and when it is the row's and the row is
running, the copy agrees with it on the attempts (`ClaimsOK`); two held claims
of one job have different generations (`ClaimsDiffer`). `OneWriter` does not
follow from types: that two claims cannot both pass the fence is the last part,
and it is preserved because `ClaimDue` is the only step that creates claims and takes a generation no claim
has. Quiet steps (the table is unchanged, or changed where no claim looks) are
handled once (`QuietInduction`), the writes of a holder once (`HolderWrites`),
and the claim, the long case, on its own (`ClaimInduction`). The two action
properties follow from what each statement may do to a row (`StepTables`).

`ScheduleNeverEnds` assumes that `Faults` has no panic, refused enqueue or
shutdown; handlers that fail, crashes, lost leases and failing writes are
allowed. That an occurrence has a successor is not inductive: the successor may
have run and gone before its predecessor, whose lease expired, records an
outcome. `ChainInv` says instead that a handler that concluded an occurrence left
an active occurrence with a *higher id* behind (`Later`); ids are handed out in
order, so the highest occurrence always remains.

Theorems: `Invariance`, `TypeCorrect`, `FencingHolds`, `CopyIsAlwaysCurrent`,
`AttemptsAreBounded`, `SuccessesAreEarned`, `AttemptsAreChargedOnce`,
`ScheduleNeverEnds`.

**OpsControlProofs.** `StopInv` adds two parts to `StopHolds`: the file of an
acknowledged stop is engaged or unreadable (`FileHolds`, what a restart needs),
and a verifier that would restore a released state while a stop is held has a
revision that is no longer current (`PriorIsStale`, what a restore needs). The
second is an invariant because every engagement takes a new revision.
`RaisesStayBounded` is about any number of mode changes at once; its invariant
`ModeInv` says that a readable file agrees with memory, so that a restart raises
nothing, and that a request on the restricting branch is about to write a mode no
higher than the one it read. `ApprovedStopIsCleared` assumes nothing of the
faults either. The file never holds a later revision than memory, and the same
one only for the same state (`StatesInv`), so a restart keeps the state or brings
an older revision back; an approval, or a request past its authorization, that
has the current revision was given for the current engagement, or for one from
before such a restart (`ApprovalInv`, `Fits`).

Theorems: `TypeCorrect`, `AcknowledgedStopHolds`, `RaisesStayBounded`,
`ApprovedStopIsCleared`.

**OperationLedgerProofs.** Writers overwrite each other at will, so nothing can
be proved of a row from the row's own history. `LedgerInv` instead says that
every row *and every copy any actor holds* is safe to save: `TableSound`,
`ActorsSound` (with what the place of an actor adds: one about to complete holds
a verified operation, one about to run holds a low-risk one), `ArtifactsSound`.
A save then preserves the invariant whatever it overwrites (`Write`), a read
gives a sound copy (`StoredCopy`), and each action is an instance of a few step
lemmas (`MoveStep`, `LeaveStep`, `SaveStep`, `TransitionStep`).

`DuplicatesAreOfDismissed` is about any number of requests at a time. That no two
operations of an item are active is not kept by the code; what is kept is that no
two operations that *were never rejected* are of one item (`NoTwins`). A row is
created only when every other operation of its item is dismissed (nothing puts
one in `archived`), and a row that is dismissed, and every copy of it, was
rejected by a request (the last part of `SoundIn`). A stale save may bring a
rejected row back, which `NoTwins` does not count.

Theorems: `TypeCorrect`, `CompletionsAreEarned`, `EffectsAreOfLowRisk`,
`DuplicatesAreOfDismissed`.

**ExecutionAuthorizationProofs.** `IInv` says of each phase of a call what it
knows: a receipt under evaluation has passed every place it no longer has to do
(`Evaluating`), a decided one is warranted by its evidence (`Evaluated`), a call
that goes on holds the receipt stored under its key (`Authorized`), what a
recheck has passed was in force when it began (`Rechecked`), and a caller that
acts holds the consumption row of an effect still to come (`Acting`). Evidence is
never newer than the policy (`Read`); as revisions only grow, one that is still
in force at the recheck was in force at its start, which is where the refinement
finds its snapshot. `ImplementsGovernedGrant` maps every step to a step of
`GovernedGrant` or to a stutter.

Theorems: `Invariance`, `TypeCorrect`, `EffectRunsOnce`, `EffectsHeedTheStop`,
`RefusalsHaveACause`, `ImplementsGovernedGrant`.

**AgentLaunchProofs.** `LaunchOK` collects what a launch has behind it at each
place: its intent (`Underway`), its own proof and receipt for the configuration
it read (`Backed`), the run and what backs it (`RunOK`), its entry in its
process's registry under its runtime, from the registration to the release
(`PlaceOK`), and its result (`OutcomeOK`): one that says completed was not
signalled before it was judged (`RanUnsignalled`). `SharedOK` says that proofs
carry what their source decided, that only a standing stop warns, and that a stop
request is signalled under a runtime. A step of one launch, of an operator or of
a stop request leaves the others `Undisturbed`, which is proved once. The number
of processes, runtimes and sources is arbitrary.

Theorems: `Invariance`, `TypeCorrect`, `RunsAreBacked`, `OneTaskAtATime`,
`ReportsAreRecorded`, `StopWins`.

**TaskOperationProofs.** A lease may be lost while the work goes on, so the row
does not say who runs an operation. `Exclusive` says that at most one handler
does, because a row is claimed only when it is new; `RunOK` says how far its run
got in what it did and stored; `ReviewOK`, `GivenOK` and `ApprovalOK` keep the
approvals in order and each of them for a revision of its own. A reconciler
that read the log holds a proof that cannot be taken back (`Proven`), because
plans are only appended.

Theorems: `Invariance`, `TypeCorrect`, `EffectsHappenOnce`,
`CompletionsAreProven`, `SettledStays`.

**WorkflowClaimProofs.** As in the ledger, whole rows are read, kept and saved
back. `Sound` is asked of the row and of every copy that can still be saved (the
operator's, and a follow-up's), and a completed copy is backed for good, because
attestations and evidence are never deleted. No worker has an item under review
(`WorkerOK`), so no outcome ends a review. `ReviewKeepsItem` has an induction of
its own: while the review of a recovered execution is due, the row is marked, and
every copy that can still be saved is marked, resolves the review, or was read
before the recovery (`Marked`).

Theorems: `Invariance`, `TypeCorrect`, `CompletionIsBacked`, `ReviewKeepsItem`.

**ReminderDeliveryProofs.** A runner numbers its attempt by a count it made
before it read the decision and the source. `Valid` is what is left of that count
when it is used: the attempts counted are in the log, none of them final, with
room for one more. That attempts and grants are never removed keeps it true
under the steps of others (`OthersKeep`). `SupersededIsSilent` adds that no
runner at the sink acts for the withdrawn grant (`Silent`).

Theorems: `Invariance`, `TypeCorrect`, `SupersededIsSilent`.

## 7. What is only checked, and what is left out

Only model-checked: liveness, which TLAPS does not prove under fairness here:
`DueJobIsClaimed`, `ExpiredLeaseIsRecovered`, `RegisteredTaskEnds`,
`UncertaintyIsSettled`, `ClaimsEnd`, `DueIsSettled`. TLC
checks them on the bounds of section 4 under the fairness stated there. The
theorems about the currency of a claim's copy and the charging of attempts are
proved of `DurableJob` for every instance, and no run repeats them.

What the proofs do not say: that the model is the code (that is what `map` is
for), anything about the exceptions listed in section 4, and that the schedule
survives a panic, a refused enqueue or a shutdown. For each of these a run or a
configuration of section 5, or its last paragraph, says what goes wrong.

Not modelled, and why, component by component, is in `PROJECT.json`. In short:
the task engine's planning, source connectors, memory and life-data stores are
long sequential programs over text; the bridges keep no state; the frontend,
identity provider and gateway are other programs. The resource reservations of
`pursuit` look like a race, and are not: a database trigger checks the budget
again under a lock of the pursuit.

## 8. Plan

Done: the job queue, the control plane, the ledger, execution authorization with
its abstract grant, launches, task operations, workflow claims and reminders:
models, checks, and proofs of every safety property the runs check.

To prove next: that a row's lease generations, an authorization's receipts, the
decisions on reviews and the log of attempts only grow, as theorems of their
own, which the invariants now contain; an abstract specification of a fenced
lease (one holder whose writes count), which `DurableJob` implements as
`ExecutionAuthorization` implements `GovernedGrant`; the same for the log of
`ReminderDelivery`, as a register that is decided once.

To model: `resilience` (leases by compare-and-swap and
a circuit breaker; the package answers advice and nothing in the backend acts on
it, which is why it comes last), a composition of `OpsControl` and
`OperationLedger` in place of `Control` (after a stop is acknowledged, which
effects can still happen), the idempotency middleware of the router and the two
rate limiters.
