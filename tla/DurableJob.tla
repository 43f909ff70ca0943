----------------------------- MODULE DurableJob -----------------------------
(***************************************************************************)
(* The durable job queue of backend/internal/durablejob: a database table  *)
(* of jobs, polled by several Runners.  A Runner claims due rows under a   *)
(* lease, runs the handler of each claimed job in a goroutine of its own   *)
(* while a heartbeat extends the lease, and records the outcome.  A write  *)
(* of an outcome presents the runner's identity and the generation of its  *)
(* claim (repository.go, ownedLease), and has no effect when either is no  *)
(* longer the row's.                                                       *)
(*                                                                         *)
(* One queue is modelled: every statement but the reaping of expired       *)
(* leases filters on the queue, and reaping treats every row alike.  Each  *)
(* database statement or transaction is one step.  The clock is an         *)
(* explicit variable, so any amount of time may pass between any two       *)
(* steps of a runner (a pause, a slow database, a long handler).           *)
(***************************************************************************)
EXTENDS Integers, Sequences, FiniteSets

CONSTANTS
    MaxJobs,        \* bound on the rows ever created
    MaxClientJobs,  \* bound on those of them that are not recurring
    Kinds,          \* job kinds
    Recurring,      \* the kind each scheduler registers with RegisterRecurring
    Runners,        \* polling runners; one process each
    NoRunner,       \* an empty locked_by
    Registered,     \* kinds each runner has a handler for
    MaxAttempts,    \* max_attempts of the jobs of a kind
    AttemptLimit,   \* bound on max_attempts
    Delay,          \* backoff delay after attempt number 1, 2, ...
    Interval,       \* distance between occurrences of the recurring job
    Lease,          \* Options.Lease
    Batch,          \* Options.Batch
    Faults,         \* which faults may happen, a subset of AllFaults
    MaxTime         \* bound on the clock

AllFaults == {"handler_error", "panic", "db_error", "enqueue_error",
              "crash", "shutdown"}

ASSUME RunnersAssumption == NoRunner \notin Runners
ASSUME KindsAssumption ==
    /\ Recurring \in Kinds
    /\ Registered \in [Runners -> SUBSET Kinds]
    /\ \A w \in Runners : Recurring \in Registered[w]
ASSUME AttemptsAssumption ==
    /\ AttemptLimit \in Nat
    /\ MaxAttempts \in [Kinds -> 1..AttemptLimit]
    /\ Delay \in [1..AttemptLimit -> Nat]
ASSUME TimeAssumption ==
    /\ Interval \in Nat \ {0}
    /\ Lease \in Nat \ {0}
    /\ Batch \in Nat \ {0}
    /\ MaxTime \in Nat /\ MaxJobs \in Nat /\ MaxClientJobs \in Nat
ASSUME FaultsAssumption == Faults \subseteq AllFaults

VARIABLES
    now,       \* the wall clock
    job,       \* the durable_jobs table
    pc,        \* where each runner is in Start / RunOnce
    cycleNow,  \* the value of now a RunOnce read at its start, until it claims
    batch,     \* the claimed jobs a RunOnce still has to execute
    stopping,  \* the runner's context is cancelled
    calls      \* handler goroutines, with what they have done so far

vars == <<now, job, pc, cycleNow, batch, stopping, calls>>

runnerVars == <<pc, cycleNow, batch, stopping>>

-----------------------------------------------------------------------------
Jobs == 1..MaxJobs

(* The rows.  lockedAt is meaningful only while a row is running.          *)

Active == {"pending", "running"}
Terminal == {"succeeded", "dead"}

Row == [status : {"absent"} \cup Active \cup Terminal,
        kind : Kinds, runAt : Nat, attempts : 0..AttemptLimit,
        lockedBy : Runners \cup {NoRunner}, lockedAt : Nat, gen : Nat]

\* What a runner keeps of a claimed row: execute reads these copies, not the
\* table.
Claim == [id : Jobs, kind : Kinds, attempts : 0..AttemptLimit, gen : Nat]

Stages == {"work", "enqueue_ok", "enqueue_final", "ok", "failed"}
Call == [by : Runners, claim : Claim, stage : Stages]

PCs == {"down", "idle", "claim", "run", "wait"}

TypeOK ==
    /\ now \in Nat
    /\ job \in [Jobs -> Row]
    /\ pc \in [Runners -> PCs]
    /\ cycleNow \in [Runners -> Nat]
    /\ batch \in [Runners -> Seq(Claim)]
    /\ stopping \in [Runners -> BOOLEAN]
    /\ calls \subseteq Call

EmptyRow == [status |-> "absent", kind |-> Recurring, runAt |-> 0,
             attempts |-> 0, lockedBy |-> NoRunner, lockedAt |-> 0, gen |-> 0]

Init ==
    /\ now = 0
    /\ job = [j \in Jobs |-> EmptyRow]
    /\ pc = [w \in Runners |-> "down"]
    /\ cycleNow = [w \in Runners |-> 0]
    /\ batch = [w \in Runners |-> << >>]
    /\ stopping = [w \in Runners |-> FALSE]
    /\ calls = {}

-----------------------------------------------------------------------------
(* The repository.                                                         *)

\* Enqueue: a new pending row.
Created(j, k, runAt) ==
    [job EXCEPT ![j] = [EmptyRow EXCEPT !.status = "pending", !.kind = k,
                                        !.runAt = runAt]]

\* The id the next row gets: ids are handed out in order.
Fresh(j) ==
    /\ job[j].status = "absent"
    /\ \A i \in 1..(j - 1) : job[i].status # "absent"

\* A mutant: the generation and the owner are not compared.
Owned_StatusOnly(w, c) == job[c.id].status = "running"

\* ownedLease: the WHERE clause shared by the writes of a claim's holder.
Owned(w, c) ==
    /\ job[c.id].status = "running"
    /\ job[c.id].lockedBy = w
    /\ job[c.id].gen = c.gen

Unlocked(row) == [row EXCEPT !.lockedBy = NoRunner, !.lockedAt = 0]

MarkSucceeded(w, c) ==
    IF Owned(w, c)
    THEN [job EXCEPT ![c.id] = [Unlocked(@) EXCEPT !.status = "succeeded"]]
    ELSE job

\* A mutant: the statement increments the attempts it is given.
MarkForRetry_Increments(w, c, runAt, attempts) ==
    IF Owned(w, c)
    THEN [job EXCEPT ![c.id] = [Unlocked(@) EXCEPT !.status = "pending",
                                                   !.runAt = runAt,
                                                   !.attempts = attempts + 1]]
    ELSE job

MarkForRetry(w, c, runAt, attempts) ==
    IF Owned(w, c)
    THEN [job EXCEPT ![c.id] = [Unlocked(@) EXCEPT !.status = "pending",
                                                   !.runAt = runAt,
                                                   !.attempts = attempts]]
    ELSE job

MarkDead(w, c, attempts) ==
    IF Owned(w, c)
    THEN [job EXCEPT ![c.id] = [Unlocked(@) EXCEPT !.status = "dead",
                                                   !.attempts = attempts]]
    ELSE job

ExtendLease(c) == [job EXCEPT ![c.id].lockedAt = now]

\* locked_at < now - lease
Expired(row, t) == row.status = "running" /\ row.lockedAt + Lease < t

\* A mutant: reaping forgets the status.
ReapExpiredLeases_KeepsStatus(t) ==
    [j \in Jobs |-> IF Expired(job[j], t) THEN Unlocked(job[j]) ELSE job[j]]

ReapExpiredLeases(t) ==
    [j \in Jobs |-> IF Expired(job[j], t)
                    THEN [Unlocked(job[j]) EXCEPT !.status = "pending"]
                    ELSE job[j]]

\* A mutant: run_at < now.
Due_Strict(t) == {j \in Jobs : job[j].status = "pending" /\ job[j].runAt < t}

Due(t) == {j \in Jobs : job[j].status = "pending" /\ job[j].runAt <= t}

\* The results of ORDER BY run_at LIMIT Batch over the due rows.
ClaimOrders(t) ==
    {s \in UNION {[1..n -> Due(t)] : n \in 0..Batch} :
        /\ \A i, k \in DOMAIN s : i < k => /\ s[i] # s[k]
                                           /\ job[s[i]].runAt <= job[s[k]].runAt
        /\ \A j \in Due(t) \ {s[i] : i \in DOMAIN s} :
              /\ Len(s) = Batch
              /\ \A i \in DOMAIN s : job[s[i]].runAt <= job[j].runAt}

Claimed(w, s, t) ==
    [j \in Jobs |-> IF j \in {s[i] : i \in DOMAIN s}
                    THEN [job[j] EXCEPT !.status = "running", !.lockedBy = w,
                                        !.lockedAt = t, !.gen = @ + 1]
                    ELSE job[j]]

ClaimOf(j) == [id |-> j, kind |-> job[j].kind, attempts |-> job[j].attempts,
               gen |-> job[j].gen + 1]

ActiveOf(k) == {j \in Jobs : job[j].status \in Active /\ job[j].kind = k}

-----------------------------------------------------------------------------
(* The clock and the callers of Enqueue.                                   *)

Tick ==
    /\ now < MaxTime
    /\ now' = now + 1
    /\ UNCHANGED <<job, runnerVars, calls>>

\* A caller (scanWork, for one) enqueues a job that is due at once.
EnqueueJob(j, k) ==
    /\ Fresh(j)
    /\ k # Recurring
    /\ Cardinality({i \in Jobs : job[i].status # "absent" /\ job[i].kind # Recurring})
          < MaxClientJobs
    /\ job' = Created(j, k, now)
    /\ UNCHANGED <<now, runnerVars, calls>>

-----------------------------------------------------------------------------
(* A runner's process.                                                     *)

Current(w) == Head(batch[w])
CallOf(w, c, stage) == [by |-> w, claim |-> c, stage |-> stage]
Awaits(w, call) ==
    pc[w] = "wait" /\ call.by = w /\ call.claim = Current(w)

\* The next entry of the batch, or the end of RunOnce.
Advance(w) ==
    /\ batch' = [batch EXCEPT ![w] = Tail(@)]
    /\ pc' = [pc EXCEPT ![w] = IF Len(batch[w]) = 1 THEN "idle" ELSE "run"]
    /\ UNCHANGED <<now, cycleNow, stopping>>

\* A process starts: RegisterRecurring's EnsureScheduled, then Start.  The
\* advisory lock makes EnqueueIfNoActive one step.
StartRunner(w) ==
    /\ pc[w] = "down"
    /\ pc' = [pc EXCEPT ![w] = "idle"]
    /\ IF ActiveOf(Recurring) # {}
       THEN job' = job
       ELSE \E j \in Jobs : Fresh(j) /\ job' = Created(j, Recurring, now)
    /\ UNCHANGED <<now, cycleNow, batch, stopping, calls>>

\* RunOnce: read the clock and reap.
Reap(w) ==
    /\ pc[w] = "idle"
    /\ cycleNow' = [cycleNow EXCEPT ![w] = now]
    /\ job' = ReapExpiredLeases(now)
    /\ pc' = [pc EXCEPT ![w] = "claim"]
    /\ UNCHANGED <<now, batch, stopping, calls>>

ClaimDue(w) ==
    /\ pc[w] = "claim"
    /\ \E s \in ClaimOrders(cycleNow[w]) :
          /\ job' = Claimed(w, s, cycleNow[w])
          /\ batch' = [batch EXCEPT ![w] = [i \in DOMAIN s |-> ClaimOf(s[i])]]
          /\ pc' = [pc EXCEPT ![w] = IF s = << >> THEN "idle" ELSE "run"]
    /\ cycleNow' = [cycleNow EXCEPT ![w] = 0]
    /\ UNCHANGED <<now, stopping, calls>>

\* A database error ends the cycle (of the reap, nothing was changed).
ClaimError(w) ==
    /\ "db_error" \in Faults
    /\ pc[w] = "claim"
    /\ pc' = [pc EXCEPT ![w] = "idle"]
    /\ cycleNow' = [cycleNow EXCEPT ![w] = 0]
    /\ UNCHANGED <<now, job, batch, stopping, calls>>

\* execute, no handler for the kind: straight to the dead letter.
DeadLetterUnregistered(w) ==
    /\ pc[w] = "run"
    /\ Current(w).kind \notin Registered[w]
    /\ \/ job' = MarkDead(w, Current(w), Current(w).attempts + 1)
       \/ "db_error" \in Faults /\ job' = job
    /\ Advance(w)
    /\ UNCHANGED calls

\* execute, safeInvokeWithHeartbeat: the handler starts in its goroutine.
Invoke(w) ==
    /\ pc[w] = "run"
    /\ Current(w).kind \in Registered[w]
    /\ calls' = calls \cup {CallOf(w, Current(w), "work")}
    /\ pc' = [pc EXCEPT ![w] = "wait"]
    /\ UNCHANGED <<now, job, cycleNow, batch, stopping>>

-----------------------------------------------------------------------------
(* The handler goroutine.  It outlives the runner's interest in it when    *)
(* the runner lost the lease or was shut down.                             *)

Moves(call, stage) == calls' = (calls \ {call}) \cup {[call EXCEPT !.stage = stage]}

\* A mutant: one attempt too many.
FinalAttempt_OffByOne(c) == c.attempts >= MaxAttempts[c.kind]

FinalAttempt(c) == c.attempts + 1 >= MaxAttempts[c.kind]

\* The registered work returns nil.
WorkSucceeds(call) ==
    /\ call.stage = "work"
    /\ Moves(call, IF call.claim.kind = Recurring THEN "enqueue_ok" ELSE "ok")
    /\ UNCHANGED <<now, job, runnerVars>>

\* A mutant: the next occurrence is enqueued on success only.
WorkFails_NoReschedule(call) ==
    /\ "handler_error" \in Faults
    /\ call.stage = "work"
    /\ Moves(call, "failed")
    /\ UNCHANGED <<now, job, runnerVars>>

\* It returns an error: the recurring wrapper goes on to enqueue the next
\* occurrence on the final attempt only.
WorkFails(call) ==
    /\ "handler_error" \in Faults
    /\ call.stage = "work"
    /\ Moves(call, IF call.claim.kind = Recurring /\ FinalAttempt(call.claim)
                   THEN "enqueue_final" ELSE "failed")
    /\ UNCHANGED <<now, job, runnerVars>>

\* It panics: safeInvoke recovers outside the recurring wrapper.
WorkPanics(call) ==
    /\ "panic" \in Faults
    /\ call.stage = "work"
    /\ Moves(call, "failed")
    /\ UNCHANGED <<now, job, runnerVars>>

\* The wrapper enqueues the next occurrence and returns the work's result.
EnqueueNext(call) ==
    /\ call.stage \in {"enqueue_ok", "enqueue_final"}
    /\ \E j \in Jobs : Fresh(j) /\ job' = Created(j, Recurring, now + Interval)
    /\ Moves(call, IF call.stage = "enqueue_ok" THEN "ok" ELSE "failed")
    /\ UNCHANGED <<now, runnerVars>>

EnqueueNextFails(call) ==
    /\ "enqueue_error" \in Faults
    /\ call.stage \in {"enqueue_ok", "enqueue_final"}
    /\ Moves(call, "failed")
    /\ UNCHANGED <<now, job, runnerVars>>

\* The goroutine ends with a result nobody waits for.
Discarded(call) ==
    /\ call.stage \in {"ok", "failed"}
    /\ ~Awaits(call.by, call)
    /\ calls' = calls \ {call}
    /\ UNCHANGED <<now, job, runnerVars>>

-----------------------------------------------------------------------------
(* execute waits for the handler, its context or the heartbeat ticker.     *)

\* The writes after an attempt that did not succeed.
RetryOrDeadLetter(w, c) ==
    IF FinalAttempt(c)
    THEN MarkDead(w, c, c.attempts + 1)
    ELSE MarkForRetry(w, c, now + Delay[c.attempts + 1], c.attempts + 1)

\* The result arrives and the outcome is written.
Settle(w) ==
    /\ pc[w] = "wait"
    /\ \E call \in calls :
          /\ Awaits(w, call)
          /\ call.stage \in {"ok", "failed"}
          /\ job' = IF call.stage = "ok" THEN MarkSucceeded(w, Current(w))
                                         ELSE RetryOrDeadLetter(w, Current(w))
          /\ calls' = calls \ {call}
    /\ Advance(w)

\* The result arrives and the write fails: the row stays running.
SettleError(w) ==
    /\ "db_error" \in Faults
    /\ pc[w] = "wait"
    /\ \E call \in calls : /\ Awaits(w, call)
                           /\ call.stage \in {"ok", "failed"}
                           /\ calls' = calls \ {call}
    /\ Advance(w)
    /\ UNCHANGED job

\* The runner's context is done: an attempt that failed with ctx.Err().
SettleCancelled(w) ==
    /\ pc[w] = "wait"
    /\ stopping[w]
    /\ job' = RetryOrDeadLetter(w, Current(w))
    /\ Advance(w)
    /\ UNCHANGED calls

Heartbeat(w) ==
    /\ pc[w] = "wait"
    /\ Owned(w, Current(w))
    /\ job' = ExtendLease(Current(w))
    /\ UNCHANGED <<now, runnerVars, calls>>

\* ExtendLease changed no row, or failed: the runner leaves the job.
LeaveJob(w) ==
    /\ pc[w] = "wait"
    /\ ~Owned(w, Current(w)) \/ "db_error" \in Faults
    /\ Advance(w)
    /\ UNCHANGED <<job, calls>>

\* The context given to Start is cancelled.
Shutdown(w) ==
    /\ "shutdown" \in Faults
    /\ pc[w] # "down"
    /\ ~stopping[w]
    /\ stopping' = [stopping EXCEPT ![w] = TRUE]
    /\ UNCHANGED <<now, job, pc, cycleNow, batch, calls>>

GoDown(w) ==
    /\ pc' = [pc EXCEPT ![w] = "down"]
    /\ batch' = [batch EXCEPT ![w] = << >>]
    /\ calls' = {call \in calls : call.by # w}
    /\ cycleNow' = [cycleNow EXCEPT ![w] = 0]
    /\ stopping' = [stopping EXCEPT ![w] = FALSE]
    /\ UNCHANGED <<now, job>>

\* Start returns, and the process with its goroutines exits.
Stop(w) == pc[w] = "idle" /\ stopping[w] /\ GoDown(w)

Crash(w) == "crash" \in Faults /\ pc[w] # "down" /\ GoDown(w)

-----------------------------------------------------------------------------
RunnerStep(w) ==
    \/ StartRunner(w) \/ Reap(w) \/ ClaimDue(w) \/ ClaimError(w)
    \/ DeadLetterUnregistered(w) \/ Invoke(w)
    \/ Settle(w) \/ SettleError(w) \/ SettleCancelled(w)
    \/ Heartbeat(w) \/ LeaveJob(w)
    \/ Shutdown(w) \/ Stop(w) \/ Crash(w)

CallStep(call) ==
    \/ WorkSucceeds(call) \/ WorkFails(call) \/ WorkPanics(call)
    \/ EnqueueNext(call) \/ EnqueueNextFails(call) \/ Discarded(call)

Next ==
    \/ Tick
    \/ \E j \in Jobs, k \in Kinds : EnqueueJob(j, k)
    \/ \E w \in Runners : RunnerStep(w)
    \/ \E call \in calls : CallStep(call)

Spec == Init /\ [][Next]_vars

(***************************************************************************)
(* Fairness.  A live runner's ticker keeps firing and its loop never       *)
(* blocks but on the handler; a handler eventually returns, with or        *)
(* without an error of the enqueue; a process that went down is started    *)
(* again.  Database errors are transient: a claim that is retried for ever *)
(* eventually succeeds, hence strong fairness.  Crashes and shutdowns stop *)
(* some day (a system that restarts for ever may do nothing else), and the *)
(* clock need not advance; as it is bounded, leases stop expiring too.     *)
(***************************************************************************)
Fairness ==
    /\ \A w \in Runners :
          /\ WF_vars(\/ StartRunner(w) \/ Reap(w) \/ Invoke(w)
                     \/ DeadLetterUnregistered(w) \/ Settle(w) \/ Stop(w))
          /\ SF_vars(ClaimDue(w))
    /\ \A w \in Runners :
          WF_vars(\E call \in calls :
                     call.by = w /\ Awaits(w, call)
                     /\ (WorkSucceeds(call) \/ EnqueueNext(call)
                           \/ EnqueueNextFails(call)))

CrashesStop ==
    <>[][~ \E w \in Runners : Shutdown(w) \/ (Crash(w) /\ ~Stop(w))]_vars

FairSpec == Spec /\ Fairness /\ CrashesStop
-----------------------------------------------------------------------------
(* Properties.                                                             *)

\* The entries of a runner's batch, as places in it.
Held == UNION {{<<w, i>> : i \in 1..Len(batch[w])} : w \in Runners}
HeldClaim(h) == batch[h[1]][h[2]]

\* However leases expire, are reaped and are claimed again, of all the claims
\* of one row that runners still hold at most one can write its outcome
\* (ownedLease and the generation ClaimDue increments).
OneWriter ==
    \A h1, h2 \in Held :
        /\ h1 # h2
        /\ Owned(h1[1], HeldClaim(h1))
        => ~ /\ Owned(h2[1], HeldClaim(h2))
             /\ HeldClaim(h1).id = HeldClaim(h2).id

\* A claim that can still write holds a current copy of the row: execute
\* computes the attempt number and the verdict "last attempt" from the copy
\* ClaimDue returned, however long ago that was.
CopyIsCurrent ==
    \A h \in Held :
        LET c == HeldClaim(h) IN
        Owned(h[1], c) => /\ c.attempts = job[c.id].attempts
                          /\ c.kind = job[c.id].kind

\* Retries are bounded: an active job has an attempt left, and a job dies only
\* with its attempts used up or with a kind some runner has no handler for.
AttemptsBounded ==
    \A j \in Jobs :
        /\ job[j].status \in Active => job[j].attempts < MaxAttempts[job[j].kind]
        /\ job[j].status = "dead" =>
              \/ job[j].attempts = MaxAttempts[job[j].kind]
              \/ \E w \in Runners : job[j].kind \notin Registered[w]

\* Only a handler that returned nil under the row's latest claim makes the job
\* succeed: a stale worker's success is never recorded.
SuccessIsEarned ==
    [][\A j \in Jobs :
          job[j].status # "succeeded" /\ job'[j].status = "succeeded" =>
             \E call \in calls : /\ call.claim.id = j
                                 /\ call.claim.gen = job[j].gen
                                 /\ call.stage = "ok"]_vars

\* An attempt is charged once, and reaping, reclaiming and stale runners never
\* give one back.
AttemptsChargedOnce ==
    [][\A j \in Jobs :
          \/ job'[j].attempts = job[j].attempts
          \/ /\ job'[j].attempts = job[j].attempts + 1
             /\ job[j].status = "running" /\ job'[j].status # "running"]_vars

\* The recurring schedule, once some runner registered it, always continues
\* (RegisterRecurring): there is an occurrence that is pending or running.
ScheduleContinues ==
    (\E w \in Runners : pc[w] # "down") => ActiveOf(Recurring) # {}

\* A due job is claimed, whatever runners crash or shut down, also when more
\* jobs are due than fit into one batch (ClaimDue: ORDER BY run_at LIMIT): a job
\* that was retried or reaped competes with the successor its handler enqueued.
DueJobIsClaimed ==
    \A j \in Jobs : (job[j].status = "pending" /\ job[j].runAt <= now)
                     ~> job[j].status # "pending"

\* A lease that expired does not keep its job: the row is reaped, or its
\* holder shows it is alive by writing it.
ExpiredLeaseIsRecovered ==
    \A j \in Jobs : Expired(job[j], now) ~> ~Expired(job[j], now)
=============================================================================
