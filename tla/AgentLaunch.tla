----------------------------- MODULE AgentLaunch -----------------------------
(***************************************************************************)
(* Launches of one automation: the owner's recorded decisions, the         *)
(* single-use proofs made from them, the unified authorization of each     *)
(* launch, and the registry of each backend process, which runs one task   *)
(* of the automation per agent runtime and can cancel it, while operators  *)
(* edit the automation and a process may die at any point.                 *)
(***************************************************************************)
EXTENDS Integers

CONSTANTS
    Launches,   \* launch requests, by number
    Processes,  \* backend processes, each with a registry of its own
    ProcessOf,  \* the process that serves a launch
    Configs,    \* configurations the automation may have
    First,      \* the one it is created with
    Runtimes,   \* agent runtimes
    TypeOf,     \* what each configuration launches: a runtime or "script"
    Sources,    \* approval sources: task reviews, by number
    None,
    MaxProofs,  \* bound: proofs issued
    MaxEvents   \* bound: edits, stop requests and engaged stops by operators,
                \* crashes, failing writes and failing checks

\* "failed" stands for "blocked" as well: the two are handled alike.
Results == {"completed", "failed"}
Proofs == 1..MaxProofs
Approvals == [source : Sources, config : Configs]
Runs == [proof : Proofs, config : Configs]

\* runtimeTaskKey, in the registry of a process
Keys == Processes \X Runtimes

ASSUME LaunchAssumption ==
    /\ Launches \subseteq Nat /\ Sources \subseteq Nat
    /\ ProcessOf \in [Launches -> Processes]
    /\ "script" \notin Runtimes /\ TypeOf \in [Configs -> Runtimes \union {"script"}]
    /\ First \in Configs
    /\ None \notin Configs \union Nat \union Results \union Runs
                  \union Approvals
    /\ MaxProofs \in Nat /\ MaxEvents \in Nat

VARIABLES
    row,        \* the configuration in the automation's row
    decision,   \* the configuration each source's recorded decision is bound to
    proofs,     \* the source and configuration each issued proof is bound to
    expired,    \* proofs whose time is over
    spent,      \* approval proof consumptions: the launch that inserted the row
    intent,     \* launches whose intent event is stored
    claimed,    \* launches whose authorization receipt is consumed
    exercised,  \* launches whose final-effect exercise is stored
    outcome,    \* the stored outcome event of each launch
    launch,     \* where each launch is
    running,    \* the registries: the task behind each key
    cancelled,  \* launches whose context a stop request cancelled
    missed,     \* history: those cancelled only after their result was judged
    stopper,    \* a StopRuntimeTask request in progress
    stop,       \* the emergency stop
    warned,     \* history: launches that had a stop check ahead when it was engaged
    runs,       \* history: the proof and configuration each launch ran with
    verdict,    \* what each launch answered its caller
    events

emergency == <<stop, warned>>
durable == <<decision, proofs, expired, spent, intent, claimed, exercised, outcome>>
registry == <<running, cancelled, missed>>
vars == <<row, durable, launch, registry, stopper, emergency, runs, verdict, events>>

Idle == [pc |-> "idle", config |-> None, proof |-> None, result |-> None]
Runtime(l) == TypeOf[launch[l].config] \in Runtimes
Key(l) == <<ProcessOf[l], TypeOf[launch[l].config]>>

Goto(l, pc) == launch' = [launch EXCEPT ![l].pc = pc]
EndWith(l, result) ==
    launch' = [launch EXCEPT ![l].pc = "record", ![l].result = result]

\* Every return of Registry.Execute after the registration: its deferred
\* finishRunningTask is still to run.
Return(l, result) ==
    launch' = [launch EXCEPT ![l].pc = "release", ![l].result = result]

\* What an operator does, and what goes wrong, is bounded.
Event == events < MaxEvents /\ events' = events + 1

-----------------------------------------------------------------------------
(* The decisions, and the proofs issued from them *)

\* RecordApprovalDecision binds the decision of a task review to the row as it
\* is now; a second recording of the source must agree with the first.
RecordApprovalDecision(s) ==
    /\ decision[s] = None
    /\ \A t \in Sources : t < s => decision[t] # None
    /\ decision' = [decision EXCEPT ![s] = row]
    /\ UNCHANGED <<row, proofs, expired, spent, intent, claimed, exercised,
                   outcome, launch, registry, stopper, emergency, runs, verdict, events>>

\* IssueApprovalProof: the row must still be what the source's decision is
\* bound to.
IssueApprovalProof(p, s) ==
    /\ proofs[p] = None
    /\ \A q \in 1..(p - 1) : proofs[q] # None
    /\ decision[s] = row
    /\ proofs' = [proofs EXCEPT ![p] = [source |-> s, config |-> row]]
    /\ UNCHANGED <<row, decision, expired, spent, intent, claimed, exercised,
                   outcome, launch, registry, stopper, emergency, runs, verdict, events>>

-----------------------------------------------------------------------------
(* service.launch: read the row, store the intent, execute, store the outcome *)

\* Launches are numbered as they begin.
Begun(l) == launch[l].pc # "idle" \/ intent[l] \/ verdict[l] # None

\* The request comes without a proof or with an issued one.
Begin(l, p) ==
    /\ p # None => proofs[p] # None
    /\ \A m \in Launches : m < l => Begun(m)
    /\ launch[l].pc = "idle"
    /\ verdict[l] = None
    /\ ~intent[l]
    /\ launch' = [launch EXCEPT ![l] = [pc |-> "intent", config |-> row,
                                        proof |-> p, result |-> None]]
    /\ UNCHANGED <<row, durable, registry, stopper, emergency, runs, verdict, events>>

\* Mutant: the intent event is never stored.
SaveIntent_NotStored(l) ==
    /\ launch[l].pc = "intent"
    /\ Goto(l, "entry")
    /\ UNCHANGED <<row, durable, registry, stopper, emergency, runs, verdict, events>>

SaveIntent(l) ==
    /\ launch[l].pc = "intent"
    /\ intent' = [intent EXCEPT ![l] = TRUE]
    /\ Goto(l, "entry")
    /\ UNCHANGED <<row, decision, proofs, expired, spent, claimed, exercised,
                   outcome, registry, stopper, emergency, runs, verdict, events>>

Answer(l, v) ==
    /\ verdict' = [verdict EXCEPT ![l] = v]
    /\ launch' = [launch EXCEPT ![l] = Idle]

SaveIntentFails(l) ==
    /\ launch[l].pc = "intent"
    /\ Event
    /\ Answer(l, "error")
    /\ UNCHANGED <<row, durable, registry, stopper, emergency, runs>>

\* A stop check: blocked, or on to the next step.
StopCheck(l, here, next) ==
    /\ launch[l].pc = here
    /\ IF stop THEN EndWith(l, "failed") ELSE Goto(l, next)
    /\ UNCHANGED <<row, durable, registry, stopper, emergency, runs, verdict, events>>

EntryStopCheck(l) == StopCheck(l, "entry", "proof")

\* VerifyAndConsume: the proof must be for the configuration of this launch,
\* live, and not yet in the consumption table.
\* Mutant: the proof is not compared with the action of this launch.
Acceptable_AnyAction(l, p) ==
    /\ p # None
    /\ proofs[p] # None
    /\ p \notin expired
    /\ spent[p] = None

Acceptable(l, p) ==
    /\ p # None
    /\ proofs[p] # None /\ proofs[p].config = launch[l].config
    /\ p \notin expired
    /\ spent[p] = None

\* When the time of a proof is over shows when it is presented.
VerifyAndConsumeApproval(l) ==
    LET p == launch[l].proof
    IN /\ launch[l].pc = "proof"
       /\ \/ /\ Acceptable(l, p)
             /\ spent' = [spent EXCEPT ![p] = l] /\ Goto(l, "authorize")
             /\ UNCHANGED expired
          \/ /\ EndWith(l, "failed") /\ UNCHANGED spent
             /\ expired' = IF Acceptable(l, p) THEN expired \union {p} ELSE expired
       /\ UNCHANGED <<row, decision, proofs, intent, claimed, exercised,
                      outcome, registry, stopper, emergency, runs, verdict, events>>

\* AuthorizeAndConsume under the intent's own key: ExecutionAuthorization says
\* when it refuses; here it may, and it does while the stop is engaged.
Authorize(l) ==
    /\ launch[l].pc = "authorize"
    /\ ~stop
    /\ claimed' = [claimed EXCEPT ![l] = TRUE]
    /\ Goto(l, IF Runtime(l) THEN "registry" ELSE "boundary")
    /\ UNCHANGED <<row, decision, proofs, expired, spent, intent, exercised,
                   outcome, registry, stopper, emergency, runs, verdict, events>>

AuthorizeRefused(l) ==
    /\ launch[l].pc = "authorize"
    /\ IF stop THEN UNCHANGED events ELSE Event
    /\ EndWith(l, "failed")
    /\ UNCHANGED <<row, durable, registry, stopper, emergency, runs, verdict>>

-----------------------------------------------------------------------------
(* A script: the stop once more, then the process *)

Started(l) == runs' = [runs EXCEPT ![l] =
                 [proof |-> launch[l].proof, config |-> launch[l].config]]

BoundaryStopCheck(l) == StopCheck(l, "boundary", "process")

RunScript(l) ==
    /\ launch[l].pc = "process"
    /\ Started(l)
    /\ \E r \in Results : EndWith(l, r)
    /\ UNCHANGED <<row, durable, registry, stopper, emergency, verdict, events>>

-----------------------------------------------------------------------------
(* Registry.Execute *)

RegistryStopCheck(l) == StopCheck(l, "registry", "register")

\* Mutant: a second task under the key takes the entry of the first.
RegisterRunningTask_Replaces(l) ==
    /\ launch[l].pc = "register"
    /\ running' = [running EXCEPT ![Key(l)] = l]
    /\ Goto(l, "exercise")
    /\ UNCHANGED <<row, durable, cancelled, missed, stopper, emergency, runs, verdict, events>>

RegisterRunningTask(l) ==
    /\ launch[l].pc = "register"
    /\ IF running[Key(l)] = None
       THEN running' = [running EXCEPT ![Key(l)] = l] /\ Goto(l, "exercise")
       ELSE EndWith(l, "failed") /\ UNCHANGED running
    /\ UNCHANGED <<row, durable, cancelled, missed, stopper, emergency, runs, verdict, events>>

\* VerifyFinalEffectProof: one exercise row per receipt; it may fail.
VerifyFinalEffectProof(l) ==
    /\ launch[l].pc = "exercise"
    /\ claimed[l] /\ ~exercised[l]
    /\ exercised' = [exercised EXCEPT ![l] = TRUE]
    /\ Goto(l, "cancellation")
    /\ UNCHANGED <<row, decision, proofs, expired, spent, intent, claimed, outcome,
                   registry, stopper, emergency, runs, verdict, events>>

VerifyFinalEffectProofFails(l) ==
    /\ launch[l].pc = "exercise"
    /\ Event
    /\ Return(l, "failed")
    /\ UNCHANGED <<row, durable, registry, stopper, emergency, runs, verdict>>

\* Mutant: a cancelled launch returns without finishRunningTask.
CancellationCheck_Leaks(l) ==
    /\ launch[l].pc = "cancellation"
    /\ IF l \in cancelled THEN EndWith(l, "failed") ELSE Goto(l, "laststop")
    /\ UNCHANGED <<row, durable, registry, stopper, emergency, runs, verdict, events>>

CancellationCheck(l) ==
    /\ launch[l].pc = "cancellation"
    /\ IF l \in cancelled THEN Return(l, "failed") ELSE Goto(l, "laststop")
    /\ UNCHANGED <<row, durable, registry, stopper, emergency, runs, verdict, events>>

\* Mutant: the stop is not checked again after the durable verification.
LastStopCheck_Skipped(l) ==
    /\ launch[l].pc = "laststop"
    /\ Goto(l, "start")
    /\ UNCHANGED <<row, durable, registry, stopper, emergency, runs, verdict, events>>

LastStopCheck(l) ==
    /\ launch[l].pc = "laststop"
    /\ IF stop THEN Return(l, "failed") ELSE Goto(l, "start")
    /\ UNCHANGED <<row, durable, registry, stopper, emergency, runs, verdict, events>>

StartAdapter(l) ==
    /\ launch[l].pc = "start"
    /\ Goto(l, "adapter")
    /\ Started(l)
    /\ UNCHANGED <<row, durable, registry, stopper, emergency, verdict, events>>

\* Mutant: the adapter's answer is kept although its context was cancelled.
AdapterReturns_AsReported(l) ==
    /\ launch[l].pc = "adapter"
    /\ \E r \in Results : Return(l, r)
    /\ UNCHANGED <<row, durable, registry, stopper, emergency, runs, verdict, events>>

\* The adapter returns; a cancelled context turns its answer into a failed one.
AdapterReturns(l) ==
    /\ launch[l].pc = "adapter"
    /\ \E r \in Results : Return(l, IF l \in cancelled THEN "failed" ELSE r)
    /\ UNCHANGED <<row, durable, registry, stopper, emergency, runs, verdict, events>>

\* The deferred call; until it runs, a stop request still finds the task.
FinishRunningTask(l) ==
    /\ launch[l].pc = "release"
    /\ running' = [running EXCEPT ![Key(l)] = None]
    /\ Goto(l, "record")
    /\ UNCHANGED <<row, durable, cancelled, missed, stopper, emergency, runs, verdict, events>>

-----------------------------------------------------------------------------
(* The outcome event, and the write of the whole row the launch read *)

SaveLaunchEvent(l) ==
    /\ launch[l].pc = "record"
    /\ outcome' = [outcome EXCEPT ![l] = launch[l].result]
    /\ Goto(l, "update")
    /\ UNCHANGED <<row, decision, proofs, expired, spent, intent, claimed,
                   exercised, registry, stopper, emergency, runs, verdict, events>>

SaveLaunchEventFails(l) ==
    /\ launch[l].pc = "record"
    /\ Event
    /\ Answer(l, "indeterminate")
    /\ UNCHANGED <<row, durable, registry, stopper, emergency, runs>>

UpdateAutomation(l) ==
    /\ launch[l].pc = "update"
    /\ row' = launch[l].config
    /\ Answer(l, launch[l].result)
    /\ UNCHANGED <<durable, registry, stopper, emergency, runs, events>>

UpdateAutomationFails(l) ==
    /\ launch[l].pc = "update"
    /\ Event
    /\ Answer(l, "error")
    /\ UNCHANGED <<row, durable, registry, stopper, emergency, runs>>

-----------------------------------------------------------------------------
(* stopRuntimeTask, from the row as it is read: only an agent runtime's stop *)
(* reaches the registry, of the process that serves the request; what was    *)
(* blocked is written back as a whole row                                    *)

\* The request may be somebody else's than the owner of the tasks.  A stop whose
\* intent cannot be stored ends here, as if it had not been asked for.
RequestStop(process, owner) ==
    /\ stopper = None
    /\ Event
    /\ stopper' = [process |-> process, owner |-> owner, config |-> row,
                   pc |-> IF TypeOf[row] \in Runtimes THEN "signal" ELSE "write"]
    /\ UNCHANGED <<row, durable, launch, registry, emergency, runs, verdict>>

\* Registry.StopTask, under the runtime the row named when it was read.
StopTask ==
    LET l == running[<<stopper.process, TypeOf[stopper.config]>>]
        found == l # None /\ stopper.owner
    IN /\ stopper # None /\ stopper.pc = "signal"
       /\ cancelled' = IF found THEN cancelled \union {l} ELSE cancelled
       /\ missed' = IF found /\ l \notin cancelled /\ launch[l].pc = "release"
                    THEN missed \union {l} ELSE missed
       /\ stopper' = IF found THEN None ELSE [stopper EXCEPT !.pc = "write"]
       /\ UNCHANGED <<row, durable, launch, running, emergency, runs, verdict, events>>

PersistRuntimeStopEvent ==
    /\ stopper # None /\ stopper.pc = "write"
    /\ row' = stopper.config
    /\ stopper' = None
    /\ UNCHANGED <<durable, launch, registry, emergency, runs, verdict, events>>

\* The row cannot be written, which is only logged.
PersistRuntimeStopEventFails ==
    /\ stopper # None /\ stopper.pc = "write"
    /\ Event
    /\ stopper' = None
    /\ UNCHANGED <<row, durable, launch, registry, emergency, runs, verdict>>

-----------------------------------------------------------------------------
(* The operators, the stop, and crashes *)

Edit(c) ==
    /\ c # row
    /\ Event
    /\ row' = c
    /\ UNCHANGED <<durable, launch, registry, stopper, emergency, runs, verdict>>

EngageStop ==
    /\ ~stop
    /\ Event
    /\ stop' = TRUE
    /\ warned' = {l \in Launches : launch[l].pc \notin {"start", "process"}}
    /\ UNCHANGED <<row, durable, launch, registry, stopper, runs, verdict>>

ClearStop ==
    /\ stop
    /\ stop' = FALSE
    /\ warned' = {}
    /\ UNCHANGED <<row, durable, launch, registry, stopper, runs, verdict, events>>

\* A process dies: its registry and every request it served are gone.
Crash(process) ==
    LET served == {l \in Launches : ProcessOf[l] = process}
    IN /\ \E l \in served : launch[l].pc # "idle"
       /\ Event
       /\ launch' = [l \in Launches |-> IF l \in served THEN Idle ELSE launch[l]]
       /\ running' = [k \in Keys |-> IF k[1] = process THEN None ELSE running[k]]
       /\ stopper' = IF stopper # None /\ stopper.process = process THEN None ELSE stopper
       /\ UNCHANGED <<row, durable, cancelled, missed, emergency, runs, verdict>>

-----------------------------------------------------------------------------
Init ==
    /\ row = First
    /\ decision = [s \in Sources |-> None]
    /\ proofs = [p \in Proofs |-> None]
    /\ expired = {}
    /\ spent = [p \in Proofs |-> None]
    /\ intent = [l \in Launches |-> FALSE]
    /\ claimed = [l \in Launches |-> FALSE]
    /\ exercised = [l \in Launches |-> FALSE]
    /\ outcome = [l \in Launches |-> None]
    /\ launch = [l \in Launches |-> Idle]
    /\ running = [k \in Keys |-> None]
    /\ cancelled = {} /\ missed = {}
    /\ stopper = None
    /\ stop = FALSE
    /\ warned = {}
    /\ runs = [l \in Launches |-> None]
    /\ verdict = [l \in Launches |-> None]
    /\ events = 0

\* The steps a launch takes on its own once it has begun.
Step(l) ==
    \/ SaveIntent(l) \/ EntryStopCheck(l) \/ VerifyAndConsumeApproval(l)
    \/ Authorize(l) \/ AuthorizeRefused(l) \/ BoundaryStopCheck(l) \/ RunScript(l)
    \/ RegistryStopCheck(l) \/ RegisterRunningTask(l) \/ VerifyFinalEffectProof(l)
    \/ CancellationCheck(l) \/ LastStopCheck(l) \/ StartAdapter(l) \/ AdapterReturns(l)
    \/ FinishRunningTask(l) \/ SaveLaunchEvent(l) \/ UpdateAutomation(l)

Fails(l) ==
    \/ SaveIntentFails(l) \/ VerifyFinalEffectProofFails(l) \/ SaveLaunchEventFails(l)
    \/ UpdateAutomationFails(l)

StopRequest ==
    \/ \E process \in Processes, owner \in BOOLEAN : RequestStop(process, owner)
    \/ StopTask \/ PersistRuntimeStopEvent \/ PersistRuntimeStopEventFails

Next ==
    \/ \E s \in Sources : RecordApprovalDecision(s)
    \/ \E p \in Proofs, s \in Sources : IssueApprovalProof(p, s)
    \/ \E c \in Configs : Edit(c)
    \/ EngageStop \/ ClearStop \/ StopRequest
    \/ \E process \in Processes : Crash(process)
    \/ \E l \in Launches : Step(l) \/ Fails(l)
          \/ \E p \in Proofs \union {None} : Begin(l, p)

Spec == Init /\ [][Next]_vars

\* A launch that runs goes on: its statements and the adapter's timeout end.
FairSpec == Spec /\ \A l \in Launches : WF_vars(Step(l))

-----------------------------------------------------------------------------
(* Properties *)

PCs == {"idle", "intent", "entry", "proof", "authorize", "boundary", "registry",
        "register", "exercise", "cancellation", "laststop", "start", "adapter",
        "process", "release", "record", "update"}
Held == {"exercise", "cancellation", "laststop", "start", "adapter", "release"}

Stops == [process : Processes, owner : BOOLEAN, config : Configs,
          pc : {"signal", "write"}]

\* Types of the rows and of the launches.  An outcome event exists only of a
\* launch whose intent is stored (service.launch stores it first).
TypeOK ==
    /\ row \in Configs
    /\ decision \in [Sources -> Configs \union {None}]
    /\ proofs \in [Proofs -> Approvals \union {None}]
    /\ expired \subseteq Proofs
    /\ spent \in [Proofs -> Launches \union {None}]
    /\ intent \in [Launches -> BOOLEAN]
    /\ claimed \in [Launches -> BOOLEAN]
    /\ exercised \in [Launches -> BOOLEAN]
    /\ outcome \in [Launches -> Results \union {None}]
    /\ \A l \in Launches : outcome[l] # None => intent[l]
    /\ launch \in [Launches -> [pc : PCs, config : Configs \union {None},
                                proof : Proofs \union {None},
                                result : Results \union {None}]]
    /\ running \in [Keys -> Launches \union {None}]
    /\ cancelled \subseteq Launches /\ missed \subseteq Launches
    /\ stopper = None \/ stopper \in Stops
    /\ stop \in BOOLEAN
    /\ warned \subseteq Launches
    /\ runs \in [Launches -> Runs \union {None}]
    /\ verdict \in [Launches -> Results \union {None, "error", "indeterminate"}]
    /\ events \in 0..MaxEvents

\* Whatever ran, whether or not its process survived to tell: its intent is in
\* the event log, its receipt was consumed, its proof was consumed by it alone,
\* and it ran the configuration that the decision behind the proof is bound to,
\* even though operators, stop requests and other launches rewrote the row
\* meanwhile (executeLaunch, approval_proof_postgres.go Consume).
RunIsBacked ==
    \A l \in Launches : runs[l] # None =>
       /\ intent[l] /\ claimed[l]
       /\ TypeOf[runs[l].config] \in Runtimes => exercised[l]
       /\ spent[runs[l].proof] = l
       /\ proofs[runs[l].proof].config = runs[l].config
       /\ decision[proofs[runs[l].proof].source] = runs[l].config

\* In one process one task of the automation runs at a time under a runtime, and
\* the registry's entry is that task from its registration to its release, so
\* that a stop request signals what runs and a release frees what it took
\* (runtime.go registerRunningTask, finishRunningTask).  After an edit of the
\* runtime another task may run beside it.
OneTaskRuns ==
    /\ \A l \in Launches : launch[l].pc \in Held => running[Key(l)] = l
    /\ \A k \in Keys : running[k] # None =>
         launch[running[k]].pc \in Held /\ Key(running[k]) = k

\* What a launch tells its caller is in the event log, and "completed" is said
\* only of something that ran and that no stop request had signalled when its
\* result was judged; what a later signal finds is not called back (runtime.go
\* Execute: "runtime registry cancellation observed").
ReportIsRecorded ==
    \A l \in Launches :
       /\ verdict[l] \in Results => outcome[l] = verdict[l]
       /\ outcome[l] = "completed" => runs[l] # None /\ (l \in cancelled => l \in missed)
       /\ runs[l] # None /\ outcome[l] = None /\ launch[l].pc = "idle"
             => verdict[l] \in {None, "indeterminate"}

\* Neither the adapter nor a script starts for a launch that still had a stop
\* check ahead of it when the standing stop was engaged: the check is repeated
\* after the proof is exercised, so the stop wins over a consumed receipt
\* (runtime.go Execute, "A stop engaged while durable verification was running").
StopHoldsEffects == [][\A l \in Launches : runs'[l] # runs[l] => l \notin warned]_vars

\* The registries let go of every task, so that the automation can be launched
\* again: however the finitely many launches go and are stopped, no return leaves
\* an entry behind (runtime.go, the deferred finishRunningTask).
RegisteredTaskEnds == []<>(\A k \in Keys : running[k] = None)
=============================================================================
