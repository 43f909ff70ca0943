--------------------------- MODULE OperationLedger ---------------------------
(***************************************************************************)
(* The operation ledger of backend/internal/operations and the processes   *)
(* that write it: the background worker's pass (internal/background), the  *)
(* operator's requests (internal/phase2) and the recovery pass             *)
(* (internal/opscontrol).  A feed item becomes an operation; the policy    *)
(* decides what happens to it; low-risk work runs through the local safe   *)
(* worker (internal/executionbroker) and completes when it was verified.   *)
(*                                                                         *)
(* Every write saves a whole row from a copy that was read earlier, and no *)
(* write compares versions, so each read and each write of a row is a step *)
(* of its own.  One pass runs at a time (Module.runMu).  The ledger is the *)
(* one of a single owner in a single workspace.  Audit events, versions    *)
(* and evidence are left out; the order in which a pass takes the rows it  *)
(* listed is left open.                                                    *)
(***************************************************************************)
EXTENDS Integers, FiniteSets

CONSTANTS
    Items,      \* feed items, by dedupe key
    Types,      \* operation types
    TypeOf,     \* the type of an item
    Risk,       \* the risk class of an item
    Handlers,   \* operator requests
    Worker,     \* the background pass
    Modes,      \* autonomy modes in use
    MaxOps,     \* how many rows a pass lists
    MaxRows,    \* bound on the number of operations
    Faults      \* a subset of AllFaults

AllFaults == {"db_error", "crash"}
Risks == {"low", "medium", "high"}
AllModes == {"paused", "read_only", "draft_only", "approval_required",
             "autonomous_safe", "emergency_stopped"}

ASSUME ItemsAssumption ==
    Items # {} /\ TypeOf \in [Items -> Types] /\ Risk \in [Items -> Risks]
ASSUME ActorsAssumption == Worker \notin Handlers
ASSUME LimitsAssumption == MaxOps \in Nat \ {0} /\ MaxRows \in Nat
ASSUME SwitchesAssumption == Faults \subseteq AllFaults /\ Modes \subseteq AllModes

VARIABLES
    op,         \* the operations table, in creation order
    mode,       \* the stored autonomy mode
    stop,       \* the emergency stop is engaged
    rules,      \* types the operator blocked, in memory
    todo,       \* items the running pass still ingests
    actor,      \* where the pass and each request are
    artifacts,  \* operations whose artifact is in the workspace
    verified,   \* history: operations whose run the broker verified
    dismissed   \* history: operations the operator rejected

vars == <<op, mode, stop, rules, todo, actor, artifacts, verified, dismissed>>

-----------------------------------------------------------------------------
Actors == Handlers \cup {Worker}
Ids == 1..MaxRows

\* operationMachine
Moves ==
    [absent            |-> {},
     new               |-> {"classified"},
     classified        |-> {"ready", "drafting", "awaiting_approval", "blocked",
                            "waiting_external"},
     drafting          |-> {"draft_ready"},
     draft_ready       |-> {"awaiting_approval", "completed"},
     ready             |-> {"running"},
     awaiting_approval |-> {"approved", "dismissed", "blocked"},
     approved          |-> {"running"},
     running           |-> {"verifying", "failed", "interrupted"},
     interrupted       |-> {"awaiting_approval", "blocked", "completed"},
     verifying         |-> {"completed", "failed", "awaiting_approval"},
     failed            |-> {"ready", "blocked"},
     waiting_external  |-> {"ready"},
     completed         |-> {"archived"},
     dismissed         |-> {"archived"},
     blocked           |-> {"archived"},
     archived          |-> {}]

Statuses == DOMAIN Moves
Decisions == {"observe_only", "create_draft", "ask_robert", "run_safe_local_worker",
              "block"}
Row == [status : Statuses, item : Items, decision : Decisions,
        verification : {"not_required", "pending", "passed", "failed"}]
Copy == [id : Ids, row : Row]

NoItem == CHOOSE item \in Items : TRUE
NoRow == [status |-> "absent", item |-> NoItem, decision |-> "observe_only",
          verification |-> "not_required"]
NoCopy == [id |-> 0, row |-> NoRow]

PCs == {"idle", "ingest", "refresh", "process", "route", "draft",
        "execute", "run", "effect", "verify", "reject_result", "complete", "fail",
        "approve", "reject", "later", "block_similar", "block", "interrupt",
        "confirm"}

TypeOK ==
    /\ op \in [Ids -> Row]
    /\ mode \in Modes
    /\ stop \in BOOLEAN
    /\ rules \subseteq Types
    /\ todo \subseteq Items
    /\ actor \in [Actors -> [pc : PCs, cur : Copy \cup {NoCopy}, due : SUBSET Copy]]
    /\ artifacts \subseteq Ids
    /\ verified \subseteq Ids
    /\ dismissed \subseteq Ids

Idle == [pc |-> "idle", cur |-> NoCopy, due |-> {}]

Init ==
    /\ op = [i \in Ids |-> NoRow]
    /\ mode \in Modes /\ stop = FALSE
    /\ rules = {} /\ todo = {}
    /\ actor = [a \in Actors |-> Idle]
    /\ artifacts = {} /\ verified = {} /\ dismissed = {}

-----------------------------------------------------------------------------
(* The service.                                                            *)

Stored(i) == [id |-> i, row |-> op[i]]

Goto(a, pc, cur, due) ==
    actor' = [actor EXCEPT ![a] = [pc |-> pc, cur |-> cur, due |-> due]]

\* Where an actor goes when it is done with an operation.
Back(a) ==
    IF a = Worker THEN IF actor[a].pc = "refresh" THEN "ingest" ELSE "process"
    ELSE IF actor[a].pc \in {"interrupt", "confirm"} THEN actor[a].pc
    ELSE "idle"

Leave(a) == Goto(a, Back(a), NoCopy, actor[a].due) /\ UNCHANGED op

\* Repository.Update: the whole row, whatever the table holds by now.
Update(c) == op' = [op EXCEPT ![c.id] = c.row]

\* ApplyTransition
MayMove(c, to) ==
    /\ to \in Moves[c.row.status]
    /\ to = "completed" => c.row.verification \in {"passed", "not_required"}
Moved(c, to) == [c EXCEPT !.row.status = to]

\* Service.Transition of the copy c; the actor goes on at pc with the saved
\* copy, or gives the operation up.
Transition(a, c, to, pc) ==
    \/ /\ MayMove(c, to)
       /\ Update(Moved(c, to))
       /\ Goto(a, pc, IF pc = Back(a) THEN NoCopy ELSE Moved(c, to), actor[a].due)
    \/ /\ ~MayMove(c, to) \/ "db_error" \in Faults
       /\ Leave(a)

Cur(a) == actor[a].cur
At(a, pc) == actor[a].pc = pc
Judged(a, verification) == [actor[a].cur EXCEPT !.row.verification = verification]

-----------------------------------------------------------------------------
(* Ingestion.                                                              *)

\* A pass starts; its feeds deliver some of the items.
StartPass ==
    /\ At(Worker, "idle")
    /\ todo' \in SUBSET Items
    /\ Goto(Worker, "ingest", NoCopy, {})
    /\ UNCHANGED <<op, mode, stop, rules, artifacts, verified, dismissed>>

\* A mutant: a completed operation does not count.
Active_NotCompleted(i) == op[i].status \notin {"absent", "archived", "dismissed", "completed"}

Active(i) == op[i].status \notin {"absent", "archived", "dismissed"}

\* FindByDedupeKey
Existing(item) == {i \in Ids : Active(i) /\ op[i].item = item}

Created(item) == [NoRow EXCEPT !.status = "new", !.item = item]

\* Ingest of an item without an active operation.
IngestNew(item) ==
    /\ At(Worker, "ingest") /\ item \in todo
    /\ Existing(item) = {}
    /\ \E i \in Ids :
         /\ op[i].status = "absent" /\ \A j \in 1..(i-1) : op[j].status # "absent"
         /\ op' = [op EXCEPT ![i] = Created(item)]
    /\ todo' = todo \ {item}
    /\ UNCHANGED <<mode, stop, rules, actor, artifacts, verified, dismissed>>

\* Ingest of an item with an active operation reads the latest one ...
IngestFound(item) ==
    /\ At(Worker, "ingest") /\ item \in todo
    /\ \E i \in Existing(item) :
         /\ \A j \in Existing(item) : j <= i
         /\ Goto(Worker, "refresh", Stored(i), {})
    /\ todo' = todo \ {item}
    /\ UNCHANGED <<op, mode, stop, rules, artifacts, verified, dismissed>>

\* ... and saves it with the new evidence.
Refresh ==
    /\ At(Worker, "refresh")
    /\ Goto(Worker, "ingest", NoCopy, {})
    /\ Update(Cur(Worker)) \/ ("db_error" \in Faults /\ UNCHANGED op)
    /\ UNCHANGED <<mode, stop, rules, todo, artifacts, verified, dismissed>>

IngestError(item) ==
    /\ At(Worker, "ingest") /\ item \in todo
    /\ "db_error" \in Faults
    /\ todo' = todo \ {item}
    /\ UNCHANGED <<op, mode, stop, rules, actor, artifacts, verified, dismissed>>

-----------------------------------------------------------------------------
(* The rest of a pass.                                                     *)

EndPass == Goto(Worker, "idle", NoCopy, {}) /\ UNCHANGED op

\* RunOnce ends here when the emergency stop is engaged.
Halt ==
    /\ At(Worker, "ingest") /\ todo = {}
    /\ stop \/ "db_error" \in Faults
    /\ EndPass
    /\ UNCHANGED <<mode, stop, rules, todo, artifacts, verified, dismissed>>

\* actionableStatuses
Actionable == {"new", "classified", "ready", "approved", "verifying",
               "waiting_external", "interrupted", "failed"}

\* ORDER BY created_at LIMIT MaxOps
Listed(due) == {i \in due : Cardinality({j \in due : j < i}) < MaxOps}

\* Operations with a review time, which an approval sets when it is asked for or
\* postponed; it may or may not have come.
Postponable ==
    {i \in Ids : op[i].status = "approved" \/ op[i].decision \in {"ask_robert", "block"}}

\* ListDue; only new operations are processed.
ListDue ==
    /\ At(Worker, "ingest") /\ todo = {}
    /\ ~stop
    /\ \E later \in SUBSET Postponable :
         LET due == {i \in Ids : op[i].status \in Actionable} \ later
         IN  Goto(Worker, "process", NoCopy,
                  {Stored(i) : i \in {j \in Listed(due) : op[j].status = "new"}})
    /\ UNCHANGED <<op, mode, stop, rules, todo, artifacts, verified, dismissed>>

Done ==
    /\ At(Worker, "process") /\ actor[Worker].due = {}
    /\ EndPass
    /\ UNCHANGED <<mode, stop, rules, todo, artifacts, verified, dismissed>>

\* A mutant: the mode is looked at before the risk.
Decide_ModeFirst(item) ==
    IF stop \/ mode = "emergency_stopped" THEN "block"
    ELSE IF mode \in {"paused", "read_only"} THEN "observe_only"
    ELSE IF mode = "draft_only" THEN "create_draft"
    ELSE IF mode = "autonomous_safe" /\ Risk[item] # "medium" THEN "run_safe_local_worker"
    ELSE "ask_robert"

\* A mutant: a branch without a decision.
Decide_NoDefault(item) ==
    IF Risk[item] = "low" THEN "run_safe_local_worker" ELSE "none"

\* autonomypolicy.Decide; the feeds' items are reversible.
Decide(item) ==
    IF stop \/ mode = "emergency_stopped" THEN "block"
    ELSE IF mode = "paused" THEN "observe_only"
    ELSE IF Risk[item] = "high" THEN "ask_robert"
    ELSE IF mode = "read_only" THEN "observe_only"
    ELSE IF mode = "draft_only" THEN "create_draft"
    ELSE IF Risk[item] = "low" THEN "run_safe_local_worker"
    ELSE "ask_robert"

\* applyDecision, and the operator's block rules
Decided(c) ==
    LET decision == Decide(c.row.item)
    IN  [c EXCEPT !.row.decision = IF TypeOf[c.row.item] \in rules THEN "block"
                                   ELSE decision,
                  !.row.verification = IF decision = "run_safe_local_worker"
                                       THEN "pending" ELSE @]

\* processOne up to the first write
Classify(c) ==
    /\ At(Worker, "process") /\ c \in actor[Worker].due
    /\ LET d == Decided(c)
           rest == actor[Worker].due \ {c}
       IN  \/ /\ MayMove(d, "classified")
              /\ Update(Moved(d, "classified"))
              /\ Goto(Worker, "route", Moved(d, "classified"), rest)
           \/ /\ ~MayMove(d, "classified") \/ "db_error" \in Faults
              /\ Goto(Worker, "process", NoCopy, rest) /\ UNCHANGED op
    /\ UNCHANGED <<mode, stop, rules, todo, artifacts, verified, dismissed>>

\* processOne after it
Route ==
    /\ At(Worker, "route")
    /\ LET c == Cur(Worker) IN
       CASE c.row.decision = "run_safe_local_worker" ->
              Goto(Worker, "execute", c, actor[Worker].due) /\ UNCHANGED op
         [] c.row.decision = "block" -> Transition(Worker, c, "blocked", "process")
         [] c.row.decision = "create_draft" -> Transition(Worker, c, "drafting", "draft")
         [] c.row.decision = "ask_robert" ->
              Transition(Worker, c, "awaiting_approval", "process")
         [] OTHER -> Leave(Worker)
    /\ UNCHANGED <<mode, stop, rules, todo, artifacts, verified, dismissed>>

Draft ==
    /\ At(Worker, "draft")
    /\ Transition(Worker, Cur(Worker), "draft_ready", "process")
    /\ UNCHANGED <<mode, stop, rules, todo, artifacts, verified, dismissed>>

-----------------------------------------------------------------------------
(* ExecuteSafeOperation, for the pass and for the operator's run request.  *)

Ready(a) ==
    /\ At(a, "execute")
    /\ IF /\ Cur(a).row.decision = "run_safe_local_worker"
          /\ Cur(a).row.status \in {"classified", "failed"}
       THEN Transition(a, Cur(a), "ready", "run")
       ELSE IF /\ Cur(a).row.decision = "run_safe_local_worker"
               /\ Cur(a).row.status = "ready"
       THEN Goto(a, "run", Cur(a), actor[a].due) /\ UNCHANGED op
       ELSE Leave(a)
    /\ UNCHANGED <<mode, stop, rules, todo, artifacts, verified, dismissed>>

Run(a) ==
    /\ At(a, "run")
    /\ Transition(a, Judged(a, "pending"), "running", "effect")
    /\ UNCHANGED <<mode, stop, rules, todo, artifacts, verified, dismissed>>

\* The broker denies the run, or fails before it keeps an artifact.
RunFails(a) ==
    /\ At(a, "effect")
    /\ Goto(a, "fail", Cur(a), actor[a].due)
    /\ UNCHANGED <<op, mode, stop, rules, todo, artifacts, verified, dismissed>>

\* A mutant: the result of the verification is not looked at.
ResultPC_Ignored(passed) == "verify"

ResultPC(passed) == IF passed THEN "verify" ELSE "reject_result"

\* The broker authorizes the run, creates the artifact, which no run may have
\* created before, and verifies it.
Effect(a, passed) ==
    /\ At(a, "effect")
    /\ ~stop
    /\ Cur(a).id \notin artifacts
    /\ artifacts' = artifacts \cup {Cur(a).id}
    /\ verified' = IF passed THEN verified \cup {Cur(a).id} ELSE verified
    /\ Goto(a, ResultPC(passed), Cur(a), actor[a].due)
    /\ UNCHANGED <<op, mode, stop, rules, todo, dismissed>>

Verifying(a) ==
    /\ actor[a].pc \in {"verify", "reject_result"}
    /\ Transition(a, Cur(a), "verifying", IF At(a, "verify") THEN "complete" ELSE "fail")
    /\ UNCHANGED <<mode, stop, rules, todo, artifacts, verified, dismissed>>

Complete(a) ==
    /\ At(a, "complete")
    /\ Transition(a, Judged(a, "passed"), "completed", Back(a))
    /\ UNCHANGED <<mode, stop, rules, todo, artifacts, verified, dismissed>>

Fail(a) ==
    /\ At(a, "fail")
    /\ Transition(a, Judged(a, "failed"), "failed", Back(a))
    /\ UNCHANGED <<mode, stop, rules, todo, artifacts, verified, dismissed>>

Execute(a) ==
    Ready(a) \/ Run(a) \/ RunFails(a) \/ (\E passed \in BOOLEAN : Effect(a, passed))
      \/ Verifying(a) \/ Complete(a) \/ Fail(a)

-----------------------------------------------------------------------------
(* The operator's requests: each reads the operation, then writes it.      *)
Requests == {"approve", "reject", "later", "block_similar", "execute"}

Get(h, request, i) ==
    /\ At(h, "idle")
    /\ op[i].status # "absent"
    /\ Goto(h, request, Stored(i), {})
    /\ UNCHANGED <<op, mode, stop, rules, todo, artifacts, verified, dismissed>>

Approve(h) ==
    /\ At(h, "approve")
    /\ Transition(h, Cur(h), "approved", "idle")
    /\ UNCHANGED <<mode, stop, rules, todo, artifacts, verified, dismissed>>

Reject(h) ==
    /\ At(h, "reject")
    /\ Transition(h, Cur(h), "dismissed", "idle")
    /\ dismissed' = IF op' = op THEN dismissed ELSE dismissed \cup {Cur(h).id}
    /\ UNCHANGED <<mode, stop, rules, todo, artifacts, verified>>

\* Later saves the operation with another review time.
Later(h) ==
    /\ At(h, "later")
    /\ IF Cur(h).row.status = "awaiting_approval"
       THEN Update(Cur(h)) \/ ("db_error" \in Faults /\ UNCHANGED op)
       ELSE UNCHANGED op
    /\ Goto(h, "idle", NoCopy, {})
    /\ UNCHANGED <<mode, stop, rules, todo, artifacts, verified, dismissed>>

\* BlockSimilar adds the rule first, then blocks this operation.
AddRule(h) ==
    /\ At(h, "block_similar")
    /\ rules' = rules \cup {TypeOf[Cur(h).row.item]}
    /\ Goto(h, "block", Cur(h), {})
    /\ UNCHANGED <<op, mode, stop, todo, artifacts, verified, dismissed>>

BlockSimilar(h) ==
    /\ At(h, "block")
    /\ Transition(h, Cur(h), "blocked", "idle")
    /\ UNCHANGED <<mode, stop, rules, todo, artifacts, verified, dismissed>>

-----------------------------------------------------------------------------
(* Recover: any operator may ask for it at any time.                       *)
With(status) == {Stored(i) : i \in {j \in Ids : op[j].status = status}}

ListRunning(h) ==
    /\ At(h, "idle")
    /\ Goto(h, "interrupt", NoCopy, With("running"))
    /\ UNCHANGED <<op, mode, stop, rules, todo, artifacts, verified, dismissed>>

ListVerifying(h) ==
    /\ At(h, "interrupt") /\ actor[h].due = {}
    /\ Goto(h, "confirm", NoCopy, With("verifying"))
    /\ UNCHANGED <<op, mode, stop, rules, todo, artifacts, verified, dismissed>>

Recovered(h, c, to) ==
    /\ c \in actor[h].due
    /\ Update(Moved(c, to)) \/ ("db_error" \in Faults /\ UNCHANGED op)
    /\ Goto(h, actor[h].pc, NoCopy, actor[h].due \ {c})
    /\ UNCHANGED <<mode, stop, rules, todo, artifacts, verified, dismissed>>

Interrupt(h, c) == At(h, "interrupt") /\ Recovered(h, c, "interrupted")
Confirm(h, c) == At(h, "confirm") /\ Recovered(h, c, "awaiting_approval")

EndRecovery(h) ==
    /\ At(h, "confirm") /\ actor[h].due = {}
    /\ Goto(h, "idle", NoCopy, {})
    /\ UNCHANGED <<op, mode, stop, rules, todo, artifacts, verified, dismissed>>

Recover(h) ==
    ListRunning(h) \/ ListVerifying(h) \/ EndRecovery(h)
      \/ \E c \in actor[h].due : Interrupt(h, c) \/ Confirm(h, c)

-----------------------------------------------------------------------------
\* The control plane: OpsControl says when.
Control ==
    /\ \/ mode' \in Modes /\ UNCHANGED stop
       \/ stop' = ~stop /\ UNCHANGED mode
    /\ UNCHANGED <<op, rules, todo, actor, artifacts, verified, dismissed>>

\* The process stops anywhere and starts again.
Crash ==
    /\ "crash" \in Faults
    /\ actor' = [a \in Actors |-> Idle]
    /\ rules' = {} /\ todo' = {}
    /\ UNCHANGED <<op, mode, stop, artifacts, verified, dismissed>>

Ingest == \E item \in Items : IngestNew(item) \/ IngestFound(item) \/ IngestError(item)

\* What the running program does.
Program ==
    \/ StartPass \/ Ingest \/ Refresh \/ Halt \/ ListDue \/ Done \/ Route \/ Draft
    \/ \E c \in actor[Worker].due : Classify(c)
    \/ \E a \in Actors : Execute(a)
    \/ \E h \in Handlers : \/ \E request \in Requests, i \in Ids : Get(h, request, i)
                           \/ Approve(h) \/ Reject(h) \/ Later(h) \/ AddRule(h)
                           \/ BlockSimilar(h) \/ Recover(h)
    \/ Control

Next == Program \/ Crash

Spec == Init /\ [][Next]_vars

\* The steps with which operation i is listed and gets classified.
Classified(i) == \E c \in actor[Worker].due : c.id = i /\ Classify(c) /\ op' # op

\* Passes are requested again and again and go on; a pass that lists and
\* writes succeeds some day; the operator clears the stop some day, and the
\* process keeps running.
FairSpec ==
    /\ Spec
    /\ WF_vars(StartPass \/ Ingest \/ Refresh \/ Halt \/ Done \/ Route \/ Draft
                 \/ Execute(Worker) \/ (\E c \in actor[Worker].due : Classify(c)))
    /\ SF_vars(ListDue)
    /\ \A i \in Ids : SF_vars(Classified(i))
    /\ <>[]~stop
    /\ <>[][Program]_vars

-----------------------------------------------------------------------------
(* Properties.                                                             *)

\* An operation is completed only when the broker verified a run of that very
\* operation, whatever the pass, the operator's run requests, recovery and
\* crashes interleave (ExecuteSafeOperation: "gates completion on passing
\* verification"; Recover: "Nothing is silently completed").
CompletionIsEarned ==
    \A i \in Ids : op[i].status = "completed" =>
                     i \in verified /\ op[i].verification = "passed"

\* The safe worker touches only low-risk work: a high- or medium-risk
\* operation is never run, in any mode and by no request (RunOperation: "no
\* high-risk/external work is ever fake-completed").
EffectsAreLowRisk == \A i \in artifacts : Risk[op[i].item] = "low"

\* Repeated feed syncs do not duplicate an item (docs/operation-ledger.md:
\* "prevent duplicate Operations across repeated feed syncs"): of its operations
\* all but one were rejected by the operator, whatever stale rows the pass, the
\* requests and the recoveries save over one another and wherever they crash.
DuplicatesWereDismissed ==
    \A item \in Items :
        Cardinality({i \in Ids : /\ op[i].status # "absent" /\ op[i].item = item
                                /\ i \notin dismissed}) <= 1

\* The same of the operations that are active now: a rejected operation that a
\* stale save brings back is a duplicate of the one that replaced it.
OneActivePerItem == \A item \in Items : Cardinality(Existing(item)) <= 1

\* A decision the operator was told has been recorded stands: no other writer
\* takes it back (Repository.Update: "A background lease serializes writes").
OperatorDecisionStands ==
    [][\A i \in Ids : op[i].status \in {"approved", "dismissed", "blocked"} =>
         op'[i].status \in {op[i].status} \cup Moves[op[i].status]]_vars

\* Every new operation gets classified by some pass (Worker.process:
\* "classifies and routes every actionable Operation currently in `new`").
NewIsClassified == \A i \in Ids : op[i].status = "new" ~> op[i].status # "new"

=============================================================================
