---------------------------- MODULE WorkflowClaim ----------------------------
(***************************************************************************)
(* One workflow item.  A worker claims the row for a lease, runs the task  *)
(* and writes the outcome under its claim; a claim whose lease ran out is  *)
(* moved to review, because nobody knows what its task did.  Operators,    *)
(* and the follow-up of an open loop, read the row, decide on it and save  *)
(* it back whole, without a fence.  Backoff is left out: a retry may come  *)
(* at any later time.  A task runner is configured (routes.go).            *)
(***************************************************************************)
EXTENDS Integers, FiniteSets

CONSTANTS
    Workers,      \* who runs items: scheduler passes and run requests
    Sweepers,     \* the passes, which follow open loops up too
    None,
    Intakes,      \* the items intake creates: <<state, requires approval>>
    MaxLeft,      \* bound: the attempts an item starts with
    MaxClaims,    \* bound: claims of the item
    MaxRequests,  \* bound: operator requests
    MaxFaults     \* bound: deaths of a worker, failing writes

States == {"ready", "in_progress", "needs_approval", "waiting_input", "blocked",
           "completed", "archived"}

ASSUME WorkflowAssumption ==
    /\ MaxLeft \in Nat \ {0} /\ MaxClaims \in Nat
    /\ MaxRequests \in Nat /\ MaxFaults \in Nat /\ Sweepers \subseteq Workers
    /\ Intakes \subseteq {"ready", "needs_approval", "waiting_input", "blocked"} \X BOOLEAN

VARIABLES
    row,        \* the item's row
    loop,       \* its open loop
    worker,     \* where each worker is
    operator,   \* the request being served
    decision,   \* the latest approval decision
    attested,   \* whether a completion attestation exists
    evidence,   \* whether an operator linked completion evidence
    unknown,    \* history: the execution recovered last is still to be reviewed
    claims, requests, faults

vars == <<row, loop, worker, operator, decision, attested, evidence, unknown,
          claims, requests, faults>>

Idle == [pc |-> "idle", claim |-> 0, left |-> 0, approved |-> FALSE, review |-> FALSE,
         result |-> None, draft |-> None, stale |-> FALSE]
NoRequest == [pc |-> "idle", draft |-> None, decision |-> None, resolves |-> FALSE,
              stale |-> FALSE]

Fault == faults < MaxFaults /\ faults' = faults + 1
Rest(w) == worker' = [worker EXCEPT ![w] = Idle]
Goto(w, pc) == worker' = [worker EXCEPT ![w].pc = pc]
OneLess(n) == IF n > 0 THEN n - 1 ELSE 0    \* max_retries - retry_count

-----------------------------------------------------------------------------
(* The claim *)

\* What runWorkflowItem checks of the row it got: an approval must stand in the
\* decisions too, and the other checks (plan, policy, pursuit) may ask for a
\* review.
Preflight(w, c) ==
    LET start(pc, result) ==
            worker' = [worker EXCEPT ![w] =
                [Idle EXCEPT !.pc = pc, !.claim = c, !.left = row.left,
                             !.approved = row.approved, !.review = row.review,
                             !.result = result]]
    IN \/ start("settle", "review")
       \/ start("settle", "approval") /\ row.approved /\ decision # "approved"
       \/ start("run", None) /\ (row.approved => decision = "approved")

\* claimRunnableItem; the checks that follow only read.
Claim(w) ==
    /\ worker[w].pc = "idle"
    /\ row.state = "ready"
    /\ row.left > 0
    /\ row.requires => row.approved
    /\ ~row.archived
    /\ claims < MaxClaims
    /\ claims' = claims + 1
    /\ row' = [row EXCEPT !.state = "in_progress", !.claim = claims + 1, !.lease = "live",
                          !.ran = TRUE]
    /\ Preflight(w, claims + 1)
    /\ UNCHANGED <<loop, operator, decision, attested, evidence, unknown, requests, faults>>

Owned(w) == row.state = "in_progress" /\ row.claim = worker[w].claim

\* The heartbeat, while the task runs: it may come late, fail or stop.
RenewRunnableItemClaim(w) ==
    /\ worker[w].pc = "run"
    /\ Owned(w)
    /\ row.lease = "expired"
    /\ row' = [row EXCEPT !.lease = "live"]
    /\ UNCHANGED <<loop, worker, operator, decision, attested, evidence, unknown,
                   claims, requests, faults>>

Results == {"completed", "approval", "review", "failed"}

\* The task returned, or panicked; its result counts if a last renewal still
\* owns the claim, and is a failure otherwise.
RunTask(w) ==
    /\ worker[w].pc = "run"
    /\ \/ /\ Owned(w)
          /\ row' = [row EXCEPT !.lease = "live"]
          /\ \E result \in Results :
                worker' = [worker EXCEPT ![w].pc = "settle", ![w].result = result]
          /\ UNCHANGED faults
       \/ /\ worker' = [worker EXCEPT ![w].pc = "settle", ![w].result = "failed"]
          /\ IF Owned(w) THEN Fault ELSE UNCHANGED faults
          /\ UNCHANGED row
    /\ UNCHANGED <<loop, operator, decision, attested, evidence, unknown, claims, requests>>

\* UpdateClaimedItem: the worker's own copy of the counters and of the approval
\* is written back.  requires_approval is not among its columns.
UpdateClaimedItem(w, state, left, approved) ==
    /\ row' = [row EXCEPT !.state = state, !.left = left, !.approved = approved,
                          !.review = worker[w].review, !.claim = 0, !.lease = "none"]
    /\ UNCHANGED attested

\* CompleteClaimedItem: the row and its only attestation, in one transaction.
CompleteClaimedItem(w) ==
    IF attested THEN UNCHANGED <<row, attested>>
    ELSE /\ row' = [row EXCEPT !.state = "completed", !.left = worker[w].left,
                               !.approved = worker[w].approved,
                               !.review = worker[w].review, !.claim = 0, !.lease = "none"]
         /\ attested' = TRUE

\* handleRunFailure, handleRunReviewRequired, handleRunApprovalRequired.
Settle(w) ==
    LET result == worker[w].result
        less == OneLess(worker[w].left)
    IN /\ worker[w].pc = "settle"
       /\ \/ ~Owned(w) /\ UNCHANGED <<row, attested>>
          \/ /\ Owned(w)
             /\ \/ result = "completed" /\ CompleteClaimedItem(w)
                \/ result = "failed" /\ UpdateClaimedItem(w,
                       IF less > 0 THEN "ready" ELSE "blocked", less, worker[w].approved)
                \/ result = "review" /\ UpdateClaimedItem(w, "blocked", less, worker[w].approved)
                \/ result = "approval" /\ UpdateClaimedItem(w, "needs_approval",
                                                            worker[w].left, FALSE)
       /\ Rest(w)
       /\ UNCHANGED <<loop, operator, decision, evidence, unknown, claims, requests, faults>>

\* The process dies, or the write of an outcome fails and leaves the claim.
Die(w) ==
    /\ worker[w].pc # "idle"
    /\ Fault
    /\ Rest(w)
    /\ UNCHANGED <<row, loop, operator, decision, attested, evidence, unknown, claims, requests>>

-----------------------------------------------------------------------------
(* Time and recovery *)

Aged(r) == [r EXCEPT !.lease = IF @ = "live" THEN "expired" ELSE @]

\* A lease's time passes; what somebody read before is no younger.
LeaseExpires ==
    /\ row # Aged(row)
    /\ row' = Aged(row)
    /\ worker' = [w \in Workers |-> [worker[w] EXCEPT !.draft = IF @ = None THEN @ ELSE Aged(@)]]
    /\ operator' = [operator EXCEPT !.draft = IF @ = None THEN @ ELSE Aged(@)]
    /\ UNCHANGED <<loop, decision, attested, evidence, unknown, claims, requests, faults>>

\* Mutant: only a row with a claim can be found.
Expired_OnlyClaims(r) ==
    r.state = "in_progress" /\ ~r.archived /\ r.claim # 0 /\ r.lease = "expired"

\* FindExpiredWorkflowClaims: a row without a claim counts by its last run, any
\* time after it.
Expired(r) ==
    /\ r.state = "in_progress"
    /\ ~r.archived
    /\ IF r.claim # 0 THEN r.lease = "expired" ELSE r.ran

\* The copies that were read before do not show the recovery.
Interrupted ==
    /\ unknown' = TRUE
    /\ worker' = [w \in Workers |->
                     [worker[w] EXCEPT !.stale = worker[w].pc \in {"renew", "follow"}]]
    /\ operator' = [operator EXCEPT !.stale = operator.pc = "save"]

\* Mutant: the recovered row keeps its lease.
RecoverExpiredWorkflowClaim_KeepsLease ==
    /\ Expired(row)
    /\ row' = [row EXCEPT !.state = "blocked", !.review = TRUE, !.left = OneLess(@),
                          !.claim = 0]
    /\ Interrupted
    /\ UNCHANGED <<loop, decision, attested, evidence, claims, requests, faults>>

RecoverExpiredWorkflowClaim ==
    /\ Expired(row)
    /\ row' = [row EXCEPT !.state = "blocked", !.review = TRUE, !.left = OneLess(@),
                          !.claim = 0, !.lease = "none"]
    /\ Interrupted
    /\ UNCHANGED <<loop, decision, attested, evidence, claims, requests, faults>>

-----------------------------------------------------------------------------
(* Operator requests: each reads the row and decides on a new one *)

Allowed == {<<"waiting_input", "ready">>, <<"waiting_input", "blocked">>,
            <<"needs_approval", "ready">>, <<"needs_approval", "blocked">>,
            <<"ready", "in_progress">>, <<"ready", "blocked">>,
            <<"in_progress", "completed">>, <<"in_progress", "blocked">>,
            <<"in_progress", "waiting_input">>,
            <<"completed", "archived">>,
            <<"blocked", "waiting_input">>, <<"blocked", "ready">>,
            <<"blocked", "needs_approval">>, <<"blocked", "archived">>}

TransitionAllowed(from, to, approves) ==
    \/ from = to
    \/ /\ <<from, to>> \in Allowed
       /\ from = "needs_approval" /\ to = "ready" => approves

Answer(r, d) == [pc |-> "save", draft |-> r, decision |-> d, resolves |-> FALSE,
                 stale |-> FALSE]
Resolution(r) == [Answer(r, None) EXCEPT !.resolves = TRUE]

MayMove(r, to, approves) ==
    /\ r.review => to = "blocked"
    /\ to = "ready" /\ r.requires => r.approved \/ approves
    /\ TransitionAllowed(r.state, to, approves)

Moved(r, to, approves) ==
    [r EXCEPT !.state = to,
              !.archived = @ \/ to = "archived",
              !.requires = @ \/ to = "needs_approval",
              !.approved = \/ @ /\ to # "needs_approval"
                           \/ to = "ready" /\ r.requires /\ approves]

\* Mutant: an operator may ask for any state.
Transition_Any(r) ==
    {Answer(Moved(r, x[1], x[2]), IF x[2] THEN "approved" ELSE None) :
        x \in {y \in States \X BOOLEAN : MayMove(r, y[1], y[2])}}

\* Transition, and the approving half of ResolveApproval.
Transition(r) ==
    {Answer(Moved(r, x[1], x[2]), IF x[2] THEN "approved" ELSE None) :
        x \in {y \in (States \ {"completed"}) \X BOOLEAN : MayMove(r, y[1], y[2])}}

\* ResolveApproval rejects from any state, even an archived item.
Reject(r) ==
    {Answer([x EXCEPT !.state = "blocked", !.approved = FALSE], "rejected") :
        x \in {y \in {r} : ~y.review}}

\* ResolveInterruptedExecution: retry, keep blocked.
ResolveInterrupted(r) ==
    IF ~(r.state = "blocked" /\ r.review) THEN {}
    ELSE {Answer(r, None),
          Resolution([r EXCEPT !.review = FALSE, !.left = IF @ > 0 THEN @ ELSE 1,
                               !.state = IF r.requires THEN "needs_approval" ELSE "ready",
                               !.approved = @ /\ ~r.requires])}

Closed(r) == r.archived \/ r.state \in {"completed", "archived"}

\* Mutant: a proposal is resolved while an interrupted execution is reviewed.
ResolveProposal_DuringReview(r) ==
    IF Closed(r) THEN {}
    ELSE {Answer([r EXCEPT !.state = "waiting_input"], None),
          Answer([r EXCEPT !.state = "blocked", !.approved = FALSE], None)}
         \union {Answer([x EXCEPT !.state = "ready"], None) :
                    x \in {y \in {r} : ~y.requires /\ y.state \in {"blocked", "waiting_input"}}}

\* ResolveProposal; approving one that needs an approval is Transition.
ResolveProposal(r) ==
    IF Closed(r) \/ r.review THEN {}
    ELSE {Answer([r EXCEPT !.state = "waiting_input"], None),
          Answer([r EXCEPT !.state = "blocked", !.approved = FALSE], None)}
         \union {Answer([x EXCEPT !.state = "ready"], None) :
                    x \in {y \in {r} : ~y.requires /\ y.state \in {"blocked", "waiting_input"}}}

\* RetractSource and supersedeSourceWorkflow refuse a running item, and find no
\* archived one.
RetractSource(r) ==
    {Answer([x EXCEPT !.state = "blocked", !.claim = 0, !.lease = "none"], None) :
        x \in {y \in {r} : ~Closed(y) /\ y.state # "in_progress"}}
SupersedeSource(r) ==
    {Answer([x EXCEPT !.state = "archived", !.archived = TRUE, !.lease = "none"], None) :
        x \in {y \in {r} : ~y.archived /\ y.state # "in_progress" /\ y.claim = 0}}

Request ==
    /\ operator.pc = "idle"
    /\ requests < MaxRequests
    /\ requests' = requests + 1
    /\ operator' \in Transition(row) \union Reject(row) \union ResolveInterrupted(row)
                     \union ResolveProposal(row) \union RetractSource(row)
                     \union SupersedeSource(row)
    /\ UNCHANGED <<row, loop, worker, decision, attested, evidence, unknown, claims, faults>>

\* ResolveInterruptedExecution, confirm_completed: the evidence comes first.
ConfirmCompleted ==
    /\ operator.pc = "idle"
    /\ requests < MaxRequests
    /\ requests' = requests + 1
    /\ row.state = "blocked"
    /\ row.review
    /\ evidence' = TRUE
    /\ operator' = Resolution([row EXCEPT !.state = "completed", !.review = FALSE])
    /\ UNCHANGED <<row, loop, worker, decision, attested, unknown, claims, faults>>

\* A save of the whole row leaves the review to be done, unless it resolves it or
\* the row was read before the recovery.
Reviewed(resolves, stale) == unknown' = (unknown /\ ~resolves /\ ~stale)

\* UpdateItem saves every column of the row that was read.
UpdateItem ==
    /\ operator.pc = "save"
    /\ row' = operator.draft
    /\ Reviewed(operator.resolves, operator.stale)
    /\ operator' = IF operator.decision = None THEN NoRequest
                   ELSE [NoRequest EXCEPT !.pc = "decide", !.decision = operator.decision]
    /\ UNCHANGED <<loop, worker, decision, attested, evidence, claims, requests, faults>>

\* decide: the decision is recorded after the row, and its failure ignored.
RecordDecision ==
    /\ operator.pc = "decide"
    /\ operator' = NoRequest
    /\ \/ decision' = operator.decision /\ UNCHANGED faults
       \/ Fault /\ UNCHANGED decision
    /\ UNCHANGED <<row, loop, worker, attested, evidence, unknown, claims, requests>>

-----------------------------------------------------------------------------
(* The follow-up of a due open loop *)

Following(w) == loop.status = "processing" /\ loop.owner = w
Release(status) == loop' = [loop EXCEPT !.status = status, !.owner = None, !.fresh = FALSE]

ClaimDueOpenLoop(w) ==
    /\ w \in Sweepers
    /\ worker[w].pc = "idle"
    /\ loop.status = "open"
    /\ ~Closed(row)
    /\ loop' = [loop EXCEPT !.status = "processing", !.owner = w, !.fresh = TRUE]
    /\ Goto(w, "inspect")
    /\ UNCHANGED <<row, operator, decision, attested, evidence, unknown, claims, requests, faults>>

\* A blocked item stays blocked; one that needs somebody's decision asks for
\* it; the rest is ready or stays as it is.
FollowUp(r) ==
    IF r.state = "blocked" THEN r
    ELSE IF r.requires \/ loop.internal
    THEN [r EXCEPT !.state = "needs_approval", !.requires = TRUE, !.approved = FALSE]
    ELSE [r EXCEPT !.state = IF @ = "waiting_input" THEN "ready" ELSE @]

InspectItem(w) ==
    /\ worker[w].pc = "inspect"
    /\ IF Closed(row)
       THEN /\ IF Following(w) THEN Release("resolved") ELSE UNCHANGED loop
            /\ Rest(w)
       ELSE /\ worker' = [worker EXCEPT ![w].pc = "renew", ![w].draft = FollowUp(row)]
            /\ UNCHANGED loop
    /\ UNCHANGED <<row, operator, decision, attested, evidence, unknown, claims, requests, faults>>

RenewOpenLoopClaim(w) ==
    /\ worker[w].pc = "renew"
    /\ IF Following(w)
       THEN Goto(w, "follow") /\ loop' = [loop EXCEPT !.fresh = TRUE]
       ELSE Rest(w) /\ UNCHANGED loop
    /\ UNCHANGED <<row, operator, decision, attested, evidence, unknown, claims, requests, faults>>

SaveFollowUp(w) ==
    /\ worker[w].pc = "follow"
    /\ row' = worker[w].draft
    /\ Reviewed(FALSE, worker[w].stale)
    /\ worker' = [worker EXCEPT ![w] = [Idle EXCEPT !.pc = "trigger"]]
    /\ UNCHANGED <<loop, operator, decision, attested, evidence, claims, requests, faults>>

TriggerOpenLoop(w) ==
    /\ worker[w].pc = "trigger"
    /\ IF Following(w) THEN Release("triggered") ELSE UNCHANGED loop
    /\ Rest(w)
    /\ UNCHANGED <<row, operator, decision, attested, evidence, unknown, claims, requests, faults>>

\* A failing read or write: the loop is opened again.
FollowUpFails(w) ==
    /\ worker[w].pc \in {"inspect", "renew", "follow", "trigger"}
    /\ Fault
    /\ IF Following(w) THEN Release("open") ELSE UNCHANGED loop
    /\ Rest(w)
    /\ UNCHANGED <<row, operator, decision, attested, evidence, unknown, claims, requests>>

LoopLeaseExpires ==
    /\ loop.fresh
    /\ loop' = [loop EXCEPT !.fresh = FALSE]
    /\ UNCHANGED <<row, worker, operator, decision, attested, evidence, unknown,
                   claims, requests, faults>>

RecoverExpiredOpenLoopClaim ==
    /\ loop.status = "processing"
    /\ ~loop.fresh
    /\ Release("open")
    /\ UNCHANGED <<row, worker, operator, decision, attested, evidence, unknown,
                   claims, requests, faults>>

-----------------------------------------------------------------------------
\* Intake: an item that waits for somebody has an open loop of the operator's.
Init ==
    /\ \E i \in Intakes, left \in 1..MaxLeft :
          row = [state |-> i[1], requires |-> i[2], approved |-> FALSE, left |-> left,
                 claim |-> 0, lease |-> "none", ran |-> FALSE, review |-> FALSE,
                 archived |-> FALSE]
    /\ loop = [status |-> "open", owner |-> None, fresh |-> FALSE,
               internal |-> row.state \in {"needs_approval", "blocked"}]
    /\ worker = [w \in Workers |-> Idle]
    /\ operator = NoRequest
    /\ decision = None /\ attested = FALSE /\ evidence = FALSE /\ unknown = FALSE
    /\ claims = 0 /\ requests = 0 /\ faults = 0

Progress(w) == \/ RunTask(w) \/ Settle(w)
               \/ InspectItem(w) \/ RenewOpenLoopClaim(w) \/ SaveFollowUp(w)
               \/ TriggerOpenLoop(w)

Next ==
    \/ \E w \in Workers :
          \/ Claim(w) \/ RenewRunnableItemClaim(w) \/ Die(w) \/ Progress(w)
          \/ ClaimDueOpenLoop(w) \/ FollowUpFails(w)
    \/ LeaseExpires \/ RecoverExpiredWorkflowClaim
    \/ Request \/ ConfirmCompleted \/ UpdateItem \/ RecordDecision
    \/ LoopLeaseExpires \/ RecoverExpiredOpenLoopClaim

Spec == Init /\ [][Next]_vars

\* Tasks return, time passes and the sweep runs; nobody has to ask, claim or
\* renew.
FairSpec ==
    /\ Spec
    /\ \A w \in Workers : WF_vars(Progress(w))
    /\ WF_vars(LeaseExpires)
    /\ WF_vars(RecoverExpiredWorkflowClaim)

-----------------------------------------------------------------------------
(* Properties *)

Row == [state : States, requires : BOOLEAN, approved : BOOLEAN, left : 0..MaxLeft,
        claim : 0..MaxClaims, lease : {"none", "live", "expired"},
        ran : BOOLEAN, review : BOOLEAN, archived : BOOLEAN]

\* The types, and a lease belongs to a claim (claimRunnableItem to
\* UpdateClaimedItem set and clear both).
TypeOK ==
    /\ row \in Row /\ (row.lease = "none" <=> row.claim = 0)
    /\ \A w \in Workers :
          /\ worker[w].pc \in {"idle", "run", "settle", "inspect", "renew", "follow", "trigger"}
          /\ worker[w].draft \in Row \union {None}
          /\ worker[w].claim <= claims
    /\ operator.pc \in {"idle", "save", "decide"} /\ operator.draft \in Row \union {None}
    /\ loop.status \in {"open", "processing", "triggered", "resolved"}
    /\ decision \in {None, "approved", "rejected"}
    /\ attested \in BOOLEAN /\ evidence \in BOOLEAN /\ unknown \in BOOLEAN
    /\ claims \in 0..MaxClaims /\ requests \in 0..MaxRequests /\ faults \in 0..MaxFaults

\* Whatever stale copies are saved, an item reads as completed only if a worker
\* attested it or an operator linked evidence (CompleteClaimedItem: accounting
\* "must never infer completion from WorkflowItem alone").
CompletedIsBacked == row.state = "completed" => attested \/ evidence

\* A recovered execution, whose outcome is unknown, stays marked for review and
\* out of every worker's reach, over requests, follow-ups and the outcomes of late
\* workers, until an operator resolves it ("unknown external side effects require
\* explicit operator resolution", ResolveInterruptedExecution) or somebody saves a
\* copy of the row read before the recovery (UpdateItem, runOpenLoop).
ReviewHoldsItem ==
    unknown => row.review /\ row.state \in {"blocked", "archived"}

\* Without the last words of ReviewHoldsItem the code does not keep it: the save of
\* a request or of a follow-up that overlaps a recovery undoes it.
OnlyResolved == [][unknown /\ ~unknown' => operator.resolves /\ ~operator.stale]_vars

\* A claimed item, and one put in progress by hand after a run, does not stay so:
\* its worker settles it or the recovery finds it.  (One put in progress by hand
\* before its first run has neither a claim nor a last run: nothing finds it.)
InHand == row.state = "in_progress" /\ ~row.archived /\ (row.claim # 0 \/ row.ran)
ClaimsEnd == InHand ~> ~InHand

\* A claim is the only consumer of the item: without an operator, no two workers
\* run its task at the same time.
SingleConsumer == Cardinality({w \in Workers : worker[w].pc = "run"}) <= 1

\* An item queued because the runtime asks for an approval requires one.
RuntimeApprovalIsQueued == row.state = "needs_approval" => row.requires
=============================================================================
