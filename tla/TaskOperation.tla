---------------------------- MODULE TaskOperation ----------------------------
(***************************************************************************)
(* Task requests as durable operations, and the review queue behind them.  *)
(* A request claims one row per idempotency key, keeps its lease alive     *)
(* while the task runs, and settles the row; an operation whose outcome is *)
(* unknown goes to review and is never run again.  An owner's approval of  *)
(* a review starts a separate operation, whose result settles the review;  *)
(* an operator reconciles the approvals whose worker never came back.      *)
(***************************************************************************)
EXTENDS Integers, FiniteSets

CONSTANTS
    Workers,       \* request handlers
    Keys,          \* idempotency keys callers repeat
    None,
    Decided,       \* bound: the reviews the owner decides on
    MaxApprovals,  \* bound: approvals given
    MaxFaults      \* bound: deaths of a handler, failing writes

VARIABLES
    ops,        \* the operation rows: one per key, one per approval
    plans,      \* the completion log: the verdict stored for an operation
    reviews,    \* the review items
    decisions,  \* the approvals, in order: the review and revision approved
    worker,     \* where each handler is
    effects,    \* history: external effects that completed, per operation
    faults

vars == <<ops, plans, reviews, decisions, worker, effects, faults>>

Approvals == 1..MaxApprovals
Ops == Keys \union Approvals

\* The review of an uncertain operation, and the one attached to a plan that
\* was blocked or did not pass validation.
Reviews == {"operation", "plan"} \X Ops

\* What a row and a review say, what a plan proves, and what a request answers.
RowStatuses == {"running", "completed", "needs_review"}
ReviewStatuses == {"open", "needs_review", "approved", "rejected", "completed"}
Verdicts == {"validated", "unproven"}
Answers == {"plan", "busy", "uncertain", "error"}

ASSUME TaskAssumption ==
    /\ MaxApprovals \in Nat /\ MaxFaults \in Nat
    /\ Decided \subseteq Reviews
    /\ Keys \intersect Nat = {}
    /\ None \notin Ops \union Workers \union Reviews \union (Reviews \X Approvals)
    /\ None \notin RowStatuses \union ReviewStatuses \union Verdicts \union Answers

NoReview == [status |-> None, rev |-> 0]
NoOp == [status |-> None, owner |-> None, fresh |-> FALSE]

Idle == [pc |-> "idle", op |-> None, review |-> None, rev |-> 0, attempt |-> 0,
         lost |-> FALSE, result |-> None]

Goto(w, pc) == worker' = [worker EXCEPT ![w].pc = pc]
Return(w, pc, result) == worker' = [worker EXCEPT ![w].pc = pc, ![w].result = result,
                                                  ![w].attempt = 0]

\* The answer: to the caller, or to the review whose approval this run was.
Leave(w, result) ==
    worker' = [worker EXCEPT ![w] =
        IF @.review = None THEN Idle
        ELSE [@ EXCEPT !.pc = "outcome", !.result = result, !.lost = FALSE]]

Fault == faults < MaxFaults /\ faults' = faults + 1

-----------------------------------------------------------------------------
(* Requests *)

\* classifyExistingTaskOperation, under the advisory lock of the key: a row is
\* taken only when there is none; one whose lease is over goes to review.  (r is
\* the handler as the request starts; an answer at once leaves it as it was.)
ClaimTaskOperation(w, r) ==
    LET o == r.op
        answer(result) == worker' = [worker EXCEPT ![w] =
            IF r.review = None THEN Idle
            ELSE [r EXCEPT !.pc = "outcome", !.result = result]]
        surface == worker' = [worker EXCEPT ![w] =
            [r EXCEPT !.pc = "surface", !.result = "uncertain"]]
    IN /\ \/ /\ ops[o].status = None
             /\ ops' = [ops EXCEPT ![o] =
                   [status |-> "running", owner |-> w, fresh |-> TRUE]]
             /\ worker' = [worker EXCEPT ![w] = [r EXCEPT !.pc = "attempt", !.attempt = 1]]
          \/ /\ ops[o].status = "completed"
             /\ answer(IF plans[o] = None THEN "uncertain" ELSE "plan")
             /\ UNCHANGED ops
          \/ /\ ops[o].status = "needs_review"
             /\ surface
             /\ UNCHANGED ops
          \/ /\ ops[o].status = "running"
             /\ ops[o].fresh
             /\ answer("busy")
             /\ UNCHANGED ops
          \/ /\ ops[o].status = "running"
             /\ ~ops[o].fresh
             /\ ops' = [ops EXCEPT ![o].status = "needs_review", ![o].owner = None]
             /\ surface
       /\ UNCHANGED <<plans, reviews, decisions, effects, faults>>

\* A caller's request, and the run an approval starts.
Submit(w, k) ==
    /\ worker[w].pc = "idle"
    /\ ClaimTaskOperation(w, [Idle EXCEPT !.op = k])

ClaimApproved(w) ==
    /\ worker[w].pc = "claim"
    /\ ClaimTaskOperation(w, worker[w])

\* ownedTaskOperation: the row is running and still this worker's.
Owned(w) ==
    LET o == worker[w].op IN ops[o].status = "running" /\ ops[o].owner = w

-----------------------------------------------------------------------------
(* The lease *)

Executing == {"attempt", "tool", "attach", "log"}

\* The heartbeat goroutine stops at its first refusal or error.
HeartbeatTaskOperation(w) ==
    /\ worker[w].pc \in Executing
    /\ ~worker[w].lost
    /\ \/ /\ Owned(w)
          /\ ~ops[worker[w].op].fresh
          /\ ops' = [ops EXCEPT ![worker[w].op].fresh = TRUE]
          /\ UNCHANGED <<worker, faults>>
       \/ /\ ~Owned(w)
          /\ worker' = [worker EXCEPT ![w].lost = TRUE]
          /\ UNCHANGED <<ops, faults>>
       \/ /\ Fault
          /\ worker' = [worker EXCEPT ![w].lost = TRUE]
          /\ UNCHANGED ops
    /\ UNCHANGED <<plans, reviews, decisions, effects>>

\* More than taskOperationLeaseDuration since leased_at.  (Nobody asks again for
\* the operation of an approval: its lease decides nothing.)
LeaseExpires(o) ==
    /\ o \in Keys
    /\ ops[o].status = "running"
    /\ ops[o].fresh
    /\ ops' = [ops EXCEPT ![o].fresh = FALSE]
    /\ UNCHANGED <<plans, reviews, decisions, worker, effects, faults>>

-----------------------------------------------------------------------------
(* runOperation *)

Approved(v) == reviews[v].status = "approved"

\* No success: the plan asks for a review, or after two attempts of a harder
\* task for a later retry.
Unproven(w) ==
    \/ Return(w, "attach", "unproven")
    \/ worker[w].attempt = 2 /\ Return(w, "log", "unproven")

\* A failed validation is retried once.
Validate(w) ==
    \/ Return(w, "log", "validated")
    \/ /\ worker[w].attempt = 1
       /\ worker' = [worker EXCEPT ![w].pc = "attempt", ![w].attempt = 2]
    \/ worker[w].attempt = 2 /\ Unproven(w)

\* A run that rests on an approval checks that it stands before its tool call.
CallTool(w) ==
    LET v == worker[w].review
    IN IF v # None /\ ~Approved(v) THEN Unproven(w) ELSE Goto(w, "tool")

\* Mutant: the second attempt calls the tool again.
Attempt_Repeats(w) ==
    /\ worker[w].pc = "attempt"
    /\ Unproven(w) \/ CallTool(w) \/ Validate(w)
    /\ UNCHANGED <<ops, plans, reviews, decisions, effects, faults>>

\* The risk gate, the preflight or the reservation blocks the plan, or
\* executeAllowedSteps runs: the second attempt reuses the evidence of the tool
\* the first one completed; some tasks need no tool.
Attempt(w) ==
    /\ worker[w].pc = "attempt"
    /\ Unproven(w) \/ (worker[w].attempt = 1 /\ CallTool(w)) \/ Validate(w)
    /\ UNCHANGED <<ops, plans, reviews, decisions, effects, faults>>

\* A tool that does not complete blocks the plan, whatever it did.
RunTool(w) ==
    LET done == [effects EXCEPT ![worker[w].op] = @ + 1]
    IN /\ worker[w].pc = "tool"
       /\ \/ effects' = done /\ Validate(w)
          \/ effects' \in {effects, done} /\ Unproven(w)
       /\ UNCHANGED <<ops, plans, reviews, decisions, faults>>

\* attachReviewItem: an approved run keeps its review, any other gets one.
AttachReviewItem(w) ==
    LET o == worker[w].op
    IN /\ worker[w].pc = "attach"
       /\ Goto(w, "log")
       /\ reviews' = IF worker[w].review # None THEN reviews
             ELSE [reviews EXCEPT ![<<"plan", o>>] = [status |-> "open", rev |-> 1]]
       /\ UNCHANGED <<ops, plans, decisions, effects, faults>>

AppendCompletionPlan(w) ==
    /\ worker[w].pc = "log"
    /\ plans' = [plans EXCEPT ![worker[w].op] = worker[w].result]
    /\ Goto(w, "settle")
    /\ UNCHANGED <<ops, reviews, decisions, effects, faults>>

\* A write on the way fails: execute returns an error.
WorkFails(w) ==
    /\ worker[w].pc \in {"attempt", "attach", "log"}
    /\ Fault
    /\ Return(w, "uncertain", "error")
    /\ UNCHANGED <<ops, plans, reviews, decisions, effects>>

-----------------------------------------------------------------------------
(* withTaskOperation, after the work *)

\* Mutant: the row is completed by its id alone.
Settle_Unfenced(w) ==
    /\ worker[w].pc = "settle"
    /\ ops' = [ops EXCEPT ![worker[w].op] =
          [status |-> "completed", owner |-> None, fresh |-> FALSE]]
    /\ Leave(w, "plan")
    /\ UNCHANGED <<plans, reviews, decisions, effects, faults>>

Settle(w) ==
    /\ worker[w].pc = "settle"
    /\ IF worker[w].lost
       THEN Return(w, "uncertain", "uncertain") /\ UNCHANGED ops
       ELSE IF Owned(w)
       THEN /\ ops' = [ops EXCEPT ![worker[w].op] =
                  [status |-> "completed", owner |-> None, fresh |-> FALSE]]
            /\ Leave(w, "plan")
       ELSE Leave(w, "uncertain") /\ UNCHANGED ops
    /\ UNCHANGED <<plans, reviews, decisions, effects, faults>>

SettleFails(w) ==
    /\ worker[w].pc = "settle"
    /\ ~worker[w].lost
    /\ Fault
    /\ Return(w, "uncertain", "error")
    /\ UNCHANGED <<ops, plans, reviews, decisions, effects>>

\* Mutant: the worker that gives up stays the owner.
MarkTaskOperationNeedsReview_KeepsOwner(w) ==
    /\ worker[w].pc = "uncertain"
    /\ IF Owned(w)
       THEN /\ ops' = [ops EXCEPT ![worker[w].op].status = "needs_review"]
            /\ Goto(w, "surface")
       ELSE Leave(w, worker[w].result) /\ UNCHANGED ops
    /\ UNCHANGED <<plans, reviews, decisions, effects, faults>>

MarkTaskOperationNeedsReview(w) ==
    /\ worker[w].pc = "uncertain"
    /\ IF Owned(w)
       THEN /\ ops' = [ops EXCEPT ![worker[w].op] =
                  [status |-> "needs_review", owner |-> None, fresh |-> FALSE]]
            /\ Goto(w, "surface")
       ELSE Leave(w, worker[w].result) /\ UNCHANGED ops
    /\ UNCHANGED <<plans, reviews, decisions, effects, faults>>

\* Mutant: the review of a known uncertain operation is not created again.
EnsureReview_OnlyFirst(w) ==
    LET v == <<"operation", worker[w].op>>
        item == [status |-> "needs_review", rev |-> 1]
    IN /\ worker[w].pc = "surface"
       /\ reviews' = IF worker[w].result = "uncertain" THEN reviews
                     ELSE [reviews EXCEPT ![v] = item]
       /\ Leave(w, worker[w].result)
       /\ UNCHANGED <<ops, plans, decisions, effects, faults>>

\* ensureTaskOperationReview: the item has an identity of its own operation,
\* and an existing one must still be as it was created.
EnsureReview(w) ==
    LET v == <<"operation", worker[w].op>>
        item == [status |-> "needs_review", rev |-> 1]
    IN /\ worker[w].pc = "surface"
       /\ IF reviews[v] = NoReview
          THEN reviews' = [reviews EXCEPT ![v] = item] /\ Leave(w, worker[w].result)
          ELSE /\ UNCHANGED reviews
               /\ Leave(w, IF reviews[v] = item THEN worker[w].result ELSE "error")
       /\ UNCHANGED <<ops, plans, decisions, effects, faults>>

ReviewFails(w) ==
    /\ worker[w].pc \in {"uncertain", "surface"}
    /\ Fault
    /\ Leave(w, "error")
    /\ UNCHANGED <<ops, plans, reviews, decisions, effects>>

-----------------------------------------------------------------------------
(* The review queue *)

Open(v) == reviews[v].status \in {"open", "needs_review"}
Given == {n \in Approvals : decisions[n] # None}

\* ResolveReviewItem: decision and status in one transaction; the approved run
\* gets a key of its own.
Approve(w, v, n) ==
    /\ worker[w].pc = "idle"
    /\ v \in Decided
    /\ Open(v)
    /\ n = Cardinality(Given) + 1
    /\ reviews' = [reviews EXCEPT ![v].status = "approved"]
    /\ decisions' = [decisions EXCEPT ![n] = <<v, reviews[v].rev>>]
    /\ worker' = [worker EXCEPT ![w] = [Idle EXCEPT !.pc = "claim", !.op = n,
                                        !.review = v, !.rev = reviews[v].rev]]
    /\ UNCHANGED <<ops, plans, effects, faults>>

Reject(v) ==
    /\ v \in Decided
    /\ Open(v)
    /\ reviews' = [reviews EXCEPT ![v].status = "rejected"]
    /\ UNCHANGED <<ops, plans, decisions, worker, effects, faults>>

\* MarkReviewOutcome: only an approved item takes an outcome.
Outcome(v, status) ==
    reviews' = IF ~Approved(v) THEN reviews
        ELSE [reviews EXCEPT ![v] = [status |-> status,
                    rev |-> IF status = "completed" THEN @.rev ELSE @.rev + 1]]

\* resolveReviewItemForOwner, after its run: an error leaves the plan alone.
MarkReviewOutcome(w) ==
    LET v == worker[w].review
        o == worker[w].op
    IN /\ worker[w].pc = "outcome"
       /\ Outcome(v, IF worker[w].result = "plan" /\ plans[o] = "validated"
                     THEN "completed" ELSE "needs_review")
       /\ worker' = [worker EXCEPT ![w] = Idle]
       /\ UNCHANGED <<ops, plans, decisions, effects, faults>>

MarkReviewOutcomeFails(w) ==
    /\ worker[w].pc = "outcome"
    /\ Fault
    /\ worker' = [worker EXCEPT ![w] = Idle]
    /\ UNCHANGED <<ops, plans, reviews, decisions, effects>>

-----------------------------------------------------------------------------
(* ReconcileApprovedReviewsForOwner *)

\* The plan of the latest approved run of a review, if it stored one.
Linked(v) == {n \in Given : decisions[n][1] = v /\ plans[n] # None}
Latest(S) == CHOOSE n \in S : \A m \in S : m <= n

\* Mutant: any plan that is linked proves the completion.
Disposition_AnyPlan(v) == IF Linked(v) # {} THEN "completed" ELSE "needs_review"

\* approvedReviewReconciliationDecision.
Disposition(v) ==
    IF Linked(v) # {} /\ plans[Latest(Linked(v))] = "validated"
    THEN "completed" ELSE "needs_review"

\* The reviews and the plans are listed first, and what follows from them kept.
ListApproved(w, v) ==
    /\ worker[w].pc = "idle"
    /\ Approved(v)
    /\ worker' = [worker EXCEPT ![w] = [Idle EXCEPT !.pc = "reconcile", !.review = v,
                         !.rev = reviews[v].rev, !.result = Disposition(v)]]
    /\ UNCHANGED <<ops, plans, reviews, decisions, effects, faults>>

\* An outcome stamped before the approval that is now active is refused.
Predates(w) == reviews[worker[w].review].rev # worker[w].rev

Reconcile(w) ==
    /\ worker[w].pc = "reconcile"
    /\ IF Predates(w) THEN UNCHANGED reviews
                      ELSE Outcome(worker[w].review, worker[w].result)
    /\ worker' = [worker EXCEPT ![w] = Idle]
    /\ UNCHANGED <<ops, plans, decisions, effects, faults>>

-----------------------------------------------------------------------------
\* A handler dies with its process, wherever it is.
Crash(w) ==
    /\ worker[w].pc # "idle"
    /\ Fault
    /\ worker' = [worker EXCEPT ![w] = Idle]
    /\ UNCHANGED <<ops, plans, reviews, decisions, effects>>

Init ==
    /\ ops = [o \in Ops |-> NoOp]
    /\ plans = [o \in Ops |-> None]
    /\ reviews = [v \in Reviews |-> NoReview]
    /\ decisions = [n \in Approvals |-> None]
    /\ worker = [w \in Workers |-> Idle]
    /\ effects = [o \in Ops |-> 0]
    /\ faults = 0

\* What a handler does on its own once it has begun.
Step(w) ==
    \/ ClaimApproved(w) \/ Attempt(w) \/ RunTool(w) \/ AttachReviewItem(w)
    \/ AppendCompletionPlan(w) \/ Settle(w) \/ MarkTaskOperationNeedsReview(w)
    \/ EnsureReview(w) \/ MarkReviewOutcome(w) \/ Reconcile(w)

Fails(w) ==
    \/ WorkFails(w) \/ SettleFails(w) \/ ReviewFails(w) \/ MarkReviewOutcomeFails(w)
    \/ Crash(w)

Next ==
    \/ \E w \in Workers : Step(w) \/ Fails(w) \/ HeartbeatTaskOperation(w)
    \/ \E w \in Workers, k \in Keys : Submit(w, k)
    \/ \E w \in Workers, v \in Reviews : ListApproved(w, v)
    \/ \E w \in Workers, v \in Reviews, n \in Approvals : Approve(w, v, n)
    \/ \E v \in Reviews : Reject(v)
    \/ \E o \in Ops : LeaseExpires(o)

Spec == Init /\ [][Next]_vars

\* Handlers run on, time passes, callers repeat an unanswered request, and
\* operators reconcile what stays approved.
FairSpec ==
    /\ Spec
    /\ \A w \in Workers : WF_vars(Step(w))
    /\ WF_vars(\E o \in Ops : LeaseExpires(o))
    /\ SF_vars(\E w \in Workers, k \in Keys : Submit(w, k))
    /\ SF_vars(\E w \in Workers, v \in Reviews : ListApproved(w, v))

-----------------------------------------------------------------------------
(* Properties *)

PCs == Executing \union {"idle", "claim", "settle", "uncertain", "surface",
                         "outcome", "reconcile"}

\* Types; a row has an owner exactly while it runs.
TypeOK ==
    /\ ops \in [Ops -> [status : RowStatuses \union {None},
                        owner : Workers \union {None}, fresh : BOOLEAN]]
    /\ \A o \in Ops : ops[o].owner # None <=> ops[o].status = "running"
    /\ plans \in [Ops -> Verdicts \union {None}]
    /\ reviews \in [Reviews -> [status : ReviewStatuses \union {None},
                                rev : 0..MaxApprovals + 1]]
    /\ decisions \in [Approvals -> (Reviews \X (1..MaxApprovals)) \union {None}]
    /\ worker \in [Workers -> [pc : PCs, op : Ops \union {None}, attempt : 0..2,
                              review : Reviews \union {None}, rev : 0..MaxApprovals + 1,
                              lost : BOOLEAN, result : Answers \union Verdicts
                                  \union {"completed", "needs_review", None}]]
    /\ effects \in [Ops -> Nat]
    /\ faults \in 0..MaxFaults

\* Whatever is repeated, dies or comes late, the controlled tool completes once
\* at most for a key and for an approval, and an approval is spent once: no two
\* runs rest on the same revision of a review (withTaskOperation; the reuse of
\* runtime evidence in executeAllowedSteps; ResolveReviewItem's transaction).
OneEffectPerRequest ==
    /\ \A o \in Ops : effects[o] <= 1
    /\ \A n \in Approvals : effects[n] > 0 => decisions[n] # None
    /\ \A m, n \in Given : decisions[m] = decisions[n] => m = n

\* "completed" is never said on hope: a completed operation has its plan in the
\* log, and a completed review a validated plan of a run approved from it,
\* whether its own worker or the reconciler closed it (docs/operator-runbook.md:
\* "only when an append-only linked plan already records execution ...").
CompletedIsProven ==
    /\ \A o \in Ops : ops[o].status = "completed" => plans[o] # None
    /\ \A v \in Reviews : reviews[v].status = "completed" =>
          \E n \in Given : decisions[n][1] = v /\ plans[n] = "validated"

\* What is settled stays: a worker that comes back after its lease was given up
\* cannot complete the operation, and nothing reopens a closed review
\* (ownedTaskOperation, MarkReviewOutcome).
SettledIsFinal ==
    [][ /\ \A o \in Ops : ops[o].status \in {"completed", "needs_review"} =>
              ops'[o].status = ops[o].status
        /\ \A v \in Reviews : reviews[v].status \in {"completed", "rejected"} =>
              reviews'[v] = reviews[v] ]_vars

\* Nothing stays uncertain for ever: an operation a caller keeps asking about
\* completes or is put before the owner, and an approval whose worker died is
\* settled by the reconciler.
UncertaintyIsSettled ==
    /\ \A k \in Keys : ops[k].status = "running" ~>
          (ops[k].status = "completed" \/ reviews[<<"operation", k>>].status # None)
    /\ (\E v \in Reviews : Approved(v)) ~> (\A v \in Reviews : ~Approved(v))
=============================================================================
