----------------------- MODULE ExecutionAuthorization -----------------------
(***************************************************************************)
(* executionauth: a request is judged against evidence read one source at  *)
(* a time, the first decision of its idempotency key is stored for good,   *)
(* and a caller that wants to act rechecks the evidence, again one source  *)
(* at a time, before it claims the receipt and runs its effect.            *)
(***************************************************************************)
EXTENDS PolicyEvidence, Functions

CONSTANTS
    MaxCalls,   \* bound: calls of each caller
    MaxChanges, \* bound: changes of the policy
    MaxFaults   \* bound: crashes and database errors

ASSUME BoundsAssumption ==
    /\ MaxCalls \in [Callers -> Nat]
    /\ MaxChanges \in Nat /\ MaxFaults \in Nat

VARIABLES
    policy,     \* the revision in force of each policy source
    receipts,   \* execution_authorization_receipts, by key
    consumer,   \* execution_authorization_consumptions: who inserted the row
    effects,    \* external effects run under each key
    call,       \* the call each caller is in
    calls,      \* calls begun by each caller
    faults,     \* crashes and database errors so far
    cut,        \* history: the policy when a call's recheck began
    claimedAt   \* history: the stop's revision when a call claimed its receipt

\* The live evidence a call has seen allow since its recheck began.
Confirmed == [c \in Callers |->
    IF call[c].phase \in {"recheck", "consume"} THEN call[c].passed ELSE {}]

Grant == INSTANCE GovernedGrant WITH
    decision <- receipts, holder <- consumer, snapshot <- cut, confirmed <- Confirmed

Denies(s, v) == Verdict[s][v] = "denies"

vars == <<policy, receipts, consumer, effects, call, calls, faults, cut,
          claimedAt>>

-----------------------------------------------------------------------------
(* Service.Authorize *)

EvaluationOrder == <<"stop", "selection", "preflight", "constitution", "agent",
                     "approval", "mandate">>
RecheckOrder == <<"stop", "selection", "constitution", "agent", "mandate",
                  "approval", "preflight">>

\* Places where a body is refused for evidence it does not bring.
Demanded(b) ==
    {s \in {"agent", "approval", "mandate"} :
        \/ s = "agent" /\ Contract[b].autonomy < 6
        \/ s = "approval" /\ Contract[b].framework
        \/ s = "mandate" /\ Contract[b].autonomy \in {7, 10}}

\* The first place of an order that is still to come.
First(order, todo) ==
    order[CHOOSE i \in 1..7 : order[i] \in todo
                               /\ \A j \in 1..(i - 1) : order[j] \notin todo]

NoEvidence == [s \in Sources |-> None]
Receipt(b, o, e) == [body |-> b, outcome |-> o, evidence |-> e]

\* The verdict of the checks up to and including source s.
JudgedAt(b, e, s) ==
    CASE s \in Consulted(b) /\ Denies(s, e[s]) -> "denied"
      [] s = "agent" /\ Contract[b].autonomy < 6 -> "denied"
      [] s = "approval" /\ Contract[b].framework /\ s \notin Consulted(b)
            -> "requires_approval"
      [] s = "mandate" /\ Contract[b].autonomy \in {7, 10}
            /\ ~MandateAuthorizes(b, e) -> "requires_approval"
      [] OTHER -> "undecided"

\* The checks after every source has been read.
ApprovalRequired(b, e) ==
    \/ Verdict["constitution"][e["constitution"]] = "asks"
    \/ Contract[b].autonomy = 6
    \/ Contract[b].consequential

JudgedLast(b, e) ==
    LET approved == "approval" \in Consulted(b)
    IN IF \/ Contract[b].autonomy = 6 /\ ~approved
          \/ ApprovalRequired(b, e) /\ ~approved /\ ~MandateAuthorizes(b, e)
       THEN "requires_approval" ELSE "authorized"

Idle == [phase |-> "idle", mode |-> "authorize", todo |-> {},
         receipt |-> None, passed |-> {}]
Enter(c, record) == call' = [call EXCEPT ![c] = record]
Forget(c) == cut' = [cut EXCEPT ![c] = None]

\* A caller calls Authorize, or AuthorizeAndConsume, possibly again.
Begin(c, mode) ==
    /\ call[c].phase \in {"idle", "returned"}
    /\ calls[c] < MaxCalls[c]
    /\ calls' = [calls EXCEPT ![c] = @ + 1]
    /\ Enter(c, [Idle EXCEPT !.phase = "evaluate", !.mode = mode,
                             !.todo = Consulted(BodyOf[c]) \union Demanded(BodyOf[c]),
                             !.receipt = Receipt(BodyOf[c], "undecided", NoEvidence)])
    /\ UNCHANGED <<policy, receipts, consumer, effects, faults, cut, claimedAt>>

Evaluate(c) ==
    LET b == BodyOf[c]
        s == First(EvaluationOrder, call[c].todo)
        rest == call[c].todo \ {s}
        e == IF s \in Consulted(b)
             THEN [call[c].receipt.evidence EXCEPT ![s] = policy[s]]
             ELSE call[c].receipt.evidence
        judged == JudgedAt(b, e, s)
        outcome == IF judged = "undecided" /\ rest = {} THEN JudgedLast(b, e) ELSE judged
    IN /\ call[c].phase = "evaluate"
       /\ Enter(c, [call[c] EXCEPT
              !.receipt = Receipt(b, outcome, e),
              !.phase = IF outcome = "undecided" THEN @ ELSE "persist",
              !.todo = rest])
       /\ UNCHANGED <<policy, receipts, consumer, effects, calls, faults, cut,
                      claimedAt>>

-----------------------------------------------------------------------------
(* Repository.CreateOrGet, and what the service does with the stored receipt *)

\* Mutant: the row is stored before finish() sets the outcome.
Stored_Unfinished(c) == IF receipts[KeyOf[c]] = None
    THEN [call[c].receipt EXCEPT !.outcome = "undecided"] ELSE receipts[KeyOf[c]]

Stored(c) == IF receipts[KeyOf[c]] = None THEN call[c].receipt
                                          ELSE receipts[KeyOf[c]]

CreateOrGet(c) == receipts' = [receipts EXCEPT ![KeyOf[c]] = Stored(c)]

Usable(c) ==
    /\ call[c].mode = "consume"
    /\ Stored(c).body = BodyOf[c]
    /\ Stored(c).outcome = "authorized"

Persist(c) ==
    /\ call[c].phase = "persist"
    /\ CreateOrGet(c)
    /\ IF Usable(c)
       THEN Enter(c, [Idle EXCEPT !.phase = "ready", !.mode = "consume",
                                  !.receipt = Stored(c)])
       ELSE Enter(c, [Idle EXCEPT !.phase = "returned"])
    /\ UNCHANGED <<policy, consumer, effects, calls, faults, cut, claimedAt>>

\* The database answers with an error, whether or not the row was stored.
PersistFails(c) ==
    /\ call[c].phase = "persist"
    /\ faults < MaxFaults
    /\ faults' = faults + 1
    /\ CreateOrGet(c) \/ UNCHANGED receipts
    /\ Enter(c, [Idle EXCEPT !.phase = "returned"])
    /\ UNCHANGED <<policy, consumer, effects, calls, cut, claimedAt>>

-----------------------------------------------------------------------------
(* Service.recheck *)

StartRecheck(c) ==
    /\ call[c].phase = "ready"
    /\ Enter(c, [call[c] EXCEPT !.phase = "recheck",
                                !.todo = Consulted(BodyOf[c])])
    /\ cut' = [cut EXCEPT ![c] = policy]
    /\ UNCHANGED <<policy, receipts, consumer, effects, calls, faults, claimedAt>>

\* Mutant: the recheck asks for the verdict alone, not for the revision.
StillHolds_AnyRevision(receipt, s) == ~Bars(s, policy[s])

\* Mutant: a Constitution that asks for an approval counts as a refusal.
StillHolds_AsksRefuses(receipt, s) ==
    /\ s \in Live \/ policy[s] = receipt.evidence[s]
    /\ Verdict[s][policy[s]] = "allows"

\* What the source says now still carries the receipt.
StillHolds(receipt, s) ==
    CASE s = "constitution" -> /\ policy[s] = receipt.evidence[s]
                               /\ ~Denies(s, policy[s])
      [] s \in Live -> ~Denies(s, policy[s])
      [] OTHER -> /\ policy[s] = receipt.evidence[s]
                  /\ Verdict[s][policy[s]] = "allows"

Recheck(c) ==
    LET s == First(RecheckOrder, call[c].todo)
        rest == call[c].todo \ {s}
    IN /\ call[c].phase = "recheck"
       /\ IF StillHolds(call[c].receipt, s)
          THEN /\ Enter(c, [call[c] EXCEPT
                      !.passed = @ \union ({s} \intersect Live),
                      !.phase = IF rest = {} THEN "consume" ELSE @,
                      !.todo = rest])
               /\ UNCHANGED cut
          ELSE Enter(c, [Idle EXCEPT !.phase = "returned"]) /\ Forget(c)
       /\ UNCHANGED <<policy, receipts, consumer, effects, calls, faults, claimedAt>>

-----------------------------------------------------------------------------
(* Repository.Consume, then the caller *)

\* Mutant: an INSERT without ON CONFLICT and without the primary key.
Insertable_Always(c) == TRUE

Insertable(c) == consumer[KeyOf[c]] = None
Insert(c) ==
    /\ consumer' = [consumer EXCEPT ![KeyOf[c]] = c]
    /\ claimedAt' = [claimedAt EXCEPT ![c] = policy["stop"]]

Consume(c) ==
    /\ call[c].phase = "consume"
    /\ Forget(c)
    /\ IF Insertable(c)
       THEN Insert(c) /\ Enter(c, [Idle EXCEPT !.phase = "cleared"])
       ELSE /\ Enter(c, [Idle EXCEPT !.phase = "returned"])
            /\ UNCHANGED <<consumer, claimedAt>>
    /\ UNCHANGED <<policy, receipts, effects, calls, faults>>

ConsumeFails(c) ==
    /\ call[c].phase = "consume"
    /\ faults < MaxFaults
    /\ faults' = faults + 1
    /\ (Insertable(c) /\ Insert(c)) \/ UNCHANGED <<consumer, claimedAt>>
    /\ Enter(c, [Idle EXCEPT !.phase = "returned"])
    /\ Forget(c)
    /\ UNCHANGED <<policy, receipts, effects, calls>>

\* Mutant: the claim is taken for permission.
FinalStopCheck_Skipped(c) ==
    /\ call[c].phase = "cleared"
    /\ Enter(c, [Idle EXCEPT !.phase = "effect"])
    /\ UNCHANGED <<policy, receipts, consumer, effects, calls, faults, cut, claimedAt>>

\* The caller's own check of the stop, after the claim and before the effect.
FinalStopCheck(c) ==
    /\ call[c].phase = "cleared"
    /\ Enter(c, [Idle EXCEPT !.phase =
          IF Denies("stop", policy["stop"]) THEN "returned" ELSE "effect"])
    /\ UNCHANGED <<policy, receipts, consumer, effects, calls, faults, cut, claimedAt>>

RunEffect(c) ==
    /\ call[c].phase = "effect"
    /\ effects' = [effects EXCEPT ![KeyOf[c]] = @ + 1]
    /\ Enter(c, [Idle EXCEPT !.phase = "returned"])
    /\ UNCHANGED <<policy, receipts, consumer, calls, faults, cut, claimedAt>>

\* The caller's process dies: it forgets where it was, the rows remain.
Crash(c) ==
    /\ call[c].phase \notin {"idle", "returned"}
    /\ faults < MaxFaults
    /\ faults' = faults + 1
    /\ Enter(c, Idle)
    /\ Forget(c)
    /\ UNCHANGED <<policy, receipts, consumer, effects, calls, claimedAt>>

-----------------------------------------------------------------------------
\* The owner changes a policy source; the stop is engaged or cleared.
Changes == FoldFunction(+, 0, policy)

ChangePolicy(s) ==
    /\ policy[s] < MaxVersion[s]
    /\ Changes < MaxChanges
    /\ policy' = [policy EXCEPT ![s] = @ + 1]
    /\ UNCHANGED <<receipts, consumer, effects, call, calls, faults, cut, claimedAt>>

Init ==
    /\ policy = [s \in Sources |-> 0]
    /\ receipts = [k \in Keys |-> None]
    /\ consumer = [k \in Keys |-> None]
    /\ effects = [k \in Keys |-> 0]
    /\ call = [c \in Callers |-> Idle]
    /\ calls = [c \in Callers |-> 0]
    /\ faults = 0
    /\ cut = [c \in Callers |-> None]
    /\ claimedAt = [c \in Callers |-> None]

Step(c) ==
    \/ Evaluate(c) \/ Persist(c) \/ StartRecheck(c) \/ Recheck(c)
    \/ Consume(c) \/ FinalStopCheck(c) \/ RunEffect(c)

Next ==
    \/ \E s \in Sources : ChangePolicy(s)
    \/ \E c \in Callers :
          \/ Begin(c, "authorize") \/ Begin(c, "consume")
          \/ Step(c) \/ PersistFails(c) \/ ConsumeFails(c) \/ Crash(c)

Spec == Init /\ [][Next]_vars

-----------------------------------------------------------------------------
(* Properties *)

Phases == {"idle", "evaluate", "persist", "ready", "recheck", "consume",
           "cleared", "effect", "returned"}
\* Types of the tables and of the calls.  A stored receipt is always decided.
TypeOK ==
    /\ policy \in Policies
    /\ \A s \in Sources : policy[s] \in 0..MaxVersion[s]
    /\ receipts \in [Keys -> Receipts \union {None}]
    /\ \A k \in Keys : receipts[k] # None => receipts[k].outcome # "undecided"
    /\ consumer \in [Keys -> Callers \union {None}]
    /\ effects \in [Keys -> Nat]
    /\ call \in [Callers -> [phase : Phases, mode : {"authorize", "consume"},
                             todo : SUBSET Sources, receipt : Receipts \union {None},
                             passed : SUBSET Live]]
    /\ \A c \in Callers : calls[c] \in 0..MaxCalls[c]
    /\ faults \in 0..MaxFaults
    /\ cut \in [Callers -> Policies \union {None}]
    /\ claimedAt \in [Callers -> Nat \union {None}]

\* However often a request is sent, retried after a lost answer or a crash, or
\* sent by two processes at once, the effect of its idempotency key runs at
\* most once, and only for the caller whose consumption row was inserted
\* (repository_postgres.go Consume, ON CONFLICT DO NOTHING).
OneEffectPerKey ==
    \A k \in Keys :
       /\ effects[k] + Cardinality({c \in Callers : KeyOf[c] = k
             /\ call[c].phase \in {"cleared", "effect"}}) <= 1
       /\ effects[k] > 0 => consumer[k] # None

\* The receipts and their consumptions behave as one governed grant: a key's
\* decision is final, and it is claimed once, by a request with the same
\* digest, on pinned evidence that was in force all at once during the call,
\* with the stop, the selection and the approval seen to allow after that
\* (Authorize reads the sources one by one and recheck reads them again).
GrantIsGoverned == Grant!Spec

\* An effect never starts under a stop that was already engaged when the
\* receipt was claimed and has not been lifted since (source/authorization.go,
\* the final check after AuthorizeAndConsume).
EffectHeedsStop ==
    [][\A c \in Callers :
          call[c].phase = "cleared" /\ call'[c].phase = "effect" =>
             ~(Denies("stop", policy["stop"]) /\ claimedAt[c] = policy["stop"])]_vars

\* The evidence of a key's receipt is what the owner's policy says now.
InForce(c) ==
    LET r == receipts[KeyOf[c]]
    IN /\ r # None
       /\ \A s \in Consulted(BodyOf[c]) : ~Bars(s, policy[s])
       /\ \A s \in Consulted(BodyOf[c]) \intersect Pinned : r.evidence[s] = policy[s]

\* The recheck refuses nothing but a change: a call that turns away, from the
\* recheck or from the claim, without a fault does so because the evidence of
\* the stored receipt, whoever evaluated it, is no longer the policy in force,
\* or because the receipt has been claimed.
RefusedForCause ==
    [][\A c \in Callers :
          /\ call[c].phase \in {"recheck", "consume"}
          /\ call'[c].phase = "returned"
          /\ faults' = faults
          => consumer[KeyOf[c]] # None \/ ~InForce(c)]_vars
=============================================================================
