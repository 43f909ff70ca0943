-------------------- MODULE ExecutionAuthorizationProofs --------------------
(***************************************************************************)
(* Proofs about ExecutionAuthorization, for any callers, keys, requests,   *)
(* contracts, policies and faults: its invariants, and that it implements  *)
(* GovernedGrant.                                                          *)
(***************************************************************************)
EXTENDS ExecutionAuthorization, FiniteSetTheorems, TLAPS

USE DEF Live, Pinned, Sources, Policies

Calls == [phase : Phases, mode : {"authorize", "consume"},
          todo : SUBSET Sources, receipt : Receipts \union {None},
          passed : SUBSET Live]

-----------------------------------------------------------------------------
(* Types.                                                                  *)

LEMMA FirstIsToDo ==
    ASSUME NEW todo \in SUBSET Sources, todo # {},
           NEW order \in {EvaluationOrder, RecheckOrder}
    PROVE  First(order, todo) \in todo
<1> DEFINE here(i) == order[i] \in todo /\ \A j \in 1..(i - 1) : order[j] \notin todo
<1>1. \E i \in 1..7 : order[i] \in todo
  <2>1. \A s \in Sources : \E i \in 1..7 : order[i] = s
    <3>1. CASE order = EvaluationOrder
      <4>1. /\ order[1] = "stop" /\ order[2] = "selection" /\ order[3] = "preflight"
            /\ order[4] = "constitution" /\ order[5] = "agent" /\ order[6] = "approval"
            /\ order[7] = "mandate"
        BY <3>1 DEF EvaluationOrder
      <4>2. Sources = {"stop", "selection", "constitution", "agent", "mandate",
                       "approval", "preflight"}
        BY DEF Sources
      <4> QED
        BY <4>1, <4>2
    <3>2. CASE order = RecheckOrder
      <4>1. /\ order[1] = "stop" /\ order[2] = "selection" /\ order[3] = "constitution"
            /\ order[4] = "agent" /\ order[5] = "mandate" /\ order[6] = "approval"
            /\ order[7] = "preflight"
        BY <3>2 DEF RecheckOrder
      <4>2. Sources = {"stop", "selection", "constitution", "agent", "mandate",
                       "approval", "preflight"}
        BY DEF Sources
      <4> QED
        BY <4>1, <4>2
    <3> QED
      BY <3>1, <3>2
  <2> QED
    BY <2>1
<1>2. \E i \in 1..7 : here(i)
  <2>1. CASE order[1] \in todo
    BY <2>1
  <2>2. CASE order[1] \notin todo /\ order[2] \in todo
    BY <2>2
  <2>3. CASE order[1] \notin todo /\ order[2] \notin todo /\ order[3] \in todo
    BY <2>3
  <2>4. CASE \A j \in 1..3 : order[j] \notin todo
    BY <1>1, <2>4
  <2> QED
    BY <2>1, <2>2, <2>3, <2>4
<1>3. here(CHOOSE i \in 1..7 : here(i))
  BY <1>2
<1> QED
  BY <1>3 DEF First

LEMMA EvidenceIsTyped ==
    /\ NoEvidence \in [Sources -> Nat \union {None}]
    /\ \A c \in Callers : BodyOf[c] \in Bodies
    /\ \A b \in Bodies : /\ Consulted(b) \in SUBSET Sources
                         /\ Demanded(b) \in SUBSET Sources
                         /\ {"stop", "constitution"} \subseteq Consulted(b)
    /\ None \notin Receipts /\ None \notin Policies /\ None \notin Callers
    /\ None \notin Nat
  BY ContractAssumption, NoneAssumption DEF NoEvidence, Bodies, Consulted, Demanded

LEMMA VerdictsAreOutcomes ==
    ASSUME NEW b, NEW e, NEW s
    PROVE  JudgedAt(b, e, s) \in Outcomes /\ JudgedLast(b, e) \in Outcomes \ {"undecided"}
  BY DEF JudgedAt, JudgedLast, Outcomes

(***************************************************************************)
(* The inductive invariant: what a call carries in each of its phases.     *)
(***************************************************************************)

\* A revision that was read is not newer than the one in force.
Read(e, p) == \A s \in Sources : e[s] \in Nat => e[s] <= p[s]

\* The verdicts of Authorize on the places it has passed.
PassedFor(b, e, done) ==
    /\ "agent" \in done => Contract[b].autonomy >= 6
    /\ "approval" \in done /\ Contract[b].framework => "approval" \in Consulted(b)
    /\ "mandate" \in done /\ Contract[b].autonomy \in {7, 10} => MandateAuthorizes(b, e)

Decided(r) ==
    /\ r.outcome # "undecided"
    /\ r.outcome = "authorized" => Warranted(r.body, r.evidence)

Evaluating(c) ==
    LET b == BodyOf[c]
        asked == Consulted(b) \union Demanded(b)
        r == call[c].receipt
    IN call[c].phase = "evaluate" =>
          /\ call[c].todo # {} /\ call[c].todo \subseteq asked
          /\ r \in Receipts /\ r.body = b
          /\ Read(r.evidence, policy)
          /\ PassedFor(b, r.evidence, asked \ call[c].todo)

Evaluated(c) ==
    LET r == call[c].receipt
    IN call[c].phase = "persist" =>
          /\ r \in Receipts /\ r.body = BodyOf[c]
          /\ Read(r.evidence, policy) /\ Decided(r)

\* A call that goes on to claim holds the stored receipt.
Authorized(c) ==
    call[c].phase \in {"ready", "recheck", "consume"} =>
       /\ receipts[KeyOf[c]] # None
       /\ call[c].receipt = receipts[KeyOf[c]]
       /\ call[c].receipt.body = BodyOf[c]
       /\ call[c].receipt.outcome = "authorized"

\* What the recheck has seen by now was in force when it began.
Rechecked(c) ==
    LET b == BodyOf[c]
        seen == Consulted(b) \ call[c].todo
        e == call[c].receipt.evidence
    IN IF call[c].phase \in {"recheck", "consume"}
       THEN /\ cut[c] \in Policies
            /\ \A s \in Sources : cut[c][s] <= policy[s]
            /\ Read(e, cut[c])
            /\ seen \intersect Live \subseteq call[c].passed
            /\ \A s \in seen \intersect Pinned : e[s] = cut[c][s] /\ ~Bars(s, cut[c][s])
            /\ (call[c].phase = "recheck") = (call[c].todo # {})
            /\ call[c].todo \subseteq Consulted(b)
       ELSE cut[c] = None

\* The caller that acts holds the consumption row, and the effect is to come.
Acting(c) ==
    call[c].phase \in {"cleared", "effect"} =>
       consumer[KeyOf[c]] = c /\ effects[KeyOf[c]] = 0

CallOK(c) ==
    /\ call[c].phase = "ready" => call[c].passed = {}
    /\ Evaluating(c) /\ Evaluated(c) /\ Authorized(c) /\ Rechecked(c) /\ Acting(c)

StoredOK(k) ==
    receipts[k] # None => Decided(receipts[k]) /\ Read(receipts[k].evidence, policy)

SpentOK(k) == effects[k] <= 1 /\ (effects[k] > 0 => consumer[k] # None)

IInv ==
    /\ TypeOK
    /\ \A c \in Callers : CallOK(c)
    /\ \A k \in Keys : StoredOK(k) /\ SpentOK(k)

-----------------------------------------------------------------------------
(* Steps.                                                                  *)

\* What a step may do to the tables, as the calls that do not take it see it.
Tables ==
    /\ policy' \in Policies /\ \A s \in Sources : policy[s] <= policy'[s]
    /\ \A k \in Keys : /\ receipts[k] # None => receipts'[k] = receipts[k]
                       /\ consumer[k] # None => consumer'[k] = consumer[k]

\* A call stays sound while others act.
LEMMA OthersKeep ==
    ASSUME IInv, Tables, NEW c \in Callers, call'[c] = call[c], cut'[c] = cut[c],
           call[c].phase \in {"cleared", "effect"} => effects'[KeyOf[c]] = effects[KeyOf[c]]
    PROVE  CallOK(c)'
<1>1. KeyOf[c] \in Keys /\ policy \in Policies
  BY ContractAssumption DEF IInv, TypeOK
<1>2. \A e \in [Sources -> Nat \union {None}] : Read(e, policy) => Read(e, policy')
  BY <1>1 DEF Tables, Read
<1>3. Evaluating(c)'
  BY <1>2 DEF IInv, CallOK, Evaluating, Receipts
<1>4. Evaluated(c)'
  BY <1>2 DEF IInv, CallOK, Evaluated, Receipts
<1>5. Authorized(c)'
  BY <1>1 DEF IInv, CallOK, Authorized, Tables
<1>6. Rechecked(c)'
  BY <1>1 DEF IInv, CallOK, Rechecked, Tables
<1>7. Acting(c)'
  BY <1>1, EvidenceIsTyped DEF IInv, CallOK, Acting, Tables
<1> QED
  BY <1>3, <1>4, <1>5, <1>6, <1>7 DEF IInv, CallOK

\* Only c moves, and only the tables named in Tables with it.
Alone(c) == \A d \in Callers \ {c} : call'[d] = call[d] /\ cut'[d] = cut[d]

LEMMA CallerMoves ==
    ASSUME IInv, TypeOK', NEW c \in Callers, Alone(c), Tables, CallOK(c)',
           UNCHANGED effects, \A k \in Keys : StoredOK(k)' /\ SpentOK(k)'
    PROVE  IInv'
<1>1. \A d \in Callers \ {c} : CallOK(d)'
  BY OthersKeep DEF Alone
<1> QED
  BY <1>1 DEF IInv

LEMMA QuietMove ==
    ASSUME IInv, TypeOK', NEW c \in Callers, Alone(c), CallOK(c)',
           UNCHANGED <<policy, receipts, consumer, effects>>
    PROVE  IInv'
<1>1. Tables
  BY DEF Tables, IInv, TypeOK
<1>2. \A k \in Keys : StoredOK(k)' /\ SpentOK(k)'
  BY DEF IInv, StoredOK, SpentOK
<1> QED
  BY <1>1, <1>2, CallerMoves

LEMMA AtRest ==
    ASSUME NEW c \in Callers, call'[c].phase \in {"idle", "returned"}, cut'[c] = None
    PROVE  CallOK(c)'
  BY DEF CallOK, Evaluating, Evaluated, Authorized, Rechecked, Acting

LEMMA InitInv == Init => IInv
<1> SUFFICES ASSUME Init
             PROVE  IInv
  OBVIOUS
<1>1. TypeOK
  BY ContractAssumption, BoundsAssumption DEF Init, TypeOK, Idle, Phases
<1>2. \A c \in Callers : CallOK(c)
  BY DEF Init, Idle, CallOK, Evaluating, Evaluated, Authorized, Rechecked, Acting
<1>3. \A k \in Keys : StoredOK(k) /\ SpentOK(k)
  BY DEF Init, StoredOK, SpentOK
<1> QED
  BY <1>1, <1>2, <1>3 DEF IInv

LEMMA ChangeStep ==
    ASSUME IInv, NEW s \in Sources, ChangePolicy(s)
    PROVE  IInv'
<1>1. TypeOK'
  BY ContractAssumption DEF IInv, TypeOK, ChangePolicy
<1>2. Tables
  BY DEF IInv, TypeOK, ChangePolicy, Tables
<1>3. \A c \in Callers : CallOK(c)'
  BY <1>2, OthersKeep DEF ChangePolicy
<1>4. \A k \in Keys : StoredOK(k)' /\ SpentOK(k)'
  <2>1. \A e \in [Sources -> Nat \union {None}] : Read(e, policy) => Read(e, policy')
    BY <1>2 DEF Tables, Read, IInv, TypeOK
  <2> QED
    BY <2>1 DEF IInv, TypeOK, ChangePolicy, StoredOK, SpentOK, Receipts
<1> QED
  BY <1>1, <1>3, <1>4 DEF IInv

LEMMA BeginStep ==
    ASSUME IInv, NEW c \in Callers, NEW mode \in {"authorize", "consume"}, Begin(c, mode)
    PROVE  IInv'
<1> DEFINE b == BodyOf[c]
<1>0. Receipt(b, "undecided", NoEvidence) \in Receipts
  BY EvidenceIsTyped DEF Receipt, Receipts, Outcomes
<1>1. TypeOK'
  <2>1. [Idle EXCEPT !.phase = "evaluate", !.mode = mode,
                     !.todo = Consulted(b) \union Demanded(b),
                     !.receipt = Receipt(b, "undecided", NoEvidence)] \in Calls
    BY <1>0, EvidenceIsTyped DEF Calls, Phases, Idle
  <2>2. \A d \in Callers : calls'[d] \in 0..MaxCalls[d]
    BY BoundsAssumption DEF IInv, TypeOK, Begin
  <2> QED
    BY <2>1, <2>2 DEF IInv, TypeOK, Calls, Begin, Enter
<1>2. Alone(c)
  BY DEF IInv, TypeOK, Begin, Enter, Alone
<1>3. /\ call'[c].phase = "evaluate" /\ call'[c].receipt = Receipt(b, "undecided", NoEvidence)
      /\ call'[c].todo = Consulted(b) \union Demanded(b)
      /\ cut'[c] = None
  BY DEF IInv, TypeOK, Begin, Enter, Idle, CallOK, Rechecked
<1>5. Evaluating(c)'
  <2>1. Read(NoEvidence, policy')
    BY EvidenceIsTyped DEF Read, NoEvidence
  <2>2. Consulted(b) # {}
    BY EvidenceIsTyped
  <2> QED
    BY <1>0, <1>3, <2>1, <2>2 DEF Evaluating, PassedFor, Receipt
<1>6. CallOK(c)'
  BY <1>3, <1>5 DEF CallOK, Evaluated, Authorized, Rechecked, Acting
<1> QED
  BY <1>1, <1>2, <1>6, QuietMove DEF Begin

\* Authorize comes to its end with "authorized" only for what is warranted.
LEMMA AuthorizedIsWarranted ==
    ASSUME NEW b \in Bodies, NEW e, PassedFor(b, e, Consulted(b) \union Demanded(b)),
           JudgedLast(b, e) = "authorized"
    PROVE  Warranted(b, e)
<1>1. Contract[b].autonomy >= 6
  <2>1. CASE Contract[b].autonomy < 6
    BY <2>1 DEF PassedFor, Demanded
  <2> QED
    BY <2>1, ContractAssumption
<1>2. Contract[b].framework => "approval" \in Consulted(b)
  BY DEF PassedFor, Demanded
<1>3. Contract[b].autonomy \in {7, 10} => MandateAuthorizes(b, e)
  BY DEF PassedFor, Demanded
<1> QED
  BY <1>1, <1>2, <1>3 DEF JudgedLast, ApprovalRequired, Warranted

LEMMA EvaluateStep ==
    ASSUME IInv, NEW c \in Callers, Evaluate(c)
    PROVE  IInv'
<1> DEFINE b == BodyOf[c]
           old == call[c].receipt.evidence
           s == First(EvaluationOrder, call[c].todo)
           rest == call[c].todo \ {s}
           asked == Consulted(b) \union Demanded(b)
           e == IF s \in Consulted(b) THEN [old EXCEPT ![s] = policy[s]] ELSE old
           judged == JudgedAt(b, e, s)
           outcome == IF judged = "undecided" /\ rest = {} THEN JudgedLast(b, e) ELSE judged
           next == [call[c] EXCEPT !.receipt = Receipt(b, outcome, e),
                                   !.phase = IF outcome = "undecided" THEN @ ELSE "persist",
                                   !.todo = rest]
<1>1. /\ call[c].phase = "evaluate" /\ call' = [call EXCEPT ![c] = next]
      /\ UNCHANGED <<policy, receipts, consumer, effects, calls, faults, cut, claimedAt>>
  BY DEF Evaluate, Enter
<1>2. /\ call[c] \in Calls /\ call[c].todo # {} /\ call[c].todo \subseteq asked
      /\ call[c].receipt \in Receipts
      /\ Read(old, policy) /\ PassedFor(b, old, asked \ call[c].todo)
  BY <1>1 DEF IInv, TypeOK, Calls, CallOK, Evaluating
<1>3. s \in call[c].todo
  BY <1>2, FirstIsToDo DEF Calls
<1>4. b \in Bodies /\ call[c].todo \in SUBSET Sources
  BY <1>2, EvidenceIsTyped DEF Calls
<1> HIDE DEF s
<1>5. e \in [Sources -> Nat \union {None}] /\ Read(e, policy)
  <2>1. /\ s \in Sources /\ policy[s] \in Nat
        /\ old \in [Sources -> Nat \union {None}] /\ Read(old, policy)
    BY <1>2, <1>3, <1>4 DEF IInv, TypeOK, Receipts
  <2>2. e \in [Sources -> Nat \union {None}]
    BY <2>1
  <2>3. \A t \in Sources : e[t] = old[t] \/ (t = s /\ e[t] = policy[s])
    BY <2>1
  <2> HIDE DEF e
  <2>4. Read(e, policy)
    BY <2>1, <2>3 DEF Read
  <2> QED
    BY <2>2, <2>4
<1>6. outcome \in Outcomes
  BY VerdictsAreOutcomes
<1>7. Receipt(b, outcome, e) \in Receipts
  BY <1>4, <1>5, <1>6 DEF Receipt, Receipts
<1>8. next \in Calls
  BY <1>2, <1>4, <1>7 DEF Calls, Phases
<1>9. judged = "undecided" => PassedFor(b, e, asked \ rest)
  <2> SUFFICES ASSUME judged = "undecided"
               PROVE  PassedFor(b, e, asked \ rest)
    OBVIOUS
  <2>1. "agent" \in asked \ rest => Contract[b].autonomy >= 6
    <3>1. CASE s = "agent"
      <4>1. ~(Contract[b].autonomy < 6)
        BY <3>1 DEF JudgedAt
      <4> QED
        BY <1>4, <4>1, ContractAssumption
    <3> QED
      BY <1>2, <3>1 DEF PassedFor
  <2>2. "approval" \in asked \ rest /\ Contract[b].framework => "approval" \in Consulted(b)
    <3>1. CASE s = "approval"
      BY <3>1, Zenon DEF JudgedAt
    <3> QED
      BY <1>2, <3>1 DEF PassedFor
  <2>3. "mandate" \in asked \ rest /\ Contract[b].autonomy \in {7, 10} => MandateAuthorizes(b, e)
    <3>1. CASE s = "mandate"
      BY <3>1, Zenon DEF JudgedAt
    <3>2. CASE s # "mandate"
      <4>1. e["mandate"] = old["mandate"]
        BY <1>2, <3>2 DEF Receipts
      <4> QED
        BY <1>2, <3>2, <4>1 DEF PassedFor, MandateAuthorizes
    <3> QED
      BY <3>1, <3>2
  <2> QED
    BY <2>1, <2>2, <2>3 DEF PassedFor
<1>10. outcome = "authorized" => Warranted(b, e)
  <2> SUFFICES ASSUME outcome = "authorized"
               PROVE  Warranted(b, e)
    OBVIOUS
  <2>1. judged # "authorized"
    BY Zenon DEF JudgedAt
  <2>2. judged = "undecided" /\ rest = {} /\ JudgedLast(b, e) = "authorized"
    BY <2>1
  <2> QED
    BY <1>4, <1>9, <2>2, AuthorizedIsWarranted
<1>11. outcome = "undecided" => judged = "undecided" /\ rest # {}
  BY VerdictsAreOutcomes
<1> HIDE DEF e, judged, rest, outcome
<1>12. /\ call'[c] = next /\ next.receipt = Receipt(b, outcome, e) /\ next.todo = rest
       /\ next.phase = IF outcome = "undecided" THEN "evaluate" ELSE "persist"
  BY <1>1, <1>2 DEF IInv, TypeOK, Calls
<1>13. Receipt(b, outcome, e).body = b /\ Receipt(b, outcome, e).outcome = outcome
       /\ Receipt(b, outcome, e).evidence = e
  BY DEF Receipt
<1> HIDE DEF next
<1>14. Evaluating(c)'
  <2>1. rest \subseteq call[c].todo
    BY DEF rest
  <2> QED
    BY <1>1, <1>2, <1>5, <1>7, <1>9, <1>11, <1>12, <1>13, <2>1 DEF Evaluating
<1>15. Evaluated(c)'
  BY <1>1, <1>5, <1>7, <1>10, <1>12, <1>13 DEF Evaluated, Decided
<1>16. CallOK(c)'
  <2>1. cut[c] = None
    BY <1>1 DEF IInv, CallOK, Rechecked
  <2> QED
    BY <1>1, <1>12, <1>14, <1>15, <2>1 DEF CallOK, Authorized, Rechecked, Acting
<1>17. TypeOK'
  BY <1>1, <1>8 DEF IInv, TypeOK, Calls
<1>18. Alone(c)
  BY <1>1 DEF IInv, TypeOK, Alone
<1> QED
  BY <1>1, <1>16, <1>17, <1>18, QuietMove

\* The row of the key after CreateOrGet, whoever wrote it.
LEMMA StoredRow ==
    ASSUME IInv, NEW c \in Callers, call[c].phase = "persist"
    PROVE  /\ Stored(c) \in Receipts /\ Decided(Stored(c)) /\ Read(Stored(c).evidence, policy)
           /\ receipts[KeyOf[c]] # None => Stored(c) = receipts[KeyOf[c]]
<1>1. KeyOf[c] \in Keys
  BY ContractAssumption
<1> QED
  BY <1>1 DEF IInv, TypeOK, CallOK, Evaluated, StoredOK, Stored

LEMMA CreateOrGetWrites ==
    ASSUME IInv, NEW c \in Callers, call[c].phase = "persist",
           CreateOrGet(c) \/ UNCHANGED receipts, UNCHANGED <<policy, consumer, effects>>
    PROVE  /\ Tables
           /\ receipts' \in [Keys -> Receipts \union {None}]
           /\ \A k \in Keys : receipts'[k] # None => receipts'[k].outcome # "undecided"
           /\ \A k \in Keys : StoredOK(k)' /\ SpentOK(k)'
           /\ CreateOrGet(c) => receipts'[KeyOf[c]] = Stored(c) /\ Stored(c) # None
<1>1. KeyOf[c] \in Keys /\ receipts \in [Keys -> Receipts \union {None}]
  BY ContractAssumption DEF IInv, TypeOK
<1>2. CASE CreateOrGet(c)
  <2>1. \A k \in Keys : receipts'[k] = IF k = KeyOf[c] THEN Stored(c) ELSE receipts[k]
    BY <1>1, <1>2 DEF CreateOrGet
  <2>2. Stored(c) # None
    BY StoredRow, EvidenceIsTyped
  <2>3. Tables
    BY <2>1, StoredRow DEF Tables, IInv, TypeOK
  <2>4. receipts' \in [Keys -> Receipts \union {None}]
    BY <1>1, <1>2, StoredRow DEF CreateOrGet
  <2>5. \A k \in Keys : StoredOK(k)'
    BY <2>1, StoredRow DEF IInv, StoredOK
  <2>6. \A k \in Keys : SpentOK(k)'
    BY DEF IInv, SpentOK
  <2> QED
    BY <1>1, <2>1, <2>2, <2>3, <2>4, <2>5, <2>6 DEF StoredOK, Decided
<1>3. CASE ~CreateOrGet(c) /\ UNCHANGED receipts
  BY <1>3 DEF IInv, TypeOK, Tables, StoredOK, SpentOK
<1> QED
  BY <1>2, <1>3

\* A call that leaves its caller without a copy.
LEMMA LeaveStep ==
    ASSUME IInv, NEW c \in Callers,
           NEW next \in Calls, next.phase \in {"idle", "returned"},
           call' = [call EXCEPT ![c] = next],
           cut' = [cut EXCEPT ![c] = None] \/ (UNCHANGED cut /\ cut[c] = None)
    PROVE  /\ CallOK(c)' /\ Alone(c)
           /\ call' \in [Callers -> Calls] /\ cut' \in [Callers -> Policies \union {None}]
<1>1. call \in [Callers -> Calls] /\ cut \in [Callers -> Policies \union {None}]
  BY DEF IInv, TypeOK, Calls
<1>2. call'[c] = next /\ cut'[c] = None
  BY <1>1
<1> QED
  BY <1>1, <1>2, AtRest DEF Alone

LEMMA IdleCalls ==
    /\ Idle \in Calls /\ Idle.phase = "idle" /\ Idle.passed = {}
    /\ \A p \in Phases : /\ [Idle EXCEPT !.phase = p] \in Calls
                         /\ [Idle EXCEPT !.phase = p].phase = p
                         /\ [Idle EXCEPT !.phase = p].passed = {}
  BY DEF Idle, Calls, Phases

LEMMA PersistStep ==
    ASSUME IInv, NEW c \in Callers, Persist(c)
    PROVE  IInv'
<1>1. /\ call[c].phase = "persist" /\ CreateOrGet(c)
      /\ UNCHANGED <<policy, consumer, effects, calls, faults, cut, claimedAt>>
  BY DEF Persist
<1>2. /\ Tables /\ receipts' \in [Keys -> Receipts \union {None}]
      /\ \A k \in Keys : receipts'[k] # None => receipts'[k].outcome # "undecided"
      /\ \A k \in Keys : StoredOK(k)' /\ SpentOK(k)'
      /\ receipts'[KeyOf[c]] = Stored(c) /\ Stored(c) # None /\ Stored(c) \in Receipts
  BY <1>1, CreateOrGetWrites, StoredRow
<1>3. cut[c] = None
  BY <1>1 DEF IInv, CallOK, Rechecked
<1>4. CASE Usable(c)
  <2> DEFINE next == [Idle EXCEPT !.phase = "ready", !.mode = "consume",
                                  !.receipt = Stored(c)]
  <2>1. next \in Calls /\ next.phase = "ready" /\ next.passed = {} /\ next.receipt = Stored(c)
    BY <1>2 DEF Idle, Calls, Phases
  <2>2. call' = [call EXCEPT ![c] = next]
    BY <1>4 DEF Persist, Enter
  <2> HIDE DEF next
  <2>3. call \in [Callers -> Calls]
    BY DEF IInv, TypeOK, Calls
  <2>4. call'[c] = next /\ Alone(c)
    BY <1>1, <2>2, <2>3 DEF Alone
  <2>5. Authorized(c)'
    BY <1>2, <1>4, <2>1, <2>4 DEF Authorized, Usable
  <2>6. CallOK(c)'
    BY <1>1, <1>3, <2>1, <2>4, <2>5 DEF CallOK, Evaluating, Evaluated, Rechecked, Acting
  <2>7. TypeOK'
    BY <1>1, <1>2, <2>1, <2>2, <2>3 DEF IInv, TypeOK, Calls
  <2> QED
    BY <1>1, <1>2, <2>4, <2>6, <2>7, CallerMoves
<1>5. CASE ~Usable(c)
  <2> DEFINE next == [Idle EXCEPT !.phase = "returned"]
  <2>1. next \in Calls /\ next.phase = "returned"
    BY IdleCalls DEF Phases
  <2>2. call' = [call EXCEPT ![c] = next]
    BY <1>5 DEF Persist, Enter
  <2> HIDE DEF next
  <2>3. CallOK(c)' /\ Alone(c) /\ call' \in [Callers -> Calls]
    BY <1>1, <1>3, <2>1, <2>2, LeaveStep
  <2>4. TypeOK'
    BY <1>1, <1>2, <2>3 DEF IInv, TypeOK, Calls
  <2> QED
    BY <1>1, <1>2, <2>3, <2>4, CallerMoves
<1> QED
  BY <1>4, <1>5

LEMMA PersistFailsStep ==
    ASSUME IInv, NEW c \in Callers, PersistFails(c)
    PROVE  IInv'
<1>1. /\ call[c].phase = "persist"
      /\ CreateOrGet(c) \/ UNCHANGED receipts
      /\ UNCHANGED <<policy, consumer, effects, calls, cut, claimedAt>>
      /\ faults < MaxFaults /\ faults' = faults + 1
      /\ call' = [call EXCEPT ![c] = [Idle EXCEPT !.phase = "returned"]]
  BY DEF PersistFails, Enter
<1>2. cut[c] = None
  BY <1>1 DEF IInv, CallOK, Rechecked
<1>3. [Idle EXCEPT !.phase = "returned"] \in Calls
      /\ [Idle EXCEPT !.phase = "returned"].phase = "returned"
  BY IdleCalls DEF Phases
<1>4. CallOK(c)' /\ Alone(c) /\ call' \in [Callers -> Calls]
  BY <1>1, <1>2, <1>3, LeaveStep
<1>5. /\ receipts' \in [Keys -> Receipts \union {None}]
      /\ \A k \in Keys : receipts'[k] # None => receipts'[k].outcome # "undecided"
      /\ Tables /\ \A k \in Keys : StoredOK(k)' /\ SpentOK(k)'
  BY <1>1, CreateOrGetWrites
<1>6. faults' \in 0..MaxFaults
  BY <1>1, BoundsAssumption DEF IInv, TypeOK
<1>7. TypeOK'
  BY <1>1, <1>4, <1>5, <1>6 DEF IInv, TypeOK, Calls
<1> QED
  BY <1>1, <1>4, <1>5, <1>7, CallerMoves

\* What a passed place of the recheck says of the policy in force.
LEMMA PlaceHolds ==
    ASSUME IInv, NEW r, NEW s \in Sources, StillHolds(r, s)
    PROVE  /\ ~Bars(s, policy[s])
           /\ s \in Pinned => policy[s] = r.evidence[s]
<1>1. policy[s] \in 0..MaxVersion[s]
  BY DEF IInv, TypeOK
<1>2. s \in Live => Verdict[s][policy[s]] \in {"allows", "denies"}
  BY <1>1, ContractAssumption
<1> QED
  BY <1>2 DEF StillHolds, Bars, Denies

LEMMA StartRecheckStep ==
    ASSUME IInv, NEW c \in Callers, StartRecheck(c)
    PROVE  IInv'
<1> DEFINE next == [call[c] EXCEPT !.phase = "recheck", !.todo = Consulted(BodyOf[c])]
<1>1. /\ call[c].phase = "ready" /\ call[c] \in Calls /\ policy \in Policies
      /\ call' = [call EXCEPT ![c] = next] /\ cut' = [cut EXCEPT ![c] = policy]
      /\ UNCHANGED <<policy, receipts, consumer, effects, calls, faults, claimedAt>>
  BY DEF StartRecheck, Enter, IInv, TypeOK, Calls
<1>2. next \in Calls /\ next.phase = "recheck" /\ next.todo = Consulted(BodyOf[c])
      /\ next.receipt = call[c].receipt
  BY <1>1, EvidenceIsTyped DEF Calls, Phases
<1> HIDE DEF next
<1>3. call'[c] = next /\ cut'[c] = policy /\ Alone(c)
  BY <1>1 DEF IInv, TypeOK, Alone
<1>4. Authorized(c)'
  BY <1>1, <1>2, <1>3 DEF IInv, CallOK, Authorized
<1>5. Rechecked(c)'
  <2>1. Read(next.receipt.evidence, policy)
    BY <1>1, <1>2, ContractAssumption DEF IInv, CallOK, Authorized, StoredOK
  <2>2. Consulted(BodyOf[c]) # {}
    BY EvidenceIsTyped
  <2> QED
    BY <1>1, <1>2, <1>3, <2>1, <2>2 DEF Rechecked
<1>6. CallOK(c)'
  BY <1>2, <1>3, <1>4, <1>5 DEF CallOK, Evaluating, Evaluated, Acting
<1>7. TypeOK'
  BY <1>1, <1>2 DEF IInv, TypeOK, Calls
<1> QED
  BY <1>1, <1>3, <1>6, <1>7, QuietMove

LEMMA RecheckStep ==
    ASSUME IInv, NEW c \in Callers, Recheck(c)
    PROVE  IInv'
<1> DEFINE s == First(RecheckOrder, call[c].todo)
           rest == call[c].todo \ {s}
           next == [call[c] EXCEPT !.passed = @ \union ({s} \intersect Live),
                                   !.phase = IF rest = {} THEN "consume" ELSE @,
                                   !.todo = rest]
           b == BodyOf[c]
           e == call[c].receipt.evidence
<1>1. /\ call[c].phase = "recheck" /\ call[c] \in Calls
      /\ UNCHANGED <<policy, receipts, consumer, effects, calls, faults, claimedAt>>
      /\ Authorized(c) /\ Rechecked(c)
  BY DEF Recheck, IInv, TypeOK, Calls, CallOK
<1>2. call[c].todo # {} /\ call[c].todo \subseteq Consulted(b)
  BY <1>1 DEF Rechecked
<1>3. s \in call[c].todo /\ s \in Sources
  BY <1>1, <1>2, FirstIsToDo DEF Calls
<1> HIDE DEF s
<1>4. CASE StillHolds(call[c].receipt, s)
  <2>1. call' = [call EXCEPT ![c] = next] /\ UNCHANGED cut
    BY <1>4 DEF Recheck, Enter, s
  <2>2. /\ next \in Calls /\ next.todo = rest /\ next.receipt = call[c].receipt
        /\ next.phase = IF rest = {} THEN "consume" ELSE "recheck"
        /\ next.passed = call[c].passed \union ({s} \intersect Live)
    BY <1>1 DEF Calls, Phases
  <2> HIDE DEF next
  <2>3. call'[c] = next /\ cut'[c] = cut[c] /\ Alone(c)
    BY <2>1 DEF IInv, TypeOK, Alone
  <2>4. s \in Pinned => e[s] = cut[c][s] /\ ~Bars(s, cut[c][s])
    <3>1. policy[s] \in Nat /\ cut[c][s] \in Nat /\ cut[c][s] <= policy[s]
          /\ (e[s] \in Nat => e[s] <= cut[c][s])
      BY <1>1, <1>3 DEF Rechecked, Read, IInv, TypeOK
    <3>2. s \in Pinned => e[s] = policy[s] /\ ~Bars(s, policy[s])
      BY <1>3, <1>4, PlaceHolds
    <3> QED
      BY <3>1, <3>2
  <2>5. Rechecked(c)'
    BY <1>1, <1>2, <1>3, <2>2, <2>3, <2>4 DEF Rechecked
  <2>6. Authorized(c)'
    BY <1>1, <2>2, <2>3 DEF Authorized
  <2>7. CallOK(c)'
    BY <2>2, <2>3, <2>5, <2>6 DEF CallOK, Evaluating, Evaluated, Acting
  <2>8. TypeOK'
    BY <1>1, <2>1, <2>2 DEF IInv, TypeOK, Calls
  <2> QED
    BY <1>1, <2>3, <2>7, <2>8, QuietMove
<1>5. CASE ~StillHolds(call[c].receipt, s)
  <2>1. /\ call' = [call EXCEPT ![c] = [Idle EXCEPT !.phase = "returned"]]
        /\ cut' = [cut EXCEPT ![c] = None]
    BY <1>5 DEF Recheck, Enter, Forget, s
  <2>2. /\ CallOK(c)' /\ Alone(c)
        /\ call' \in [Callers -> Calls] /\ cut' \in [Callers -> Policies \union {None}]
    BY <2>1, IdleCalls, LeaveStep DEF Phases
  <2>3. TypeOK'
    BY <1>1, <2>2 DEF IInv, TypeOK, Calls
  <2> QED
    BY <1>1, <2>2, <2>3, QuietMove
<1> QED
  BY <1>4, <1>5

LEMMA CrashStep ==
    ASSUME IInv, NEW c \in Callers, Crash(c)
    PROVE  IInv'
<1>1. /\ call' = [call EXCEPT ![c] = Idle] /\ cut' = [cut EXCEPT ![c] = None]
      /\ UNCHANGED <<policy, receipts, consumer, effects, calls, claimedAt>>
      /\ faults < MaxFaults /\ faults' = faults + 1
  BY DEF Crash, Enter, Forget
<1>2. /\ CallOK(c)' /\ Alone(c)
      /\ call' \in [Callers -> Calls] /\ cut' \in [Callers -> Policies \union {None}]
  BY <1>1, IdleCalls, LeaveStep
<1>3. TypeOK'
  BY <1>1, <1>2, BoundsAssumption DEF IInv, TypeOK, Calls
<1> QED
  BY <1>1, <1>2, <1>3, QuietMove

\* The consumption row is inserted once, before any effect of its key.
LEMMA InsertWrites ==
    ASSUME IInv, NEW c \in Callers, Insertable(c), Insert(c),
           UNCHANGED <<policy, receipts, effects>>
    PROVE  /\ Tables /\ \A k \in Keys : StoredOK(k)' /\ SpentOK(k)'
           /\ consumer' \in [Keys -> Callers \union {None}]
           /\ claimedAt' \in [Callers -> Nat \union {None}]
           /\ consumer'[KeyOf[c]] = c /\ effects'[KeyOf[c]] = 0
<1>1. KeyOf[c] \in Keys /\ policy["stop"] \in Nat
  BY ContractAssumption DEF IInv, TypeOK
<1>2. consumer[KeyOf[c]] = None /\ effects[KeyOf[c]] = 0
  BY <1>1 DEF IInv, TypeOK, Insertable, SpentOK
<1>3. consumer' = [consumer EXCEPT ![KeyOf[c]] = c]
      /\ claimedAt' = [claimedAt EXCEPT ![c] = policy["stop"]]
  BY DEF Insert
<1>4. \A k \in Keys : consumer'[k] = IF k = KeyOf[c] THEN c ELSE consumer[k]
  BY <1>3 DEF IInv, TypeOK
<1> QED
  BY <1>1, <1>2, <1>3, <1>4, EvidenceIsTyped DEF IInv, TypeOK, Tables, StoredOK, SpentOK

LEMMA ConsumeStep ==
    ASSUME IInv, NEW c \in Callers, Consume(c)
    PROVE  IInv'
<1>1. /\ cut' = [cut EXCEPT ![c] = None]
      /\ UNCHANGED <<policy, receipts, effects, calls, faults>>
  BY DEF Consume, Forget
<1>2. CASE Insertable(c)
  <2> DEFINE next == [Idle EXCEPT !.phase = "cleared"]
  <2>1. Insert(c) /\ call' = [call EXCEPT ![c] = next]
    BY <1>2 DEF Consume, Enter
  <2>2. next \in Calls /\ next.phase = "cleared"
    BY IdleCalls DEF Phases
  <2> HIDE DEF next
  <2>3. call'[c] = next /\ cut'[c] = None /\ Alone(c)
    BY <1>1, <2>1 DEF IInv, TypeOK, Alone
  <2>4. CallOK(c)'
    BY <1>1, <1>2, <2>1, <2>2, <2>3, InsertWrites
       DEF CallOK, Evaluating, Evaluated, Authorized, Rechecked, Acting
  <2>5. TypeOK'
    BY <1>1, <1>2, <2>1, <2>2, InsertWrites DEF IInv, TypeOK, Calls
  <2> QED
    BY <1>1, <1>2, <2>1, <2>3, <2>4, <2>5, InsertWrites, CallerMoves
<1>3. CASE ~Insertable(c)
  <2>1. /\ call' = [call EXCEPT ![c] = [Idle EXCEPT !.phase = "returned"]]
        /\ UNCHANGED <<consumer, claimedAt>>
    BY <1>3 DEF Consume, Enter
  <2>2. /\ CallOK(c)' /\ Alone(c)
        /\ call' \in [Callers -> Calls] /\ cut' \in [Callers -> Policies \union {None}]
    BY <1>1, <2>1, IdleCalls, LeaveStep DEF Phases
  <2>3. TypeOK'
    BY <1>1, <2>1, <2>2 DEF IInv, TypeOK, Calls
  <2> QED
    BY <1>1, <2>1, <2>2, <2>3, QuietMove
<1> QED
  BY <1>2, <1>3

LEMMA ConsumeFailsStep ==
    ASSUME IInv, NEW c \in Callers, ConsumeFails(c)
    PROVE  IInv'
<1>1. /\ call' = [call EXCEPT ![c] = [Idle EXCEPT !.phase = "returned"]]
      /\ cut' = [cut EXCEPT ![c] = None]
      /\ UNCHANGED <<policy, receipts, effects, calls>>
      /\ faults < MaxFaults /\ faults' = faults + 1
  BY DEF ConsumeFails, Enter, Forget
<1>2. /\ CallOK(c)' /\ Alone(c)
      /\ call' \in [Callers -> Calls] /\ cut' \in [Callers -> Policies \union {None}]
  BY <1>1, IdleCalls, LeaveStep DEF Phases
<1>3. CASE Insertable(c) /\ Insert(c)
  <2>1. TypeOK'
    BY <1>1, <1>2, <1>3, InsertWrites, BoundsAssumption DEF IInv, TypeOK, Calls
  <2> QED
    BY <1>1, <1>2, <1>3, <2>1, InsertWrites, CallerMoves
<1>4. CASE UNCHANGED <<consumer, claimedAt>>
  <2>1. TypeOK'
    BY <1>1, <1>2, <1>4, BoundsAssumption DEF IInv, TypeOK, Calls
  <2> QED
    BY <1>1, <1>2, <1>4, <2>1, QuietMove
<1> QED
  BY <1>3, <1>4 DEF ConsumeFails

LEMMA FinalStopCheckStep ==
    ASSUME IInv, NEW c \in Callers, FinalStopCheck(c)
    PROVE  IInv'
<1> DEFINE next == [Idle EXCEPT !.phase =
                        IF Denies("stop", policy["stop"]) THEN "returned" ELSE "effect"]
<1>1. /\ call[c].phase = "cleared" /\ call' = [call EXCEPT ![c] = next]
      /\ UNCHANGED <<policy, receipts, consumer, effects, calls, faults, cut, claimedAt>>
  BY DEF FinalStopCheck, Enter
<1>2. next \in Calls /\ next.phase \in {"returned", "effect"}
  BY IdleCalls DEF Phases
<1> HIDE DEF next
<1>3. call'[c] = next /\ Alone(c)
  BY <1>1 DEF IInv, TypeOK, Alone
<1>4. cut[c] = None /\ Acting(c)
  BY <1>1 DEF IInv, CallOK, Rechecked
<1>5. CallOK(c)'
  BY <1>1, <1>2, <1>3, <1>4
     DEF CallOK, Evaluating, Evaluated, Authorized, Rechecked, Acting
<1>6. TypeOK'
  BY <1>1, <1>2 DEF IInv, TypeOK, Calls
<1> QED
  BY <1>1, <1>3, <1>5, <1>6, QuietMove

LEMMA RunEffectStep ==
    ASSUME IInv, NEW c \in Callers, RunEffect(c)
    PROVE  IInv'
<1>1. /\ call[c].phase = "effect"
      /\ call' = [call EXCEPT ![c] = [Idle EXCEPT !.phase = "returned"]]
      /\ effects' = [effects EXCEPT ![KeyOf[c]] = @ + 1]
      /\ UNCHANGED <<policy, receipts, consumer, calls, faults, cut, claimedAt>>
  BY DEF RunEffect, Enter
<1>2. KeyOf[c] \in Keys /\ consumer[KeyOf[c]] = c /\ effects[KeyOf[c]] = 0 /\ cut[c] = None
  BY <1>1, ContractAssumption DEF IInv, CallOK, Acting, Rechecked
<1>3. \A k \in Keys : effects'[k] = IF k = KeyOf[c] THEN 1 ELSE effects[k]
  BY <1>1, <1>2 DEF IInv, TypeOK
<1>4. /\ CallOK(c)' /\ Alone(c) /\ call' \in [Callers -> Calls]
  BY <1>1, <1>2, IdleCalls, LeaveStep DEF Phases
<1>5. Tables
  BY <1>1 DEF IInv, TypeOK, Tables
<1>6. \A d \in Callers \ {c} : CallOK(d)'
  <2> SUFFICES ASSUME NEW d \in Callers \ {c}
               PROVE  CallOK(d)'
    OBVIOUS
  <2>1. call[d].phase \in {"cleared", "effect"} => KeyOf[d] # KeyOf[c] /\ KeyOf[d] \in Keys
    BY <1>2, ContractAssumption DEF IInv, CallOK, Acting
  <2> QED
    BY <1>1, <1>3, <1>4, <1>5, <2>1, OthersKeep DEF Alone
<1>7. \A k \in Keys : StoredOK(k)' /\ SpentOK(k)'
  BY <1>1, <1>2, <1>3, EvidenceIsTyped DEF IInv, StoredOK, SpentOK
<1>8. TypeOK'
  <2>1. effects' \in [Keys -> Nat]
    BY <1>1, <1>2, <1>3 DEF IInv, TypeOK
  <2> QED
    BY <1>1, <1>4, <2>1 DEF IInv, TypeOK, Calls
<1> QED
  BY <1>4, <1>6, <1>7, <1>8 DEF IInv

LEMMA StepInduction == IInv /\ [Next]_vars => IInv'
<1> SUFFICES ASSUME IInv, [Next]_vars
             PROVE  IInv'
  OBVIOUS
<1>1. CASE UNCHANGED vars
  <2> USE <1>1 DEF vars
  <2>1. TypeOK'
    BY DEF IInv, TypeOK
  <2>2. \A c \in Callers : CallOK(c)'
    <3>1. Tables
      BY DEF IInv, TypeOK, Tables
    <3> QED
      BY <3>1, OthersKeep
  <2>3. \A k \in Keys : StoredOK(k)' /\ SpentOK(k)'
    BY DEF IInv, StoredOK, SpentOK
  <2> QED
    BY <2>1, <2>2, <2>3 DEF IInv
<1>2. CASE Next
  BY <1>2, ChangeStep, BeginStep, EvaluateStep, PersistStep, PersistFailsStep,
     StartRecheckStep, RecheckStep, ConsumeStep, ConsumeFailsStep, FinalStopCheckStep,
     RunEffectStep, CrashStep DEF Next, Step
<1> QED
  BY <1>1, <1>2

\* The inductive invariant holds in every reachable state: what Authorize stored
\* is warranted and was in force, and what recheck has seen by now of a stored
\* receipt was in force when it began.
THEOREM Invariance == Spec => []IInv
<1> QED
  BY InitInv, StepInduction, PTL DEF Spec

\* Every table and call keeps its type, and a stored receipt is decided.
THEOREM TypeCorrect == Spec => []TypeOK
<1>1. IInv => TypeOK
  BY DEF IInv
<1> QED
  BY <1>1, Invariance, PTL

\* However many callers and retries there are of an idempotency key, its effect
\* runs at most once, and for the caller whose consumption row was inserted.
THEOREM EffectRunsOnce == Spec => []OneEffectPerKey
<1>1. IInv => OneEffectPerKey
  <2> SUFFICES ASSUME IInv, NEW k \in Keys
               PROVE  /\ effects[k] + Cardinality({c \in Callers : KeyOf[c] = k
                             /\ call[c].phase \in {"cleared", "effect"}}) <= 1
                      /\ effects[k] > 0 => consumer[k] # None
    BY DEF OneEffectPerKey
  <2> DEFINE acting == {c \in Callers : KeyOf[c] = k
                             /\ call[c].phase \in {"cleared", "effect"}}
  <2>1. effects[k] \in Nat /\ SpentOK(k)
    BY DEF IInv, TypeOK
  <2>2. \A c \in acting : consumer[k] = c /\ effects[k] = 0
    BY DEF IInv, CallOK, Acting
  <2>3. effects[k] + Cardinality(acting) <= 1
    <3> HIDE DEF acting
    <3>1. CASE acting = {}
      BY <2>1, <3>1, FS_EmptySet DEF SpentOK
    <3>2. CASE acting # {}
      <4>1. acting = {consumer[k]} /\ effects[k] = 0
        BY <2>2, <3>2
      <4>2. Cardinality(acting) = 1
        BY <4>1, FS_Singleton
      <4> QED
        BY <4>1, <4>2
    <3> QED
      BY <3>1, <3>2
  <2> QED
    BY <2>1, <2>3 DEF SpentOK
<1> QED
  BY <1>1, Invariance, PTL

\* A call moves by a step of its own caller.
LEMMA OwnStep ==
    ASSUME TypeOK, [Next]_vars, NEW c \in Callers, call'[c] # call[c]
    PROVE  \/ \E mode \in {"authorize", "consume"} : Begin(c, mode)
           \/ Step(c) \/ PersistFails(c) \/ ConsumeFails(c) \/ Crash(c)
<1>1. call' # call
  OBVIOUS
<1>2. PICK d \in Callers : \/ \E mode \in {"authorize", "consume"} : Begin(d, mode)
                           \/ Step(d) \/ PersistFails(d) \/ ConsumeFails(d) \/ Crash(d)
  BY <1>1 DEF Next, vars, ChangePolicy
<1>3. \E next : call' = [call EXCEPT ![d] = next]
  BY <1>2, Zenon DEF Step, Enter, Begin, Evaluate, Persist, PersistFails, StartRecheck,
     Recheck, Consume, ConsumeFails, FinalStopCheck, RunEffect, Crash
<1>4. d = c
  BY <1>3 DEF TypeOK
<1> QED
  BY <1>2, <1>4

\* No effect starts under a stop engaged before its receipt was claimed: the
\* final check after AuthorizeAndConsume reads the stop again.
THEOREM EffectsHeedTheStop == Spec => EffectHeedsStop
<1>1. IInv /\ [Next]_vars =>
        [\A c \in Callers :
          call[c].phase = "cleared" /\ call'[c].phase = "effect" =>
             ~(Denies("stop", policy["stop"]) /\ claimedAt[c] = policy["stop"])]_vars
  <2> SUFFICES ASSUME IInv, [Next]_vars, NEW c \in Callers,
                      call[c].phase = "cleared", call'[c].phase = "effect"
               PROVE  ~Denies("stop", policy["stop"])
    OBVIOUS
  <2>1. TypeOK /\ call[c] \in Calls
    BY DEF IInv, TypeOK, Calls
  <2>2. FinalStopCheck(c) \/ Crash(c)
    BY <2>1, OwnStep DEF Step, Begin, Evaluate, Persist, PersistFails, StartRecheck,
       Recheck, Consume, ConsumeFails, RunEffect
  <2>3. CASE FinalStopCheck(c)
    <3>1. call'[c] = [Idle EXCEPT !.phase =
                         IF Denies("stop", policy["stop"]) THEN "returned" ELSE "effect"]
      BY <2>1, <2>3 DEF TypeOK, FinalStopCheck, Enter
    <3> QED
      BY <3>1 DEF Idle
  <2>4. CASE Crash(c)
    BY <2>1, <2>4 DEF TypeOK, Crash, Enter, Idle
  <2> QED
    BY <2>2, <2>3, <2>4
<1> QED
  BY <1>1, Invariance, PTL DEF Spec, EffectHeedsStop

\* The recheck and the claim turn a call away, without a fault, only for a change
\* of the policy or for a claim of the same key.
THEOREM RefusalsHaveACause == Spec => RefusedForCause
<1>1. IInv /\ [Next]_vars =>
        [\A c \in Callers :
          /\ call[c].phase \in {"recheck", "consume"}
          /\ call'[c].phase = "returned"
          /\ faults' = faults
          => consumer[KeyOf[c]] # None \/ ~InForce(c)]_vars
  <2> SUFFICES ASSUME IInv, [Next]_vars, NEW c \in Callers,
                      call[c].phase \in {"recheck", "consume"},
                      call'[c].phase = "returned", faults' = faults
               PROVE  consumer[KeyOf[c]] # None \/ ~InForce(c)
    OBVIOUS
  <2>1. TypeOK /\ call[c] \in Calls /\ faults \in Nat
    BY BoundsAssumption DEF IInv, TypeOK, Calls
  <2>2. Recheck(c) \/ Consume(c)
    <3>1. ~PersistFails(c) /\ ~ConsumeFails(c) /\ ~Crash(c)
      BY <2>1 DEF PersistFails, ConsumeFails, Crash
    <3>2. /\ ~Evaluate(c) /\ ~Persist(c) /\ ~StartRecheck(c)
          /\ ~FinalStopCheck(c) /\ ~RunEffect(c)
      BY DEF Evaluate, Persist, StartRecheck, FinalStopCheck, RunEffect
    <3>3. \A mode \in {"authorize", "consume"} : ~Begin(c, mode)
      BY DEF Begin
    <3> QED
      BY <2>1, <3>1, <3>2, <3>3, OwnStep DEF Step
  <2>3. CASE Recheck(c)
    <3> DEFINE s == First(RecheckOrder, call[c].todo)
               rest == call[c].todo \ {s}
    <3>1. call[c].phase = "recheck" /\ Authorized(c) /\ Rechecked(c)
      BY <2>3 DEF Recheck, IInv, CallOK
    <3>2. s \in Sources /\ s \in Consulted(BodyOf[c])
      BY <2>1, <3>1, FirstIsToDo DEF Rechecked, Calls
    <3>3. ~StillHolds(call[c].receipt, s)
      <4>1. CASE StillHolds(call[c].receipt, s)
        <5>1. call' = [call EXCEPT ![c] = [call[c] EXCEPT
                 !.passed = @ \union ({s} \intersect Live),
                 !.phase = IF rest = {} THEN "consume" ELSE @,
                 !.todo = rest]]
          BY <2>3, <4>1 DEF Recheck, Enter
        <5> HIDE DEF s, rest
        <5>2. call'[c].phase = IF rest = {} THEN "consume" ELSE "recheck"
          BY <2>1, <3>1, <5>1 DEF TypeOK, Calls
        <5> QED
          BY <5>2
      <4> QED
        BY <4>1
    <3> HIDE DEF s
    <3>4. ~InForce(c)
      BY <3>1, <3>2, <3>3 DEF InForce, Authorized, StillHolds, Bars, Denies
    <3> QED
      BY <3>4
  <2>4. CASE Consume(c)
    <3>1. CASE Insertable(c)
      BY <2>1, <2>4, <3>1 DEF TypeOK, Consume, Enter, Idle
    <3> QED
      BY <3>1 DEF Insertable
  <2> QED
    BY <2>2, <2>3, <2>4
<1> QED
  BY <1>1, Invariance, PTL DEF Spec, RefusedForCause

-----------------------------------------------------------------------------
(* The refinement: receipts are decisions, consumption rows are holders.   *)

LEMMA SameEvidence ==
    /\ Grant!Sources = Sources /\ Grant!Live = Live /\ Grant!Pinned = Pinned
    /\ \A b : Grant!Consulted(b) = Consulted(b)
    /\ \A s, v : Grant!Bars(s, v) = Bars(s, v)
    /\ \A b, e : Grant!Warranted(b, e) = Warranted(b, e)
  BY DEF Grant!Sources, Grant!Live, Grant!Pinned, Grant!Consulted, Consulted,
     Grant!Bars, Bars, Grant!Warranted, Warranted, Grant!MandateAuthorizes,
     MandateAuthorizes

\* What one call's step does to Confirmed.
LEMMA ConfirmedMoves ==
    ASSUME NEW c \in Callers, Alone(c),
           NEW seen, seen = IF call'[c].phase \in {"recheck", "consume"}
                            THEN call'[c].passed ELSE {}
    PROVE  Confirmed' = [Confirmed EXCEPT ![c] = seen]
  BY DEF Confirmed, Alone

\* A step that abstracts to a stutter.
LEMMA Stutters ==
    ASSUME NEW c \in Callers, Alone(c), UNCHANGED <<policy, receipts, consumer, cut>>,
           call[c].phase \notin {"recheck", "consume"} \/ call[c].passed = {},
           call'[c].phase \notin {"recheck", "consume"} \/ call'[c].passed = {}
    PROVE  UNCHANGED Grant!vars
<1>1. Confirmed' = [Confirmed EXCEPT ![c] = {}] /\ Confirmed[c] = {}
  BY ConfirmedMoves DEF Confirmed
<1>2. Confirmed' = Confirmed
  BY <1>1 DEF Confirmed
<1> QED
  BY <1>2 DEF Grant!vars

\* A call that ends without a claim abstracts to leaving the grant.
LEMMA Leaves ==
    ASSUME NEW c \in Callers, Alone(c), UNCHANGED <<policy, receipts, consumer>>,
           call'[c].phase \notin {"recheck", "consume"}, cut' = [cut EXCEPT ![c] = None]
    PROVE  Grant!Leave(c)
  BY ConfirmedMoves DEF Grant!Leave

\* The first decision stored under a key decides it.
LEMMA Decides ==
    ASSUME IInv, NEW c \in Callers, call[c].phase = "persist", Alone(c),
           CreateOrGet(c) \/ UNCHANGED receipts, UNCHANGED <<policy, consumer, cut>>,
           call'[c].phase \in {"ready", "returned"}
    PROVE  Grant!Decide(KeyOf[c]) \/ UNCHANGED Grant!vars
<1>1. KeyOf[c] \in Keys /\ receipts \in [Keys -> Receipts \union {None}]
  BY ContractAssumption DEF IInv, TypeOK
<1>2. Confirmed' = Confirmed
  BY ConfirmedMoves DEF Confirmed
<1>3. CASE receipts' = receipts
  BY <1>2, <1>3 DEF Grant!vars
<1>4. CASE receipts' # receipts
  <2>1. receipts' = [receipts EXCEPT ![KeyOf[c]] = Stored(c)] /\ Stored(c) # None
    BY <1>4, StoredRow, EvidenceIsTyped DEF CreateOrGet
  <2>2. receipts[KeyOf[c]] = None
    BY <1>1, <1>4, <2>1 DEF Stored
  <2> QED
    BY <1>1, <1>2, <2>1, <2>2 DEF Grant!Decide
<1> QED
  BY <1>3, <1>4

\* The inserted consumption row claims the grant.
LEMMA Claims ==
    ASSUME IInv, NEW c \in Callers, call[c].phase = "consume", Insertable(c), Insert(c),
           Alone(c), UNCHANGED <<policy, receipts>>,
           call'[c].phase \notin {"recheck", "consume"}, cut' = [cut EXCEPT ![c] = None]
    PROVE  Grant!Claim(c)
<1> DEFINE k == KeyOf[c]
           b == BodyOf[c]
           r == receipts[KeyOf[c]]
<1>1. /\ k \in Keys /\ r # None /\ r.body = b /\ r.outcome = "authorized"
      /\ call[c].receipt = r /\ Decided(r)
  BY ContractAssumption DEF IInv, CallOK, Authorized, StoredOK
<1>2. /\ cut[c] \in Policies /\ cut[c] # None /\ call[c].todo = {}
      /\ Consulted(b) \intersect Live \subseteq call[c].passed
      /\ \A s \in Consulted(b) \intersect Pinned :
            r.evidence[s] = cut[c][s] /\ ~Bars(s, cut[c][s])
  BY <1>1, EvidenceIsTyped DEF IInv, CallOK, Rechecked
<1>3. Warranted(b, r.evidence)
  BY <1>1 DEF Decided
<1>4. Confirmed[c] = call[c].passed /\ Confirmed' = [Confirmed EXCEPT ![c] = {}]
  BY ConfirmedMoves DEF Confirmed
<1>5. Grant!InForceAt(b, r.evidence, cut[c])
  BY <1>2, SameEvidence DEF Grant!InForceAt
<1>6. consumer[k] = None /\ consumer' = [consumer EXCEPT ![k] = c]
  BY DEF Insertable, Insert
<1> QED
  BY <1>1, <1>2, <1>3, <1>4, <1>5, <1>6, SameEvidence DEF Grant!Claim

LEMMA NextImplements ==
    ASSUME IInv, IInv', [Next]_vars
    PROVE  [Grant!Next]_Grant!vars
<1> USE DEF Grant!Next
<1>0. /\ TypeOK /\ call \in [Callers -> Calls]
      /\ cut \in [Callers -> Policies \union {None}]
  BY DEF IInv, TypeOK, Calls
<1>1. CASE UNCHANGED vars
  BY <1>1 DEF vars, Grant!vars, Confirmed
<1>2. ASSUME NEW s \in Sources, ChangePolicy(s)
      PROVE  Grant!Next
  BY <1>2, SameEvidence DEF ChangePolicy, Grant!Change, Confirmed
<1>3. ASSUME NEW c \in Callers, NEW mode \in {"authorize", "consume"}, Begin(c, mode)
      PROVE  UNCHANGED Grant!vars
  <2>1. Alone(c) /\ call'[c].phase = "evaluate"
    BY <1>0, <1>3 DEF Begin, Enter, Alone, Idle
  <2> QED
    BY <1>3, <2>1, Stutters DEF Begin
<1>4. ASSUME NEW c \in Callers, Evaluate(c)
      PROVE  UNCHANGED Grant!vars
  <2>1. Alone(c) /\ call[c].phase = "evaluate" /\ call'[c].phase \in {"evaluate", "persist"}
    <3> DEFINE phase(o) == IF o = "undecided" THEN "evaluate" ELSE "persist"
    <3>1. call[c].phase = "evaluate"
      BY <1>4 DEF Evaluate
    <3>2. PICK r, o, t : call' = [call EXCEPT ![c] = [call[c] EXCEPT
                          !.receipt = r, !.phase = phase(o), !.todo = t]]
      BY <1>4, <3>1, Zenon DEF Evaluate, Enter
    <3>3. call'[c].phase = phase(o)
      BY <1>0, <3>2 DEF Calls
    <3>4. Alone(c)
      BY <1>0, <1>4, <3>2 DEF Alone, Evaluate
    <3> QED
      BY <3>1, <3>3, <3>4
  <2> QED
    BY <1>4, <2>1, Stutters DEF Evaluate
<1>5. ASSUME NEW c \in Callers, Persist(c)
      PROVE  Grant!Next \/ UNCHANGED Grant!vars
  <2>1. Alone(c) /\ call'[c].phase \in {"ready", "returned"}
    BY <1>0, <1>5 DEF Persist, Enter, Alone, Idle
  <2>2. KeyOf[c] \in Keys
    BY ContractAssumption
  <2> QED
    BY <1>5, <2>1, <2>2, Decides DEF Persist
<1>6. ASSUME NEW c \in Callers, PersistFails(c)
      PROVE  Grant!Next \/ UNCHANGED Grant!vars
  <2>1. Alone(c) /\ call'[c].phase = "returned"
    BY <1>0, <1>6 DEF PersistFails, Enter, Alone, Idle
  <2>2. KeyOf[c] \in Keys
    BY ContractAssumption
  <2> QED
    BY <1>6, <2>1, <2>2, Decides DEF PersistFails
<1>7. ASSUME NEW c \in Callers, StartRecheck(c)
      PROVE  Grant!Look(c)
  <2>1. /\ Alone(c) /\ call'[c].phase = "recheck" /\ call'[c].passed = {}
        /\ cut[c] = None
    BY <1>0, <1>7 DEF StartRecheck, Enter, Alone, Calls, IInv, CallOK, Rechecked
  <2>2. Confirmed' = Confirmed
    BY <1>7, <2>1, ConfirmedMoves DEF Confirmed, StartRecheck
  <2> QED
    BY <1>7, <2>1, <2>2 DEF StartRecheck, Grant!Look
<1>8. ASSUME NEW c \in Callers, Recheck(c)
      PROVE  Grant!Next \/ UNCHANGED Grant!vars
  <2> DEFINE s == First(RecheckOrder, call[c].todo)
             rest == call[c].todo \ {s}
  <2>1. /\ call[c].phase = "recheck" /\ cut[c] # None /\ s \in Sources
        /\ UNCHANGED <<policy, receipts, consumer>>
    BY <1>0, <1>8, EvidenceIsTyped, FirstIsToDo
       DEF Recheck, IInv, CallOK, Rechecked, Calls
  <2>2. CASE StillHolds(call[c].receipt, s)
    <3> DEFINE next == [call[c] EXCEPT
                 !.passed = @ \union ({s} \intersect Live),
                 !.phase = IF rest = {} THEN "consume" ELSE @,
                 !.todo = rest]
    <3>1. call' = [call EXCEPT ![c] = next] /\ UNCHANGED cut
      BY <1>8, <2>2 DEF Recheck, Enter
    <3> HIDE DEF s, rest
    <3>2. /\ next.phase \in {"recheck", "consume"}
          /\ next.passed = call[c].passed \union ({s} \intersect Live)
      BY <1>0, <2>1 DEF Calls
    <3> HIDE DEF next
    <3>3. Alone(c) /\ call'[c] = next
      BY <1>0, <3>1 DEF Alone
    <3>4. /\ Confirmed[c] = call[c].passed
          /\ Confirmed' = [Confirmed EXCEPT ![c] = next.passed]
      BY <2>1, <3>2, <3>3, ConfirmedMoves DEF Confirmed
    <3>5. CASE s \in Live
      <4>1. ~Bars(s, policy[s])
        BY <2>1, <2>2, PlaceHolds
      <4>2. Confirmed' = [Confirmed EXCEPT ![c] = @ \union {s}]
        BY <3>2, <3>4, <3>5
      <4>3. Grant!Confirm(c, s)
        BY <2>1, <3>1, <4>1, <4>2, SameEvidence DEF Grant!Confirm
      <4> QED
        BY <3>5, <4>3, SameEvidence
    <3>6. CASE s \notin Live
      <4>1. next.passed = Confirmed[c]
        BY <3>2, <3>4, <3>6
      <4>2. Confirmed' = Confirmed
        BY <3>4, <4>1 DEF Confirmed
      <4> QED
        BY <2>1, <3>1, <4>2 DEF Grant!vars
    <3> QED
      BY <3>5, <3>6
  <2>3. CASE ~StillHolds(call[c].receipt, s)
    <3>1. /\ call' = [call EXCEPT ![c] = [Idle EXCEPT !.phase = "returned"]]
          /\ cut' = [cut EXCEPT ![c] = None]
      BY <1>8, <2>3 DEF Recheck, Enter, Forget
    <3>2. Alone(c) /\ call'[c].phase = "returned"
      BY <1>0, <3>1 DEF Alone, Idle
    <3> QED
      BY <2>1, <3>1, <3>2, Leaves
  <2> QED
    BY <2>2, <2>3
<1>9. ASSUME NEW c \in Callers, Consume(c)
      PROVE  Grant!Next
  <2>1. Alone(c) /\ call'[c].phase \in {"cleared", "returned"}
    BY <1>0, <1>9 DEF Consume, Enter, Forget, Alone, Idle
  <2>2. CASE Insertable(c)
    BY <1>9, <2>1, <2>2, Claims DEF Consume, Forget
  <2>3. CASE ~Insertable(c)
    BY <1>9, <2>1, <2>3, Leaves DEF Consume, Forget
  <2> QED
    BY <2>2, <2>3
<1>10. ASSUME NEW c \in Callers, ConsumeFails(c)
       PROVE  Grant!Next
  <2>1. Alone(c) /\ call'[c].phase = "returned"
    BY <1>0, <1>10 DEF ConsumeFails, Enter, Forget, Alone, Idle
  <2>2. CASE Insertable(c) /\ Insert(c)
    BY <1>10, <2>1, <2>2, Claims DEF ConsumeFails, Forget
  <2>3. CASE UNCHANGED <<consumer, claimedAt>>
    BY <1>10, <2>1, <2>3, Leaves DEF ConsumeFails, Forget
  <2> QED
    BY <1>10, <2>2, <2>3 DEF ConsumeFails
<1>11. ASSUME NEW c \in Callers, FinalStopCheck(c) \/ RunEffect(c)
       PROVE  UNCHANGED Grant!vars
  <2>1. Alone(c) /\ call[c].phase \in {"cleared", "effect"}
        /\ call'[c].phase \in {"returned", "effect"}
    BY <1>0, <1>11 DEF FinalStopCheck, RunEffect, Enter, Alone, Idle
  <2> QED
    BY <1>11, <2>1, Stutters DEF FinalStopCheck, RunEffect
<1>12. ASSUME NEW c \in Callers, Crash(c)
       PROVE  Grant!Next
  <2>1. Alone(c) /\ call'[c].phase = "idle"
    BY <1>0, <1>12 DEF Crash, Enter, Forget, Alone, Idle
  <2> QED
    BY <1>12, <2>1, Leaves DEF Crash, Forget
<1> QED
  BY <1>1, <1>2, <1>3, <1>4, <1>5, <1>6, <1>7, <1>8, <1>9, <1>10, <1>11, <1>12
     DEF Next, Step

\* The receipts and their consumptions implement GovernedGrant: what Authorize and
\* AuthorizeAndConsume read one source at a time amounts to one decision and one
\* claim on evidence that was in force all at once.
THEOREM ImplementsGovernedGrant == Spec => GrantIsGoverned
<1>1. Init => Grant!Init
  BY SameEvidence DEF Init, Grant!Init, Confirmed, Idle
<1>2. IInv /\ IInv' /\ [Next]_vars => [Grant!Next]_Grant!vars
  BY NextImplements
<1> QED
  BY <1>1, <1>2, Invariance, PTL DEF Spec, GrantIsGoverned, Grant!Spec
=============================================================================
