------------------------- MODULE TaskOperationProofs -------------------------
(***************************************************************************)
(* Proofs about TaskOperation, for any handlers, keys, decided reviews and *)
(* numbers of approvals and faults.                                        *)
(***************************************************************************)
EXTENDS TaskOperation, FiniteSetTheorems, WellFoundedInduction, TLAPS

\* What the constants are.
LEMMA ConstantFacts ==
    /\ MaxApprovals \in Nat /\ MaxFaults \in Nat /\ Decided \subseteq Reviews
    /\ None \notin Ops /\ None \notin Workers /\ None \notin Reviews
    /\ None \notin RowStatuses /\ None \notin ReviewStatuses
    /\ None \notin Verdicts /\ None \notin Answers
    /\ None \notin Reviews \X Approvals
    /\ \A k \in Keys : k \notin Approvals
<1>1. \A k \in Keys : k \notin Approvals
  BY TaskAssumption DEF Approvals
<1> QED
  BY <1>1, TaskAssumption

\* The latest of some approvals is one of them.
LEMMA Largest ==
    ASSUME NEW S \in SUBSET Approvals, S # {}
    PROVE  Latest(S) \in S /\ \A m \in S : m <= Latest(S)
<1> DEFINE R == {p \in Nat \X Nat : p[1] < p[2]}
<1>1. IsWellFoundedOn(R, Nat)
  BY NatLessThanWellFounded DEF OpToRel
<1> DEFINE T == {MaxApprovals - n : n \in S}
<1>2. T \subseteq Nat /\ T # {}
  <2>1. \A n \in S : n \in Nat /\ n <= MaxApprovals
    BY ConstantFacts DEF Approvals
  <2>2. MaxApprovals \in Nat
    BY ConstantFacts
  <2>3. \A n \in S : MaxApprovals - n \in Nat
    BY <2>1, <2>2
  <2> QED
    BY <2>3
<1>3. PICK t \in T : \A u \in T : <<u, t>> \notin R
  BY <1>1, <1>2, WFMin
<1>4. PICK n \in S : t = MaxApprovals - n
  BY <1>3
<1>5. \A m \in S : m <= n
  <2> SUFFICES ASSUME NEW m \in S
               PROVE  m <= n
    OBVIOUS
  <2>1. MaxApprovals \in Nat /\ m \in Nat /\ n \in Nat
    BY ConstantFacts DEF Approvals
  <2>2. MaxApprovals - m \in T
    OBVIOUS
  <2>3. <<MaxApprovals - m, MaxApprovals - n>> \notin R
    BY <2>2, <1>3, <1>4
  <2>4. MaxApprovals - m \in Nat /\ MaxApprovals - n \in Nat
    BY <1>2, <2>2
  <2>5. ~(MaxApprovals - m < MaxApprovals - n)
    BY <2>3, <2>4
  <2> QED
    BY <2>1, <2>5
<1>6. QED
  BY <1>5 DEF Latest

\* The approvals are given in order.
LEMMA NextApproval ==
    ASSUME \A n \in Given : \A m \in Approvals : m < n => m \in Given,
           NEW n \in Approvals, n = Cardinality(Given) + 1
    PROVE  n \notin Given /\ \A m \in Approvals : m < n <=> m \in Given
<1>1. Given \in SUBSET Approvals /\ MaxApprovals \in Nat
  BY ConstantFacts DEF Given
<1>2. PICK k \in Nat : Given = 1..k
  <2>1. CASE Given = {}
    <3>1. Given = 1..0
      BY <2>1
    <3> QED
      BY <3>1
  <2>2. CASE Given # {}
    <3>1. PICK g \in Given : \A m \in Given : m <= g
      BY <1>1, <2>2, Largest
    <3>2. g \in Approvals /\ g \in Nat
      BY <1>1 DEF Approvals
    <3>3. \A m \in 1..g : m \in Approvals
      BY <1>1, <3>2 DEF Approvals
    <3>4. \A m \in 1..g : m \in Given
      BY <3>1, <3>2, <3>3
    <3>5. \A m \in Given : m \in 1..g
      <4> SUFFICES ASSUME NEW m \in Given
                   PROVE  m \in 1..g
        OBVIOUS
      <4>1. m <= g /\ m \in Nat /\ m >= 1
        BY <1>1, <3>1 DEF Approvals
      <4> QED
        BY <3>2, <4>1
    <3>6. Given = 1..g
      BY <3>4, <3>5
    <3> QED
      BY <3>2, <3>6
  <2> QED
    BY <2>1, <2>2
<1>3. n = k + 1
  <2>1. 1 \in Int /\ k \in Int
    BY <1>2
  <2>2. Cardinality(1..k) = IF 1 > k THEN 0 ELSE k - 1 + 1
    BY <2>1, FS_Interval
  <2>3. Cardinality(Given) = k
    BY <1>2, <2>2
  <2> QED
    BY <2>3
<1> QED
  BY <1>1, <1>2, <1>3 DEF Approvals

(***************************************************************************)
(* The inductive invariant.                                                *)
(***************************************************************************)

\* A handler that has the operation, alone, and what it may be about to do.
Running == Executing \union {"settle"}
Places == [pc : PCs, op : Ops \union {None}, attempt : 0..2,
           review : Reviews \union {None}, rev : 0..MaxApprovals + 1,
           lost : BOOLEAN,
           result : Answers \union Verdicts \union {"completed", "needs_review", None}]

\* A validated run of the review is in the completion log.
Proven(v) == \E n \in Given : decisions[n][1] = v /\ plans[n] = "validated"

\* Nothing happened to an operation nobody claimed.
RowOK(o) ==
    /\ ops[o].status = None =>
          effects[o] = 0 /\ plans[o] = None /\ reviews[<<"plan", o>>] = NoReview
    /\ effects[o] \in {0, 1}
    /\ ops[o].status = "completed" => plans[o] # None
    /\ o \in Approvals /\ ops[o].status # None => o \in Given

\* The revision of a review is past every approval of it that has its outcome.
ReviewOK(v) ==
    /\ reviews[v].status = None <=> reviews[v].rev = 0
    /\ \A n \in Given : decisions[n][1] = v =>
          /\ decisions[n][2] <= reviews[v].rev
          /\ Open(v) => decisions[n][2] < reviews[v].rev
    /\ Approved(v) => reviews[v].rev \in Given
    /\ reviews[v].rev > 1 => reviews[v].rev - 1 \in Given
    /\ reviews[v].status = "completed" => Proven(v)

GivenOK ==
    /\ \A n \in Given : \A m \in Approvals : m < n => m \in Given
    /\ \A m, n \in Given : decisions[m] = decisions[n] => m = n

SharedOK ==
    /\ \A o \in Ops : RowOK(o)
    /\ \A v \in Reviews : ReviewOK(v)
    /\ GivenOK

\* How far its run is, in what it did and stored.
RunOK(w) ==
    LET o == worker[w].op
    IN /\ worker[w].pc \notin {"idle", "reconcile"} => o \in Ops
       /\ o \in Approvals => o \in Given
       /\ worker[w].pc \in Running => ops[o].status # None
       /\ worker[w].pc \in Executing => plans[o] = None
       /\ worker[w].pc \in Executing \ {"log"} => reviews[<<"plan", o>>] = NoReview
       /\ worker[w].pc = "attempt" => worker[w].attempt \in {1, 2}
       /\ worker[w].pc = "attempt" /\ worker[w].attempt = 1 => effects[o] = 0
       /\ worker[w].pc = "tool" => worker[w].attempt = 1 /\ effects[o] = 0
       /\ worker[w].pc \in {"attach", "log"} => worker[w].result \in Verdicts
       /\ worker[w].pc = "settle" => plans[o] # None

\* The approval it acts for, and what it found proven.
ApprovalOK(w) ==
    /\ worker[w].review # None /\ worker[w].pc # "reconcile" =>
          /\ worker[w].op \in Given
          /\ decisions[worker[w].op] = <<worker[w].review, worker[w].rev>>
    /\ worker[w].pc \in {"claim", "outcome", "reconcile"} => worker[w].review # None
    /\ worker[w].pc = "reconcile" =>
          /\ worker[w].result \in {"completed", "needs_review"}
          /\ worker[w].result = "completed" => Proven(worker[w].review)

\* One handler at a time runs an operation.
Exclusive ==
    \A w, x \in Workers :
       worker[w].pc \in Running /\ worker[x].pc \in Running /\ worker[w].op = worker[x].op
          => w = x

IInv == TypeOK /\ SharedOK /\ Exclusive /\ \A w \in Workers : RunOK(w) /\ ApprovalOK(w)

-----------------------------------------------------------------------------
\* What a step leaves to the handler that runs the operation; the step of handler
\* w touches its own operation only.
Untouched(o) ==
    /\ plans'[o] = plans[o] /\ effects'[o] = effects[o]
    /\ reviews[<<"plan", o>>] = NoReview => reviews'[<<"plan", o>>] = NoReview
Alone(w) ==
    \A o \in Ops : ~(worker[w].pc \in Running /\ worker[w].op = o) => Untouched(o)

\* Nothing recorded is taken back.
Recorded ==
    /\ \A n \in Given : n \in Given' /\ decisions'[n] = decisions[n]
    /\ \A o \in Ops : /\ plans[o] # None => plans'[o] = plans[o]
                      /\ ops[o].status # None => ops'[o].status # None

LEMMA ProvenStays ==
    ASSUME IInv, Recorded, NEW v \in Reviews, Proven(v)
    PROVE  Proven(v)'
<1>1. PICK n \in Given : decisions[n][1] = v /\ plans[n] = "validated"
  BY DEF Proven
<1>2. n \in Ops
  BY DEF Given, Ops
<1>3. plans'[n] = plans[n] /\ n \in Given' /\ decisions'[n] = decisions[n]
  BY <1>1, <1>2, ConstantFacts DEF Recorded, Verdicts
<1> QED
  BY <1>1, <1>3 DEF Proven

LEMMA OthersKeep ==
    ASSUME IInv, NEW x \in Workers, worker'[x] = worker[x], Recorded,
           worker[x].pc \in Running => Untouched(worker[x].op)
    PROVE  RunOK(x)' /\ ApprovalOK(x)'
<1>1. worker[x] \in Places /\ RunOK(x) /\ ApprovalOK(x) /\ Given \subseteq Ops
  BY DEF IInv, TypeOK, Places, Given, Ops
<1>2. RunOK(x)'
  <2>1. CASE worker[x].pc \in Running
    <3>1. worker[x].op \in Ops
      BY <1>1, <2>1 DEF RunOK, Running, Executing
    <3> QED
      BY <1>1, <2>1, <3>1 DEF RunOK, Untouched, Recorded, Running, Executing
  <2>2. CASE worker[x].pc \notin Running
    BY <1>1, <2>2 DEF RunOK, Recorded, Running, Executing
  <2> QED
    BY <2>1, <2>2
<1>3. ApprovalOK(x)'
  <2>1. worker[x].review # None => worker[x].review \in Reviews
    BY <1>1 DEF Places
  <2> QED
    BY <1>1, <2>1, ProvenStays DEF ApprovalOK, Recorded
<1> QED
  BY <1>2, <1>3

\* A step of one handler.
LEMMA HandlerMoves ==
    ASSUME IInv, NEW w \in Workers, worker' = [worker EXCEPT ![w] = worker'[w]],
           TypeOK', SharedOK', Alone(w), Recorded, RunOK(w)', ApprovalOK(w)',
           worker'[w].pc \in Running =>
              \/ worker[w].pc \in Running /\ worker'[w].op = worker[w].op
              \/ ops[worker'[w].op].status = None
    PROVE  IInv'
<1>1. \A x \in Workers \ {w} : worker'[x] = worker[x]
  BY DEF IInv, TypeOK
<1>2. \A x \in Workers : RunOK(x)' /\ ApprovalOK(x)'
  <2> SUFFICES ASSUME NEW x \in Workers \ {w}
               PROVE  RunOK(x)' /\ ApprovalOK(x)'
    OBVIOUS
  <2>1. worker[x].pc \in Running => worker[x].op \in Ops
    BY DEF IInv, RunOK, Running, Executing
  <2>2. worker[x].pc \in Running => Untouched(worker[x].op)
    BY <2>1 DEF Alone, IInv, Exclusive
  <2> QED
    BY <1>1, <2>2, OthersKeep
<1>3. ASSUME NEW x \in Workers \ {w}, worker'[w].pc \in Running, worker'[x].pc \in Running,
             worker'[w].op = worker'[x].op
      PROVE  FALSE
  BY <1>1, <1>3 DEF IInv, Exclusive, RunOK
<1>4. Exclusive'
  <2> SUFFICES ASSUME NEW x \in Workers, NEW y \in Workers, worker'[x].pc \in Running,
                      worker'[y].pc \in Running, worker'[x].op = worker'[y].op
               PROVE  x = y
    BY DEF Exclusive, Running, Executing
  <2>1. CASE x # w /\ y # w
    BY <2>1, <1>1 DEF Exclusive, IInv
  <2>2. CASE x = w \/ y = w
    BY <2>2, <1>3
  <2> QED
    BY <2>1, <2>2
<1> QED
  BY <1>2, <1>4 DEF IInv

\* A step of nobody, or of a handler that stays where it is.
LEMMA NobodyMoves ==
    ASSUME IInv, UNCHANGED worker, TypeOK', SharedOK', Recorded, \A o \in Ops : Untouched(o)
    PROVE  IInv'
<1>1. \A x \in Workers : RunOK(x)' /\ ApprovalOK(x)'
  <2> SUFFICES ASSUME NEW x \in Workers
               PROVE  RunOK(x)' /\ ApprovalOK(x)'
    OBVIOUS
  <2>1. worker[x].pc \in Running => worker[x].op \in Ops
    BY DEF IInv, RunOK, Running, Executing
  <2> QED
    BY <2>1, OthersKeep
<1>2. Exclusive'
  BY DEF IInv, Exclusive
<1> QED
  BY <1>1, <1>2 DEF IInv

-----------------------------------------------------------------------------
(* What the helpers do to a handler's place. *)

\* It goes on with what it has.
Continues(w) ==
    /\ worker' = [worker EXCEPT ![w] = worker'[w]]
    /\ worker'[w] \in Places
    /\ worker'[w].op = worker[w].op /\ worker'[w].review = worker[w].review
    /\ worker'[w].rev = worker[w].rev

LEMMA GotoFacts ==
    ASSUME TypeOK, NEW w \in Workers, NEW pc \in PCs, Goto(w, pc)
    PROVE  /\ Continues(w) /\ worker'[w].pc = pc
           /\ worker'[w].attempt = worker[w].attempt /\ worker'[w].result = worker[w].result
<1> QED
  BY DEF TypeOK, Goto, Continues, Places

LEMMA ReturnFacts ==
    ASSUME TypeOK, NEW w \in Workers, NEW pc \in PCs, NEW result \in Answers \union Verdicts,
           Return(w, pc, result)
    PROVE  Continues(w) /\ worker'[w].pc = pc /\ worker'[w].result = result
<1>1. worker \in [Workers -> Places]
  BY DEF TypeOK, Places
<1>2. worker'[w] = [worker[w] EXCEPT !.pc = pc, !.result = result, !.attempt = 0]
  BY <1>1 DEF Return
<1>3. worker' = [worker EXCEPT ![w] = worker'[w]]
  BY <1>1, <1>2 DEF Return
<1>4. worker'[w] \in Places
  <2>1. 0 \in 0..2
    OBVIOUS
  <2> QED
    BY <1>1, <1>2, <2>1 DEF Places
<1>5. /\ worker'[w].op = worker[w].op /\ worker'[w].review = worker[w].review
      /\ worker'[w].rev = worker[w].rev /\ worker'[w].pc = pc /\ worker'[w].result = result
  BY <1>1, <1>2 DEF Places
<1> QED
  BY <1>3, <1>4, <1>5 DEF Continues

\* A verdict, or the second attempt.
LEMMA VerdictFacts ==
    ASSUME TypeOK, NEW w \in Workers, Validate(w) \/ Unproven(w)
    PROVE  /\ Continues(w)
           /\ \/ worker'[w].pc \in {"attach", "log"} /\ worker'[w].result \in Verdicts
              \/ worker'[w].pc = "attempt" /\ worker'[w].attempt = 2
<1>1. {"attach", "log", "attempt"} \subseteq PCs /\ {"unproven", "validated"} \subseteq Verdicts
  BY DEF PCs, Executing, Verdicts
<1>2. CASE Return(w, "log", "validated")
  BY <1>1, <1>2, ReturnFacts
<1>3. CASE Unproven(w)
  BY <1>1, <1>3, ReturnFacts DEF Unproven
<1>4. CASE worker' = [worker EXCEPT ![w].pc = "attempt", ![w].attempt = 2]
  <2>1. worker \in [Workers -> Places]
    BY DEF TypeOK, Places
  <2>2. worker'[w] = [worker[w] EXCEPT !.pc = "attempt", !.attempt = 2]
    BY <1>4, <2>1
  <2>3. worker' = [worker EXCEPT ![w] = worker'[w]]
    BY <1>4, <2>1, <2>2
  <2>4. worker'[w] \in Places
    <3>1. 2 \in 0..2
      OBVIOUS
    <3> QED
      BY <1>1, <2>1, <2>2, <3>1 DEF Places
  <2>5. /\ worker'[w].op = worker[w].op /\ worker'[w].review = worker[w].review
        /\ worker'[w].rev = worker[w].rev /\ worker'[w].pc = "attempt"
        /\ worker'[w].attempt = 2
    BY <2>1, <2>2 DEF Places
  <2> QED
    BY <2>3, <2>4, <2>5 DEF Continues
<1> QED
  BY <1>2, <1>3, <1>4 DEF Validate

\* The answer leaves the operation behind, and keeps the approval.
LEMMA LeaveFacts ==
    ASSUME IInv, NEW w \in Workers, NEW result \in Answers \union Verdicts \union {"completed", "needs_review", None},
           Leave(w, result), worker[w].pc \notin {"idle", "reconcile"},
           \A n \in Given : n \in Given' /\ decisions'[n] = decisions[n]
    PROVE  /\ worker' = [worker EXCEPT ![w] = worker'[w]]
           /\ worker'[w] \in Places
           /\ worker'[w].pc \in {"idle", "outcome"}
           /\ RunOK(w)' /\ ApprovalOK(w)'
<1>1. worker[w] \in Places /\ RunOK(w) /\ ApprovalOK(w) /\ None \notin Approvals
  BY ConstantFacts DEF IInv, TypeOK, Places, Ops
<1>2. CASE worker[w].review = None
  <2>1. worker' = [worker EXCEPT ![w] = Idle] /\ worker'[w] = Idle
    BY <1>1, <1>2 DEF Leave, IInv, TypeOK
  <2>2. Idle \in Places
    BY ConstantFacts DEF Idle, Places, PCs
  <2>3. worker'[w].pc = "idle" /\ worker'[w].op = None /\ worker'[w].review = None
    BY <2>1 DEF Idle
  <2> QED
    BY <1>1, <2>1, <2>2, <2>3 DEF RunOK, ApprovalOK, Running, Executing
<1>3. CASE worker[w].review # None
  <2>1. worker'[w] = [worker[w] EXCEPT !.pc = "outcome", !.result = result, !.lost = FALSE]
    BY <1>1, <1>3 DEF Leave, IInv, TypeOK
  <2>2. worker' = [worker EXCEPT ![w] = worker'[w]]
    BY <1>3, <2>1 DEF Leave
  <2>3. "outcome" \in PCs
    BY DEF PCs
  <2>4. worker'[w] \in Places
    BY <1>1, <2>1, <2>3 DEF Places
  <2>5. /\ worker'[w].pc = "outcome" /\ worker'[w].op = worker[w].op
        /\ worker'[w].review = worker[w].review /\ worker'[w].rev = worker[w].rev
    BY <1>1, <2>1 DEF Places
  <2>6. RunOK(w)'
    BY <1>1, <1>3, <2>5 DEF RunOK, ApprovalOK, Running, Executing
  <2>7. ApprovalOK(w)'
    BY <1>1, <1>3, <2>5 DEF ApprovalOK
  <2> QED
    BY <2>2, <2>4, <2>5, <2>6, <2>7
<1> QED
  BY <1>2, <1>3

LEMMA IdleFacts ==
    ASSUME TypeOK, NEW w \in Workers, worker' = [worker EXCEPT ![w] = Idle]
    PROVE  /\ worker' = [worker EXCEPT ![w] = worker'[w]]
           /\ worker'[w] \in Places /\ worker'[w].pc = "idle"
           /\ RunOK(w)' /\ ApprovalOK(w)'
<1>1. worker'[w] = Idle
  BY DEF TypeOK
<1>2. Idle \in Places
  BY ConstantFacts DEF Idle, Places, PCs
<1>3. None \notin Approvals
  BY ConstantFacts DEF Ops
<1>4. worker'[w].pc = "idle" /\ worker'[w].op = None /\ worker'[w].review = None
  BY <1>1 DEF Idle
<1> QED
  BY <1>1, <1>2, <1>3, <1>4 DEF RunOK, ApprovalOK, Running, Executing

\* A step that leaves every table as it is.
LEMMA ControlStep ==
    ASSUME IInv, NEW w \in Workers, worker' = [worker EXCEPT ![w] = worker'[w]],
           worker'[w] \in Places, faults' \in 0..MaxFaults,
           UNCHANGED <<ops, plans, reviews, decisions, effects>>,
           RunOK(w)', ApprovalOK(w)',
           worker'[w].pc \in Running =>
              worker[w].pc \in Running /\ worker'[w].op = worker[w].op
    PROVE  IInv'
<1>1. TypeOK'
  BY DEF IInv, TypeOK, Places
<1>2. SharedOK'
  BY DEF IInv, SharedOK, RowOK, ReviewOK, GivenOK, Given, Proven, Open, Approved
<1>3. Alone(w) /\ Recorded
  BY DEF Alone, Untouched, Recorded, Given
<1> QED
  BY <1>1, <1>2, <1>3, HandlerMoves

LEMMA FaultFacts ==
    ASSUME TypeOK, Fault \/ UNCHANGED faults
    PROVE  faults' \in 0..MaxFaults
<1> QED
  BY ConstantFacts DEF TypeOK, Fault

-----------------------------------------------------------------------------
(* Steps that change no table. *)

LEMMA AttemptStep ==
    ASSUME IInv, NEW w \in Workers, Attempt(w)
    PROVE  IInv'
<1>1. worker[w].pc = "attempt" /\ RunOK(w) /\ ApprovalOK(w) /\ worker[w] \in Places
  BY DEF Attempt, IInv, TypeOK, Places
<1>2. /\ Continues(w)
      /\ \/ worker'[w].pc \in {"attach", "log"} /\ worker'[w].result \in Verdicts
         \/ worker'[w].pc = "attempt" /\ worker'[w].attempt = 2
         \/ worker'[w].pc = "tool" /\ worker'[w].attempt = 1 /\ worker[w].attempt = 1
  <2>1. CASE Validate(w) \/ Unproven(w)
    BY <2>1, VerdictFacts DEF IInv
  <2>2. CASE worker[w].attempt = 1 /\ Goto(w, "tool")
    <3>1. "tool" \in PCs
      BY DEF PCs, Executing
    <3> QED
      BY <2>2, <3>1, GotoFacts DEF IInv
  <2> QED
    BY <2>1, <2>2 DEF Attempt, CallTool
<1>3. UNCHANGED <<ops, plans, reviews, decisions, effects, faults>>
  BY DEF Attempt
<1>4. RunOK(w)'
  BY <1>1, <1>2, <1>3 DEF RunOK, Continues, Running, Executing, Given
<1>5. ApprovalOK(w)'
  BY <1>1, <1>2, <1>3 DEF ApprovalOK, Continues, Given
<1> QED
  BY <1>1, <1>2, <1>3, <1>4, <1>5, ControlStep, FaultFacts
     DEF Continues, Running, Executing, IInv

LEMMA GivesUpStep ==
    ASSUME IInv, NEW w \in Workers, WorkFails(w) \/ SettleFails(w)
    PROVE  IInv'
<1>1. worker[w].pc \in Running /\ RunOK(w) /\ ApprovalOK(w) /\ worker[w] \in Places
  BY DEF WorkFails, SettleFails, Running, Executing, IInv, TypeOK, Places
<1>2. Continues(w) /\ worker'[w].pc = "uncertain"
  <2>1. "uncertain" \in PCs /\ "error" \in Answers
    BY DEF PCs, Answers
  <2> QED
    BY <2>1, ReturnFacts DEF WorkFails, SettleFails, IInv
<1>3. UNCHANGED <<ops, plans, reviews, decisions, effects>> /\ Fault
  BY DEF WorkFails, SettleFails
<1>4. RunOK(w)'
  BY <1>1, <1>2, <1>3 DEF RunOK, Continues, Running, Executing, Given
<1>5. ApprovalOK(w)'
  BY <1>1, <1>2, <1>3 DEF ApprovalOK, Continues, Running, Executing, Given
<1> QED
  BY <1>2, <1>3, <1>4, <1>5, ControlStep, FaultFacts DEF Continues, Running, Executing, IInv

LEMMA ReviewFailsStep ==
    ASSUME IInv, NEW w \in Workers, ReviewFails(w)
    PROVE  IInv'
<1>1. /\ UNCHANGED <<ops, plans, reviews, decisions, effects>>
      /\ Fault /\ Leave(w, "error") /\ worker[w].pc \in {"uncertain", "surface"}
  BY DEF ReviewFails
<1>2. "error" \in Answers /\ \A n \in Given : n \in Given' /\ decisions'[n] = decisions[n]
  BY <1>1 DEF Answers, Given
<1>3. /\ worker' = [worker EXCEPT ![w] = worker'[w]]
      /\ worker'[w] \in Places /\ worker'[w].pc \in {"idle", "outcome"}
      /\ RunOK(w)' /\ ApprovalOK(w)'
  BY <1>1, <1>2, LeaveFacts
<1> QED
  BY <1>1, <1>3, ControlStep, FaultFacts DEF Running, Executing, IInv

LEMMA EndsStep ==
    ASSUME IInv, NEW w \in Workers, MarkReviewOutcomeFails(w) \/ Crash(w)
    PROVE  IInv'
<1>1. /\ UNCHANGED <<ops, plans, reviews, decisions, effects>>
      /\ Fault /\ worker' = [worker EXCEPT ![w] = Idle]
  BY DEF MarkReviewOutcomeFails, Crash
<1> QED
  BY <1>1, IdleFacts, ControlStep, FaultFacts DEF Running, Executing, IInv

\* What the reconciler takes for proven is.
LEMMA DispositionFacts ==
    ASSUME NEW v \in Reviews, Disposition(v) = "completed"
    PROVE  Proven(v)
<1>1. Linked(v) # {} /\ plans[Latest(Linked(v))] = "validated"
  BY DEF Disposition
<1>2. Linked(v) \in SUBSET Approvals
  BY DEF Linked, Given
<1>3. PICK n \in Linked(v) : plans[n] = "validated"
  BY <1>1, <1>2, Largest
<1> QED
  BY <1>3 DEF Linked, Proven

LEMMA ListApprovedStep ==
    ASSUME IInv, NEW w \in Workers, NEW v \in Reviews, ListApproved(w, v)
    PROVE  IInv'
<1>1. /\ UNCHANGED <<ops, plans, reviews, decisions, effects, faults>>
      /\ worker' = [worker EXCEPT ![w] = [Idle EXCEPT !.pc = "reconcile", !.review = v,
                         !.rev = reviews[v].rev, !.result = Disposition(v)]]
  BY DEF ListApproved
<1>2. Disposition(v) \in {"completed", "needs_review"}
  BY DEF Disposition
<1>3. worker'[w] = [pc |-> "reconcile", op |-> None, review |-> v, rev |-> reviews[v].rev,
                    attempt |-> 0, lost |-> FALSE, result |-> Disposition(v)]
  BY <1>1 DEF Idle, IInv, TypeOK
<1>4. worker' = [worker EXCEPT ![w] = worker'[w]]
  BY <1>1, <1>3 DEF IInv, TypeOK
<1>5. worker'[w] \in Places
  <2>1. reviews[v].rev \in 0..MaxApprovals + 1 /\ 0 \in 0..2 /\ "reconcile" \in PCs
    BY DEF IInv, TypeOK, PCs
  <2> QED
    BY <1>2, <1>3, <2>1 DEF Places
<1>6. None \notin Approvals /\ None \notin Reviews
  BY ConstantFacts DEF Ops
<1>7. RunOK(w)'
  BY <1>3, <1>6 DEF RunOK, Running, Executing
<1>8. ApprovalOK(w)'
  <2>1. Proven(v)' <=> Proven(v)
    BY <1>1 DEF Proven, Given
  <2> QED
    BY <1>2, <1>3, <1>6, <2>1, DispositionFacts DEF ApprovalOK
<1>9. faults' \in 0..MaxFaults /\ UNCHANGED <<ops, plans, reviews, decisions, effects>>
  BY <1>1, FaultFacts DEF IInv
<1>10. worker'[w].pc \notin Running
  BY <1>3 DEF Running, Executing
<1> QED
  BY <1>4, <1>5, <1>7, <1>8, <1>9, <1>10, ControlStep

-----------------------------------------------------------------------------
(* Steps that change a row. *)

LEMMA RowChanges ==
    ASSUME IInv, NEW o \in Ops, NEW r, ops' = [ops EXCEPT ![o] = r],
           r \in [status : RowStatuses, owner : Workers \union {None}, fresh : BOOLEAN],
           r.owner # None <=> r.status = "running",
           r.status = "completed" => plans[o] # None,
           o \in Approvals => o \in Given,
           UNCHANGED <<plans, reviews, decisions, effects>>,
           worker' \in [Workers -> Places], faults' \in 0..MaxFaults
    PROVE  TypeOK' /\ SharedOK' /\ Recorded /\ \A p \in Ops : Untouched(p)
<1>1. None \notin RowStatuses
  BY ConstantFacts
<1>2. /\ ops'[o] = r
      /\ \A p \in Ops \ {o} : ops'[p] = ops[p]
  BY DEF IInv, TypeOK
<1>3. ops' \in [Ops -> [status : RowStatuses \union {None},
                        owner : Workers \union {None}, fresh : BOOLEAN]]
  BY DEF IInv, TypeOK
<1>4. TypeOK'
  BY <1>2, <1>3 DEF IInv, TypeOK, Places
<1>5. \A p \in Ops : RowOK(p)'
  <2> SUFFICES ASSUME NEW p \in Ops
               PROVE  RowOK(p)'
    OBVIOUS
  <2>1. RowOK(p)
    BY DEF IInv, SharedOK
  <2>2. CASE p = o
    BY <1>1, <1>2, <2>1, <2>2 DEF RowOK, Given
  <2>3. CASE p # o
    BY <1>2, <2>1, <2>3 DEF RowOK, Given
  <2> QED
    BY <2>2, <2>3
<1>6. SharedOK'
  BY <1>5 DEF IInv, SharedOK, ReviewOK, GivenOK, Given, Proven, Open, Approved
<1>7. Recorded
  BY <1>1, <1>2 DEF Recorded, Given
<1> QED
  BY <1>4, <1>6, <1>7 DEF Untouched

LEMMA LeaseExpiresStep ==
    ASSUME IInv, NEW o \in Ops, LeaseExpires(o)
    PROVE  IInv'
<1>1. ops[o] \in [status : RowStatuses \union {None}, owner : Workers \union {None},
                  fresh : BOOLEAN]
  BY DEF IInv, TypeOK
<1>2. ops' = [ops EXCEPT ![o] = [ops[o] EXCEPT !.fresh = FALSE]]
  BY DEF LeaseExpires
<1>3. ops[o].status = "running" /\ "running" \in RowStatuses
  BY DEF LeaseExpires, RowStatuses
<1>4. [ops[o] EXCEPT !.fresh = FALSE]
         \in [status : RowStatuses, owner : Workers \union {None}, fresh : BOOLEAN]
  BY <1>1, <1>3
<1>5. UNCHANGED <<plans, reviews, decisions, worker, effects, faults>>
  BY DEF LeaseExpires
<1> QED
  BY <1>1, <1>2, <1>3, <1>4, <1>5, RowChanges, NobodyMoves, ConstantFacts
     DEF IInv, TypeOK, SharedOK, RowOK, Places

LEMMA HeartbeatStep ==
    ASSUME IInv, NEW w \in Workers, HeartbeatTaskOperation(w)
    PROVE  IInv'
<1> DEFINE o == worker[w].op
<1>1. /\ worker[w].pc \in Executing /\ RunOK(w) /\ ApprovalOK(w)
      /\ worker \in [Workers -> Places] /\ UNCHANGED <<plans, reviews, decisions, effects>>
  BY DEF HeartbeatTaskOperation, IInv, TypeOK, Places
<1>2. o \in Ops
  BY <1>1 DEF RunOK, Executing
<1>3. CASE /\ ops[o].status = "running" /\ ops[o].owner = w
           /\ ops' = [ops EXCEPT ![o].fresh = TRUE] /\ UNCHANGED <<worker, faults>>
  <2>1. ops[o] \in [status : RowStatuses \union {None}, owner : Workers \union {None},
                    fresh : BOOLEAN]
    BY <1>2 DEF IInv, TypeOK
  <2>2. "running" \in RowStatuses
    BY DEF RowStatuses
  <2>3. [ops[o] EXCEPT !.fresh = TRUE]
           \in [status : RowStatuses, owner : Workers \union {None}, fresh : BOOLEAN]
    BY <1>3, <2>1, <2>2
  <2>4. ops' = [ops EXCEPT ![o] = [ops[o] EXCEPT !.fresh = TRUE]]
    BY <1>3
  <2> HIDE DEF o
  <2>5. TypeOK' /\ SharedOK' /\ Recorded /\ \A p \in Ops : Untouched(p)
    BY <1>1, <1>2, <1>3, <2>1, <2>3, <2>4, RowChanges, ConstantFacts
       DEF IInv, TypeOK, SharedOK, RowOK
  <2> QED
    BY <1>3, <2>5, NobodyMoves
<1>4. CASE worker' = [worker EXCEPT ![w].lost = TRUE] /\ ops' = ops /\ faults' \in 0..MaxFaults
  <2>1. worker'[w] = [worker[w] EXCEPT !.lost = TRUE]
    BY <1>1, <1>4
  <2>2. /\ worker' = [worker EXCEPT ![w] = worker'[w]] /\ worker'[w] \in Places
        /\ worker'[w].pc = worker[w].pc /\ worker'[w].op = worker[w].op
        /\ worker'[w].review = worker[w].review /\ worker'[w].rev = worker[w].rev
        /\ worker'[w].attempt = worker[w].attempt /\ worker'[w].result = worker[w].result
    BY <1>1, <1>4, <2>1 DEF Places
  <2>3. RunOK(w)' /\ ApprovalOK(w)'
    BY <1>1, <1>4, <2>2 DEF RunOK, ApprovalOK, Executing, Running, Given
  <2> QED
    BY <1>1, <1>4, <2>2, <2>3, ControlStep DEF Running
<1> QED
  BY <1>3, <1>4, FaultFacts DEF HeartbeatTaskOperation, Owned, IInv

\* The place of a handler that leaves with no operation of its own.
LEMMA AnswerFacts ==
    ASSUME IInv, NEW w \in Workers, NEW r \in Places, r.op \in Ops,
           r.op \in Approvals => r.op \in Given,
           r.review # None => r.op \in Given /\ decisions[r.op] = <<r.review, r.rev>>,
           UNCHANGED <<plans, reviews, decisions, effects>>,
           NEW q \in {"outcome", "surface"}, NEW result \in Answers,
           \/ r.review = None /\ q = "outcome" /\ worker' = [worker EXCEPT ![w] = Idle]
           \/ /\ r.review = None => q = "surface"
              /\ worker' = [worker EXCEPT ![w] = [r EXCEPT !.pc = q, !.result = result]]
    PROVE  /\ worker' = [worker EXCEPT ![w] = worker'[w]]
           /\ worker'[w] \in Places /\ worker'[w].pc \notin Running
           /\ RunOK(w)' /\ ApprovalOK(w)'
<1>1. CASE worker' = [worker EXCEPT ![w] = Idle]
  BY <1>1, IdleFacts DEF IInv, Running, Executing
<1>2. CASE /\ r.review = None => q = "surface"
           /\ worker' = [worker EXCEPT ![w] = [r EXCEPT !.pc = q, !.result = result]]
  <2>1. worker'[w] = [r EXCEPT !.pc = q, !.result = result]
    BY <1>2 DEF IInv, TypeOK
  <2>2. q \in PCs
    BY DEF PCs
  <2>3. /\ worker'[w] \in Places /\ worker'[w].pc = q /\ worker'[w].op = r.op
        /\ worker'[w].review = r.review /\ worker'[w].rev = r.rev
    BY <2>1, <2>2 DEF Places
  <2>4. RunOK(w)'
    BY <2>3 DEF RunOK, Running, Executing, Given
  <2>5. ApprovalOK(w)'
    BY <1>2, <2>3 DEF ApprovalOK, Given
  <2> QED
    BY <1>2, <2>1, <2>3, <2>4, <2>5 DEF Running, Executing
<1> QED
  BY <1>1, <1>2

LEMMA ClaimStep ==
    ASSUME IInv, NEW w \in Workers, NEW r \in Places, r.op \in Ops,
           r.op \in Approvals => r.op \in Given,
           r.review # None => r.op \in Given /\ decisions[r.op] = <<r.review, r.rev>>,
           worker[w].pc \notin Running, ClaimTaskOperation(w, r)
    PROVE  IInv'
<1> DEFINE o == r.op
<1>1. /\ UNCHANGED <<plans, reviews, decisions, effects, faults>> /\ worker \in [Workers -> Places]
      /\ faults' \in 0..MaxFaults /\ RowOK(o)
  BY DEF ClaimTaskOperation, IInv, TypeOK, Places, SharedOK
<1>2. ops[o] \in [status : RowStatuses \union {None}, owner : Workers \union {None},
                  fresh : BOOLEAN]
  BY DEF IInv, TypeOK
<1>3. {"plan", "busy", "uncertain"} \subseteq Answers /\ {"running", "needs_review"} \subseteq RowStatuses
  BY DEF Answers, RowStatuses
<1>4. CASE /\ ops[o].status = None
           /\ ops' = [ops EXCEPT ![o] = [status |-> "running", owner |-> w, fresh |-> TRUE]]
           /\ worker' = [worker EXCEPT ![w] = [r EXCEPT !.pc = "attempt", !.attempt = 1]]
  <2>1. worker'[w] = [r EXCEPT !.pc = "attempt", !.attempt = 1]
    BY <1>1, <1>4
  <2>2. "attempt" \in PCs /\ 1 \in 0..2
    BY DEF PCs, Executing
  <2>3. /\ worker'[w] \in Places /\ worker'[w].pc = "attempt" /\ worker'[w].attempt = 1
        /\ worker'[w].op = r.op /\ worker'[w].review = r.review /\ worker'[w].rev = r.rev
    BY <2>1, <2>2 DEF Places
  <2>4. worker' = [worker EXCEPT ![w] = worker'[w]] /\ worker' \in [Workers -> Places]
    BY <1>1, <1>4, <2>1, <2>3
  <2>5. ops'[o].status = "running"
    BY <1>4 DEF IInv, TypeOK
  <2>6. TypeOK' /\ SharedOK' /\ Recorded /\ \A p \in Ops : Untouched(p)
    <3>1. w # None
      BY ConstantFacts
    <3> HIDE DEF o
    <3>2. o \in Ops /\ (o \in Approvals => o \in Given)
      BY DEF o
    <3> QED
      BY <1>1, <1>3, <1>4, <2>4, <3>1, <3>2, RowChanges
  <2>7. RunOK(w)'
    BY <1>1, <1>3, <1>4, <2>3, <2>5, ConstantFacts DEF RowOK, RunOK, Running, Executing, Given
  <2>8. ApprovalOK(w)'
    BY <1>1, <2>3 DEF ApprovalOK, Given
  <2> QED
    BY <1>4, <2>3, <2>4, <2>6, <2>7, <2>8, HandlerMoves DEF Alone
<1>5. CASE /\ UNCHANGED ops
           /\ \E q \in {"outcome", "surface"}, result \in Answers :
                \/ r.review = None /\ q = "outcome" /\ worker' = [worker EXCEPT ![w] = Idle]
                \/ /\ r.review = None => q = "surface"
                   /\ worker' = [worker EXCEPT ![w] = [r EXCEPT !.pc = q, !.result = result]]
  <2>1. /\ worker' = [worker EXCEPT ![w] = worker'[w]]
        /\ worker'[w] \in Places /\ worker'[w].pc \notin Running
        /\ RunOK(w)' /\ ApprovalOK(w)'
    BY <1>1, <1>5, AnswerFacts
  <2> QED
    BY <1>1, <1>5, <2>1, ControlStep
<1>6. CASE /\ ops[o].status = "running"
           /\ ops' = [ops EXCEPT ![o].status = "needs_review", ![o].owner = None]
           /\ worker' = [worker EXCEPT ![w] = [r EXCEPT !.pc = "surface", !.result = "uncertain"]]
  <2>1. /\ worker' = [worker EXCEPT ![w] = worker'[w]]
        /\ worker'[w] \in Places /\ worker'[w].pc \notin Running
        /\ RunOK(w)' /\ ApprovalOK(w)'
    BY <1>1, <1>3, <1>6, AnswerFacts
  <2>2. ops' = [ops EXCEPT ![o] = [ops[o] EXCEPT !.status = "needs_review", !.owner = None]]
    BY <1>6
  <2>3. /\ [ops[o] EXCEPT !.status = "needs_review", !.owner = None]
              \in [status : RowStatuses, owner : Workers \union {None}, fresh : BOOLEAN]
        /\ [ops[o] EXCEPT !.status = "needs_review", !.owner = None].owner = None
        /\ [ops[o] EXCEPT !.status = "needs_review", !.owner = None].status = "needs_review"
    BY <1>2, <1>3
  <2>4. worker' \in [Workers -> Places]
    BY <1>1, <2>1
  <2>5. TypeOK' /\ SharedOK' /\ Recorded /\ \A p \in Ops : Untouched(p)
    <3> HIDE DEF o
    <3>1. o \in Ops /\ (o \in Approvals => o \in Given)
      BY DEF o
    <3> QED
      BY <1>1, <2>2, <2>3, <2>4, <3>1, RowChanges
  <2> QED
    BY <2>1, <2>5, HandlerMoves DEF Alone
<1>7. ASSUME NEW q \in {"outcome", "surface"}, NEW result \in Answers, UNCHANGED ops,
             \/ worker' = [worker EXCEPT ![w] = [r EXCEPT !.pc = "surface", !.result = "uncertain"]]
             \/ worker' = [worker EXCEPT ![w] =
                   IF r.review = None THEN Idle
                   ELSE [r EXCEPT !.pc = "outcome", !.result = result]]
      PROVE  IInv'
  BY <1>3, <1>5, <1>7
<1> QED
  BY <1>3, <1>4, <1>6, <1>7 DEF ClaimTaskOperation

LEMMA SubmitStep ==
    ASSUME IInv, NEW w \in Workers, NEW k \in Keys, Submit(w, k)
    PROVE  IInv'
<1>1. k \in Ops /\ k \notin Approvals
  BY ConstantFacts DEF Ops
<1>2. Idle \in Places /\ Idle.review = None
  <2>1. "idle" \in PCs /\ 0 \in 0..2 /\ 0 \in 0..MaxApprovals + 1
    BY ConstantFacts DEF PCs
  <2> QED
    BY <2>1 DEF Idle, Places
<1>3. /\ [Idle EXCEPT !.op = k] \in Places /\ [Idle EXCEPT !.op = k].op = k
      /\ [Idle EXCEPT !.op = k].review = None
  BY <1>1, <1>2 DEF Places
<1>4. worker[w].pc \notin Running
  BY DEF Submit, Running, Executing
<1> QED
  BY <1>1, <1>3, <1>4, ClaimStep DEF Submit

LEMMA ClaimApprovedStep ==
    ASSUME IInv, NEW w \in Workers, ClaimApproved(w)
    PROVE  IInv'
<1>1. worker[w] \in Places /\ worker[w].pc = "claim" /\ RunOK(w) /\ ApprovalOK(w)
  BY DEF ClaimApproved, IInv, TypeOK, Places
<1> QED
  BY <1>1, ClaimStep DEF ClaimApproved, RunOK, ApprovalOK, Running, Executing

\* ownedTaskOperation holds: the row of a running operation is written.
LEMMA SettleStep ==
    ASSUME IInv, NEW w \in Workers, Settle(w)
    PROVE  IInv'
<1> DEFINE o == worker[w].op
<1>1. /\ worker[w].pc = "settle" /\ RunOK(w) /\ ApprovalOK(w)
      /\ worker \in [Workers -> Places] /\ faults' \in 0..MaxFaults
      /\ UNCHANGED <<plans, reviews, decisions, effects>>
  BY DEF Settle, IInv, TypeOK, Places
<1>2. o \in Ops /\ plans[o] # None /\ (o \in Approvals => o \in Given)
  BY <1>1 DEF RunOK
<1>3. {"plan", "uncertain"} \subseteq Answers /\ "completed" \in RowStatuses /\ "uncertain" \in PCs
  BY DEF Answers, RowStatuses, PCs
<1>4. \A n \in Given : n \in Given' /\ decisions'[n] = decisions[n]
  BY <1>1 DEF Given
<1>5. CASE Return(w, "uncertain", "uncertain") /\ UNCHANGED ops
  <2>1. Continues(w) /\ worker'[w].pc = "uncertain"
    BY <1>3, <1>5, ReturnFacts DEF IInv
  <2>2. RunOK(w)' /\ ApprovalOK(w)'
    BY <1>1, <1>5, <2>1 DEF RunOK, ApprovalOK, Continues, Running, Executing, Given
  <2> QED
    BY <1>1, <1>5, <2>1, <2>2, ControlStep DEF Continues, Running, Executing
<1>6. CASE Leave(w, "uncertain") /\ UNCHANGED ops
  <2>1. /\ worker' = [worker EXCEPT ![w] = worker'[w]]
        /\ worker'[w] \in Places /\ worker'[w].pc \in {"idle", "outcome"}
        /\ RunOK(w)' /\ ApprovalOK(w)'
    BY <1>1, <1>3, <1>4, <1>6, LeaveFacts
  <2> QED
    BY <1>1, <1>6, <2>1, ControlStep DEF Running, Executing
<1>7. CASE /\ ops' = [ops EXCEPT ![o] = [status |-> "completed", owner |-> None, fresh |-> FALSE]]
           /\ Leave(w, "plan")
  <2>1. /\ worker' = [worker EXCEPT ![w] = worker'[w]]
        /\ worker'[w] \in Places /\ worker'[w].pc \in {"idle", "outcome"}
        /\ RunOK(w)' /\ ApprovalOK(w)'
    BY <1>1, <1>3, <1>4, <1>7, LeaveFacts
  <2>2. worker' \in [Workers -> Places]
    BY <1>1, <2>1
  <2>3. TypeOK' /\ SharedOK' /\ Recorded /\ \A p \in Ops : Untouched(p)
    <3> HIDE DEF o
    <3> QED
      BY <1>1, <1>2, <1>3, <1>7, <2>2, RowChanges
  <2> QED
    BY <2>1, <2>3, HandlerMoves DEF Alone, Running, Executing
<1> QED
  BY <1>5, <1>6, <1>7 DEF Settle

LEMMA MarkStep ==
    ASSUME IInv, NEW w \in Workers, MarkTaskOperationNeedsReview(w)
    PROVE  IInv'
<1> DEFINE o == worker[w].op
<1>1. /\ worker[w].pc = "uncertain" /\ RunOK(w) /\ ApprovalOK(w)
      /\ worker \in [Workers -> Places] /\ faults' \in 0..MaxFaults
      /\ UNCHANGED <<plans, reviews, decisions, effects>>
  BY DEF MarkTaskOperationNeedsReview, IInv, TypeOK, Places
<1>2. o \in Ops /\ (o \in Approvals => o \in Given)
  BY <1>1 DEF RunOK
<1>3. \A n \in Given : n \in Given' /\ decisions'[n] = decisions[n]
  BY <1>1 DEF Given
<1>4. CASE Leave(w, worker[w].result) /\ UNCHANGED ops
  <2>1. /\ worker' = [worker EXCEPT ![w] = worker'[w]]
        /\ worker'[w] \in Places /\ worker'[w].pc \in {"idle", "outcome"}
        /\ RunOK(w)' /\ ApprovalOK(w)'
    <3>1. worker[w].result \in Answers \union Verdicts \union {"completed", "needs_review", None}
      BY <1>1 DEF Places
    <3> QED
      BY <1>1, <1>3, <1>4, <3>1, LeaveFacts
  <2> QED
    BY <1>1, <1>4, <2>1, ControlStep DEF Running, Executing
<1>5. CASE /\ ops' = [ops EXCEPT ![o] = [status |-> "needs_review", owner |-> None, fresh |-> FALSE]]
           /\ Goto(w, "surface")
  <2>1. "surface" \in PCs /\ "needs_review" \in RowStatuses
    BY DEF PCs, RowStatuses
  <2>2. Continues(w) /\ worker'[w].pc = "surface"
    BY <1>5, <2>1, GotoFacts DEF IInv
  <2>3. worker' \in [Workers -> Places]
    BY <1>1, <2>2 DEF Continues
  <2>4. RunOK(w)' /\ ApprovalOK(w)'
    BY <1>1, <2>2 DEF RunOK, ApprovalOK, Continues, Running, Executing, Given
  <2>5. TypeOK' /\ SharedOK' /\ Recorded /\ \A p \in Ops : Untouched(p)
    <3> HIDE DEF o
    <3> QED
      BY <1>1, <1>2, <1>5, <2>1, <2>3, RowChanges
  <2> QED
    BY <2>2, <2>4, <2>5, HandlerMoves DEF Alone, Continues, Running, Executing
<1> QED
  BY <1>4, <1>5 DEF MarkTaskOperationNeedsReview

-----------------------------------------------------------------------------
(* Steps that change effects and plans. *)

LEMMA RunToolStep ==
    ASSUME IInv, NEW w \in Workers, RunTool(w)
    PROVE  IInv'
<1> DEFINE o == worker[w].op
<1>1. /\ worker[w].pc = "tool" /\ RunOK(w) /\ ApprovalOK(w) /\ worker \in [Workers -> Places]
      /\ UNCHANGED <<ops, plans, reviews, decisions, faults>>
  BY DEF RunTool, IInv, TypeOK, Places
<1>2. /\ o \in Ops /\ effects[o] = 0 /\ ops[o].status # None /\ plans[o] = None
      /\ reviews[<<"plan", o>>] = NoReview
  BY <1>1 DEF RunOK, Running, Executing
<1>3. /\ Continues(w)
      /\ \/ worker'[w].pc \in {"attach", "log"} /\ worker'[w].result \in Verdicts
         \/ worker'[w].pc = "attempt" /\ worker'[w].attempt = 2
  BY VerdictFacts DEF RunTool, IInv
<1>4. effects' \in [Ops -> Nat] /\ effects'[o] \in {0, 1} /\ \A p \in Ops \ {o} : effects'[p] = effects[p]
  <2>1. effects \in [Ops -> Nat]
    BY DEF IInv, TypeOK
  <2>2. effects' = effects \/ effects' = [effects EXCEPT ![o] = 1]
    BY <1>2, <2>1 DEF RunTool
  <2> HIDE DEF o
  <2> QED
    BY <1>2, <2>1, <2>2
<1>5. worker' \in [Workers -> Places]
  BY <1>1, <1>3 DEF Continues
<1>6. TypeOK'
  BY <1>1, <1>4, <1>5 DEF IInv, TypeOK, Places
<1>7. \A p \in Ops : RowOK(p)'
  BY <1>1, <1>2, <1>4 DEF IInv, SharedOK, RowOK, Given
<1>8. SharedOK'
  BY <1>1, <1>7 DEF IInv, SharedOK, ReviewOK, GivenOK, Given, Proven, Open, Approved
<1>9. Recorded /\ Alone(w)
  BY <1>1, <1>4 DEF Recorded, Alone, Untouched, Given, Running, Executing
<1>10. RunOK(w)'
  BY <1>1, <1>2, <1>3 DEF RunOK, Continues, Running, Executing, Given
<1>11. ApprovalOK(w)'
  BY <1>1, <1>3 DEF ApprovalOK, Continues, Given
<1> QED
  BY <1>1, <1>3, <1>6, <1>8, <1>9, <1>10, <1>11, HandlerMoves DEF Continues, Running, Executing

LEMMA AppendStep ==
    ASSUME IInv, NEW w \in Workers, AppendCompletionPlan(w)
    PROVE  IInv'
<1> DEFINE o == worker[w].op
<1>1. /\ worker[w].pc = "log" /\ RunOK(w) /\ ApprovalOK(w) /\ worker \in [Workers -> Places]
      /\ UNCHANGED <<ops, reviews, decisions, effects, faults>>
      /\ plans' = [plans EXCEPT ![o] = worker[w].result]
  BY DEF AppendCompletionPlan, IInv, TypeOK, Places
<1>2. /\ o \in Ops /\ ops[o].status # None /\ plans[o] = None /\ worker[w].result \in Verdicts
      /\ None \notin Verdicts
  BY <1>1, ConstantFacts DEF RunOK, Running, Executing
<1>3. Continues(w) /\ worker'[w].pc = "settle"
  <2>1. "settle" \in PCs
    BY DEF PCs
  <2> QED
    BY <2>1, GotoFacts DEF AppendCompletionPlan, IInv
<1>4. /\ plans' \in [Ops -> Verdicts \union {None}] /\ plans'[o] # None
      /\ \A p \in Ops \ {o} : plans'[p] = plans[p]
  <2>1. plans \in [Ops -> Verdicts \union {None}]
    BY DEF IInv, TypeOK
  <2> HIDE DEF o
  <2> QED
    BY <1>1, <1>2, <2>1
<1>5. worker' \in [Workers -> Places]
  BY <1>1, <1>3 DEF Continues
<1>6. TypeOK'
  BY <1>1, <1>4, <1>5 DEF IInv, TypeOK, Places
<1>7. Recorded /\ Alone(w)
  BY <1>1, <1>2, <1>4 DEF Recorded, Alone, Untouched, Given, Running, Executing
<1>8. \A p \in Ops : RowOK(p)'
  BY <1>1, <1>2, <1>4 DEF IInv, SharedOK, RowOK, Given
<1>9. \A v \in Reviews : ReviewOK(v)'
  BY <1>1, <1>7, ProvenStays DEF IInv, SharedOK, ReviewOK, Given, Open, Approved
<1>10. SharedOK'
  BY <1>1, <1>8, <1>9 DEF IInv, SharedOK, GivenOK, Given
<1>11. RunOK(w)' /\ ApprovalOK(w)'
  BY <1>1, <1>2, <1>3, <1>4 DEF RunOK, ApprovalOK, Continues, Running, Executing, Given
<1> QED
  BY <1>1, <1>3, <1>6, <1>7, <1>10, <1>11, HandlerMoves DEF Continues, Running, Executing

-----------------------------------------------------------------------------
(* Steps that change a review. *)

\* A review that was not there has no approvals.
LEMMA NewReview ==
    ASSUME IInv, NEW v \in Reviews, reviews[v] = NoReview, NEW n \in Given, decisions[n][1] = v
    PROVE  FALSE
<1>1. decisions[n] \in Reviews \X (1..MaxApprovals)
  BY DEF IInv, TypeOK, Given
<1>2. decisions[n][2] <= reviews[v].rev /\ reviews[v].rev = 0
  BY DEF IInv, SharedOK, ReviewOK, NoReview
<1> QED
  BY <1>1, <1>2, ConstantFacts

LEMMA ReviewChanges ==
    ASSUME IInv, NEW v \in Reviews, NEW r, reviews' = [reviews EXCEPT ![v] = r],
           r \in [status : ReviewStatuses, rev : 0..MaxApprovals + 1], ReviewOK(v)',
           reviews[v] = NoReview => \A p \in Ops : v = <<"plan", p>> => ops[p].status # None,
           UNCHANGED <<ops, plans, decisions, effects>>,
           worker' \in [Workers -> Places], faults' \in 0..MaxFaults
    PROVE  /\ TypeOK' /\ SharedOK' /\ Recorded
           /\ \A p \in Ops : reviews[v] # NoReview \/ v # <<"plan", p>> => Untouched(p)
<1>1. reviews'[v] = r /\ \A u \in Reviews \ {v} : reviews'[u] = reviews[u]
  BY DEF IInv, TypeOK
<1>2. reviews' \in [Reviews -> [status : ReviewStatuses \union {None}, rev : 0..MaxApprovals + 1]]
  BY DEF IInv, TypeOK
<1>3. TypeOK'
  BY <1>2 DEF IInv, TypeOK, Places
<1>4. \A p \in Ops : <<"plan", p>> \in Reviews
  BY DEF Reviews
<1>5. \A p \in Ops : RowOK(p)'
  BY <1>1, <1>4 DEF IInv, SharedOK, RowOK, Given
<1>6. \A u \in Reviews : ReviewOK(u)'
  BY <1>1 DEF IInv, SharedOK, ReviewOK, Given, Proven, Open, Approved
<1>7. SharedOK'
  BY <1>5, <1>6 DEF IInv, SharedOK, GivenOK, Given
<1>8. Recorded
  BY DEF Recorded, Given
<1> QED
  BY <1>1, <1>3, <1>4, <1>7, <1>8 DEF Untouched

\* A review that is created is open.
LEMMA CreatedFacts ==
    ASSUME IInv, NEW v \in Reviews, reviews[v] = NoReview, NEW s \in {"open", "needs_review"},
           reviews' = [reviews EXCEPT ![v] = [status |-> s, rev |-> 1]], UNCHANGED decisions
    PROVE  /\ [status |-> s, rev |-> 1] \in [status : ReviewStatuses, rev : 0..MaxApprovals + 1]
           /\ ReviewOK(v)'
<1>1. reviews'[v] = [status |-> s, rev |-> 1]
  BY DEF IInv, TypeOK
<1>2. s \in ReviewStatuses /\ None \notin ReviewStatuses /\ 1 \in 0..MaxApprovals + 1
  BY ConstantFacts DEF ReviewStatuses
<1>3. \A n \in Given : decisions[n][1] # v
  BY NewReview
<1>4. ReviewOK(v)'
  BY <1>1, <1>2, <1>3 DEF ReviewOK, Given, Open, Approved
<1> QED
  BY <1>2, <1>4

LEMMA AttachStep ==
    ASSUME IInv, NEW w \in Workers, AttachReviewItem(w)
    PROVE  IInv'
<1> DEFINE o == worker[w].op
<1>1. /\ worker[w].pc = "attach" /\ RunOK(w) /\ ApprovalOK(w) /\ worker \in [Workers -> Places]
      /\ UNCHANGED <<ops, plans, decisions, effects, faults>> /\ faults' \in 0..MaxFaults
  BY DEF AttachReviewItem, IInv, TypeOK, Places
<1>2. /\ o \in Ops /\ ops[o].status # None /\ reviews[<<"plan", o>>] = NoReview
      /\ <<"plan", o>> \in Reviews
  BY <1>1 DEF RunOK, Running, Executing, Reviews
<1> PICK v \in Reviews : v = <<"plan", o>>
  BY <1>2
<1>3. Continues(w) /\ worker'[w].pc = "log" /\ worker'[w].result = worker[w].result
  <2>1. "log" \in PCs
    BY DEF PCs, Executing
  <2> QED
    BY <2>1, GotoFacts DEF AttachReviewItem, IInv
<1>4. RunOK(w)' /\ ApprovalOK(w)'
  BY <1>1, <1>3 DEF RunOK, ApprovalOK, Continues, Running, Executing, Given
<1>5. CASE UNCHANGED reviews
  BY <1>1, <1>3, <1>4, <1>5, ControlStep DEF Continues, Running, Executing
<1>6. CASE reviews' = [reviews EXCEPT ![v] = [status |-> "open", rev |-> 1]]
  <2>1. worker' \in [Workers -> Places]
    BY <1>1, <1>3 DEF Continues
  <2>2. /\ [status |-> "open", rev |-> 1] \in [status : ReviewStatuses, rev : 0..MaxApprovals + 1]
        /\ ReviewOK(v)'
    <3> QED
      BY <1>1, <1>2, <1>6, CreatedFacts
  <2>3. \A p \in Ops : v = <<"plan", p>> => p = o
    OBVIOUS
  <2>4. /\ TypeOK' /\ SharedOK' /\ Recorded
        /\ \A p \in Ops : p # o => Untouched(p)
    <3> HIDE DEF o
    <3> QED
      BY <1>1, <1>2, <1>6, <2>1, <2>2, <2>3, ReviewChanges
  <2>5. Alone(w)
    BY <1>1, <2>4 DEF Alone, Running, Executing
  <2> QED
    BY <1>1, <1>3, <1>4, <2>4, <2>5, HandlerMoves DEF Continues, Running, Executing
<1> QED
  BY <1>5, <1>6 DEF AttachReviewItem

LEMMA EnsureReviewStep ==
    ASSUME IInv, NEW w \in Workers, EnsureReview(w)
    PROVE  IInv'
<1>1. /\ worker[w].pc = "surface" /\ RunOK(w) /\ ApprovalOK(w) /\ worker \in [Workers -> Places]
      /\ UNCHANGED <<ops, plans, decisions, effects, faults>> /\ faults' \in 0..MaxFaults
  BY DEF EnsureReview, IInv, TypeOK, Places
<1>2. PICK v \in Reviews : v = <<"operation", worker[w].op>>
  BY <1>1 DEF RunOK, Reviews
<1>3. \E result \in Answers \union Verdicts \union {"completed", "needs_review", None} :
         Leave(w, result)
  <2>1. worker[w].result \in Answers \union Verdicts \union {"completed", "needs_review", None}
    BY <1>1 DEF Places
  <2>2. "error" \in Answers
    BY DEF Answers
  <2> QED
    BY <2>1, <2>2 DEF EnsureReview
<1>4. /\ worker' = [worker EXCEPT ![w] = worker'[w]]
      /\ worker'[w] \in Places /\ worker'[w].pc \in {"idle", "outcome"}
      /\ RunOK(w)' /\ ApprovalOK(w)'
  BY <1>1, <1>3, LeaveFacts DEF Given
<1>5. CASE UNCHANGED reviews
  BY <1>1, <1>4, <1>5, ControlStep DEF Running, Executing
<1>6. CASE /\ reviews[v] = NoReview
           /\ reviews' = [reviews EXCEPT ![v] = [status |-> "needs_review", rev |-> 1]]
  <2>1. worker' \in [Workers -> Places]
    BY <1>1, <1>4
  <2>2. /\ [status |-> "needs_review", rev |-> 1]
              \in [status : ReviewStatuses, rev : 0..MaxApprovals + 1]
        /\ ReviewOK(v)'
    <3> QED
      BY <1>1, <1>2, <1>6, CreatedFacts
  <2>3. \A p \in Ops : v # <<"plan", p>>
    BY <1>2
  <2>4. TypeOK' /\ SharedOK' /\ Recorded /\ \A p \in Ops : Untouched(p)
    <3> QED
      BY <1>1, <1>2, <1>6, <2>1, <2>2, <2>3, ReviewChanges
  <2> QED
    BY <1>4, <2>4, HandlerMoves DEF Alone, Running, Executing
<1> QED
  BY <1>2, <1>5, <1>6 DEF EnsureReview

LEMMA RejectStep ==
    ASSUME IInv, NEW v \in Reviews, Reject(v)
    PROVE  IInv'
<1>1. /\ Open(v) /\ reviews' = [reviews EXCEPT ![v].status = "rejected"]
      /\ UNCHANGED <<ops, plans, decisions, worker, effects, faults>>
      /\ reviews[v] \in [status : ReviewStatuses \union {None}, rev : 0..MaxApprovals + 1]
      /\ ReviewOK(v) /\ worker' \in [Workers -> Places] /\ faults' \in 0..MaxFaults
  BY DEF Reject, IInv, TypeOK, SharedOK, Places
<1> DEFINE r == [status |-> "rejected", rev |-> reviews[v].rev]
<1>2. reviews' = [reviews EXCEPT ![v] = r] /\ reviews'[v] = r
  <2>1. [reviews[v] EXCEPT !.status = "rejected"] = r
    BY <1>1
  <2>2. reviews' = [reviews EXCEPT ![v] = [reviews[v] EXCEPT !.status = "rejected"]]
    BY <1>1
  <2> HIDE DEF r
  <2> QED
    BY <2>1, <2>2 DEF IInv, TypeOK
<1>3. "rejected" \in ReviewStatuses /\ None \notin ReviewStatuses
  BY ConstantFacts DEF ReviewStatuses
<1>4. r \in [status : ReviewStatuses, rev : 0..MaxApprovals + 1]
  BY <1>1, <1>3
<1>5. reviews[v].status # None /\ reviews[v] # NoReview
  BY <1>1, ConstantFacts DEF Open, NoReview, ReviewStatuses
<1>6. ReviewOK(v)'
  BY <1>1, <1>2, <1>3, <1>5 DEF ReviewOK, Given, Open, Approved
<1>7. TypeOK' /\ SharedOK' /\ Recorded /\ \A p \in Ops : Untouched(p)
  <2> HIDE DEF r
  <2> QED
    BY <1>1, <1>2, <1>4, <1>5, <1>6, ReviewChanges
<1> QED
  BY <1>1, <1>7, NobodyMoves

\* MarkReviewOutcome changes nothing but an approved review, and completes it on
\* proof only.
LEMMA OutcomeFacts ==
    ASSUME IInv, NEW v \in Reviews, NEW status \in {"completed", "needs_review"},
           status = "completed" => Proven(v), Outcome(v, status) \/ UNCHANGED reviews,
           UNCHANGED <<ops, plans, decisions, effects>>,
           worker' \in [Workers -> Places], faults' \in 0..MaxFaults
    PROVE  TypeOK' /\ SharedOK' /\ Recorded /\ \A p \in Ops : Untouched(p)
<1>1. CASE UNCHANGED reviews
  <2>1. TypeOK'
    BY <1>1 DEF IInv, TypeOK, Places
  <2>2. SharedOK'
    BY <1>1 DEF IInv, SharedOK, RowOK, ReviewOK, GivenOK, Given, Proven, Open, Approved
  <2> QED
    BY <1>1, <2>1, <2>2 DEF Recorded, Untouched, Given
<1>2. CASE /\ Approved(v)
           /\ reviews' = [reviews EXCEPT ![v] = [status |-> status,
                    rev |-> IF status = "completed" THEN @.rev ELSE @.rev + 1]]
  <2> DEFINE n == reviews[v].rev
             m == IF status = "completed" THEN n ELSE n + 1
             r == [status |-> status, rev |-> m]
  <2>1. ReviewOK(v) /\ reviews[v].status = "approved" /\ n \in 0..MaxApprovals + 1
    BY <1>2 DEF IInv, SharedOK, Approved, TypeOK
  <2>2. n \in Given /\ n \in 1..MaxApprovals
    BY <1>2, <2>1 DEF ReviewOK, Given, Approvals
  <2>3. reviews' = [reviews EXCEPT ![v] = r] /\ reviews'[v] = r
    BY <1>2 DEF IInv, TypeOK
  <2>4. m \in 1..MaxApprovals + 1 /\ (m > 1 => m - 1 \in Given) /\ n <= m
        /\ (status # "completed" => n < m)
    <3>1. n \in Nat /\ n >= 1 /\ n <= MaxApprovals /\ MaxApprovals \in Nat
      BY <2>2, ConstantFacts
    <3>2. n > 1 => n - 1 \in Given
      BY <2>1 DEF ReviewOK
    <3> QED
      BY <2>2, <3>1, <3>2
  <2>5. status \in ReviewStatuses /\ None \notin ReviewStatuses
    BY ConstantFacts DEF ReviewStatuses
  <2>6. r \in [status : ReviewStatuses, rev : 0..MaxApprovals + 1]
    <3>1. m \in 0..MaxApprovals + 1
      BY <2>4, ConstantFacts
    <3> QED
      BY <2>5, <3>1
  <2>7. \A k \in Given : decisions[k][1] = v => decisions[k][2] <= n /\ decisions[k][2] \in Nat
    <3>1. \A k \in Given : decisions[k] \in Reviews \X (1..MaxApprovals)
      BY DEF IInv, TypeOK, Given
    <3> QED
      BY <2>1, <3>1, ConstantFacts DEF ReviewOK
  <2>8. ReviewOK(v)'
    <3>1. Proven(v)' <=> Proven(v)
      BY DEF Proven, Given
    <3>2. reviews'[v].status = status /\ reviews'[v].rev = m
      BY <2>3
    <3>3. n \in Nat /\ m \in Nat /\ m # 0
      BY <2>2, <2>4, ConstantFacts
    <3> HIDE DEF n, m, r
    <3>4. \A k \in Given : decisions[k][1] = v =>
             decisions[k][2] <= m /\ (status # "completed" => decisions[k][2] < m)
      BY <2>4, <2>7, <3>3
    <3> QED
      BY <2>4, <2>5, <3>1, <3>2, <3>3, <3>4 DEF ReviewOK, Given, Open, Approved
  <2>9. reviews[v] # NoReview
    BY <2>1, <2>5, ConstantFacts DEF NoReview, ReviewStatuses
  <2> HIDE DEF r
  <2> QED
    BY <2>3, <2>6, <2>8, <2>9, ReviewChanges
<1> QED
  BY <1>1, <1>2 DEF Outcome

LEMMA OutcomeStep ==
    ASSUME IInv, NEW w \in Workers, MarkReviewOutcome(w) \/ Reconcile(w)
    PROVE  IInv'
<1>1. /\ RunOK(w) /\ ApprovalOK(w) /\ worker[w] \in Places
      /\ worker' = [worker EXCEPT ![w] = Idle] /\ faults' \in 0..MaxFaults
      /\ UNCHANGED <<ops, plans, decisions, effects>>
      /\ worker[w].pc \in {"outcome", "reconcile"}
  BY DEF MarkReviewOutcome, Reconcile, IInv, TypeOK, Places
<1>2. PICK v \in Reviews : v = worker[w].review
  BY <1>1 DEF ApprovalOK, Places
<1>3. PICK status \in {"completed", "needs_review"} :
         /\ status = "completed" => Proven(v)
         /\ Outcome(v, status) \/ UNCHANGED reviews
  <2>1. CASE MarkReviewOutcome(w)
    <3>1. /\ worker[w].op \in Given
          /\ decisions[worker[w].op] = <<v, worker[w].rev>>
      BY <1>1, <1>2, <2>1, ConstantFacts DEF MarkReviewOutcome, ApprovalOK
    <3>2. plans[worker[w].op] = "validated" => Proven(v)
      BY <3>1 DEF Proven
    <3> QED
      BY <1>2, <2>1, <3>2 DEF MarkReviewOutcome
  <2>2. CASE Reconcile(w)
    BY <1>1, <1>2, <2>2 DEF Reconcile, ApprovalOK
  <2> QED
    BY <2>1, <2>2
<1>4. /\ worker' = [worker EXCEPT ![w] = worker'[w]]
      /\ worker'[w] \in Places /\ worker'[w].pc = "idle"
      /\ RunOK(w)' /\ ApprovalOK(w)'
  BY <1>1, IdleFacts DEF IInv
<1>5. worker' \in [Workers -> Places]
  BY <1>4 DEF IInv, TypeOK, Places
<1>6. TypeOK' /\ SharedOK' /\ Recorded /\ \A p \in Ops : Untouched(p)
  BY <1>1, <1>3, <1>5, OutcomeFacts
<1> QED
  BY <1>4, <1>6, HandlerMoves DEF Alone, Running, Executing

LEMMA ApproveStep ==
    ASSUME IInv, NEW w \in Workers, NEW v \in Reviews, NEW n \in Approvals, Approve(w, v, n)
    PROVE  IInv'
<1> DEFINE k == reviews[v].rev
<1>1. /\ worker[w].pc = "idle" /\ Open(v) /\ n = Cardinality(Given) + 1
      /\ UNCHANGED <<ops, plans, effects, faults>>
      /\ reviews' = [reviews EXCEPT ![v].status = "approved"]
      /\ decisions' = [decisions EXCEPT ![n] = <<v, k>>]
      /\ worker' = [worker EXCEPT ![w] = [Idle EXCEPT !.pc = "claim", !.op = n,
                                          !.review = v, !.rev = k]]
  BY DEF Approve
<1>2. n \notin Given /\ \A m \in Approvals : m < n <=> m \in Given
  BY <1>1, NextApproval DEF IInv, SharedOK, GivenOK
<1>3. ReviewOK(v) /\ reviews[v] \in [status : ReviewStatuses \union {None}, rev : 0..MaxApprovals + 1]
  BY DEF IInv, SharedOK, TypeOK
<1>4. reviews[v].status # None /\ k \in Nat /\ k # 0
  BY <1>1, <1>3, ConstantFacts DEF Open, ReviewOK, ReviewStatuses
<1>5. k \in 1..MaxApprovals /\ k <= n
  <2>1. n \in Nat /\ n >= 1 /\ n <= MaxApprovals /\ MaxApprovals \in Nat
    BY ConstantFacts DEF Approvals
  <2>2. CASE k = 1
    BY <2>1, <2>2
  <2>3. CASE k # 1
    <3>1. k - 1 \in Given /\ k - 1 \in Approvals
      BY <1>3, <1>4, <2>3 DEF ReviewOK, Given
    <3>2. k - 1 < n
      BY <1>2, <3>1
    <3> QED
      BY <1>4, <2>1, <3>2
  <2> QED
    BY <2>2, <2>3
<1>6. None # <<v, k>>
  BY <1>5, ConstantFacts DEF Approvals
<1>7. /\ decisions' \in [Approvals -> (Reviews \X (1..MaxApprovals)) \union {None}]
      /\ decisions'[n] = <<v, k>> /\ \A m \in Approvals \ {n} : decisions'[m] = decisions[m]
  <2>1. decisions \in [Approvals -> (Reviews \X (1..MaxApprovals)) \union {None}]
    BY DEF IInv, TypeOK
  <2>2. <<v, k>> \in Reviews \X (1..MaxApprovals)
    BY <1>5
  <2> HIDE DEF k
  <2> QED
    BY <1>1, <2>1, <2>2
<1>8. Given' = Given \union {n}
  BY <1>6, <1>7 DEF Given
<1>9. reviews'[v] = [status |-> "approved", rev |-> k] /\ \A u \in Reviews \ {v} : reviews'[u] = reviews[u]
  <2>1. [reviews[v] EXCEPT !.status = "approved"] = [status |-> "approved", rev |-> k]
    BY <1>3
  <2>2. reviews' = [reviews EXCEPT ![v] = [reviews[v] EXCEPT !.status = "approved"]]
    BY <1>1
  <2> HIDE DEF k
  <2> QED
    BY <2>1, <2>2 DEF IInv, TypeOK
<1>10. worker'[w] = [pc |-> "claim", op |-> n, review |-> v, rev |-> k, attempt |-> 0,
                     lost |-> FALSE, result |-> None]
  BY <1>1 DEF Idle, IInv, TypeOK
<1>11. worker' = [worker EXCEPT ![w] = worker'[w]]
  BY <1>1, <1>10 DEF IInv, TypeOK
<1>12. worker'[w] \in Places /\ worker' \in [Workers -> Places]
  <2>1. "claim" \in PCs /\ 0 \in 0..2 /\ k \in 0..MaxApprovals + 1 /\ n \in Ops
    BY <1>5, ConstantFacts DEF PCs, Ops
  <2> HIDE DEF k
  <2>2. worker'[w] \in Places
    BY <1>10, <2>1 DEF Places
  <2> QED
    BY <1>11, <2>2 DEF IInv, TypeOK, Places
<1>13. TypeOK'
  <2>1. [status |-> "approved", rev |-> k] \in [status : ReviewStatuses \union {None},
                                                rev : 0..MaxApprovals + 1]
    BY <1>3 DEF ReviewStatuses
  <2>2. reviews' \in [Reviews -> [status : ReviewStatuses \union {None}, rev : 0..MaxApprovals + 1]]
    <3>1. \E x : reviews' = [reviews EXCEPT ![v] = x]
      BY <1>1
    <3> HIDE DEF k
    <3> QED
      BY <1>9, <2>1, <3>1 DEF IInv, TypeOK
  <2> QED
    BY <1>1, <1>7, <1>12, <2>2 DEF IInv, TypeOK, Places
<1>14. Recorded
  BY <1>1, <1>2, <1>7, <1>8 DEF Recorded, Given
<1>15. \A p \in Ops : RowOK(p)'
  <2>1. reviews[v] # NoReview
    BY <1>4 DEF NoReview
  <2>2. \A p \in Ops : <<"plan", p>> \in Reviews
    BY DEF Reviews
  <2> QED
    BY <1>1, <1>8, <1>9, <2>1, <2>2 DEF IInv, SharedOK, RowOK
<1>16. \A p \in Ops : Untouched(p)
  <2>1. reviews[v] # NoReview
    BY <1>4 DEF NoReview
  <2>2. \A p \in Ops : <<"plan", p>> \in Reviews
    BY DEF Reviews
  <2> QED
    BY <1>1, <1>9, <2>1, <2>2 DEF Untouched
<1>17. \A m \in Given : m # n /\ decisions'[m] = decisions[m]
  BY <1>2, <1>14 DEF Recorded
<1>18. ReviewOK(v)'
  <2>1. \A m \in Given' : decisions'[m][1] = v => decisions'[m][2] <= k
    BY <1>3, <1>4, <1>7, <1>8, <1>17 DEF ReviewOK
  <2>2. k \in Given' /\ (k > 1 => k - 1 \in Given')
    <3>1. k \in Approvals /\ (k < n => k \in Given)
      BY <1>2, <1>5 DEF Approvals
    <3>2. k < n \/ k = n
      BY <1>4, <1>5 DEF Approvals
    <3> QED
      BY <1>3, <1>8, <3>1, <3>2 DEF ReviewOK
  <2> HIDE DEF k
  <2> QED
    BY <1>4, <1>9, <2>1, <2>2, ConstantFacts DEF ReviewOK, Open, Approved, ReviewStatuses
<1>19. ASSUME NEW u \in Reviews \ {v}
       PROVE  ReviewOK(u)'
  <2>1. ReviewOK(u) /\ reviews'[u] = reviews[u]
    BY <1>9 DEF IInv, SharedOK
  <2>2. reviews[u].status = "completed" => Proven(u)'
    BY <1>14, <2>1, ProvenStays DEF ReviewOK
  <2>3. \A m \in Given' : decisions'[m][1] = u => m \in Given /\ decisions'[m] = decisions[m]
    BY <1>7, <1>8, <1>17
  <2> QED
    BY <1>8, <2>1, <2>2, <2>3 DEF ReviewOK, Open, Approved
<1>20. GivenOK'
  <2>1. \A m \in Given' : \A j \in Approvals : j < m => j \in Given'
    BY <1>2, <1>8 DEF IInv, SharedOK, GivenOK
  <2>2. \A m \in Given : decisions[m] # <<v, k>>
    <3> SUFFICES ASSUME NEW m \in Given, decisions[m] = <<v, k>>
                 PROVE  FALSE
      OBVIOUS
    <3>1. decisions[m][1] = v /\ decisions[m][2] = k
      OBVIOUS
    <3> QED
      BY <1>1, <1>3, <1>4, <3>1 DEF ReviewOK
  <2>3. \A m, j \in Given' : decisions'[m] = decisions'[j] => m = j
    BY <1>7, <1>8, <1>17, <2>2 DEF IInv, SharedOK, GivenOK
  <2> QED
    BY <2>1, <2>3 DEF GivenOK
<1>21. SharedOK'
  BY <1>15, <1>18, <1>19, <1>20 DEF SharedOK
<1>22. RunOK(w)' /\ ApprovalOK(w)'
  <2>1. n \in Ops /\ n \in Given'
    BY <1>8 DEF Ops
  <2>2. /\ worker'[w].pc = "claim" /\ worker'[w].op = n /\ worker'[w].review = v
        /\ worker'[w].rev = k
    BY <1>10
  <2>3. v # None
    BY ConstantFacts
  <2> HIDE DEF k
  <2> QED
    BY <1>7, <2>1, <2>2, <2>3 DEF RunOK, ApprovalOK, Running, Executing
<1>23. worker'[w].pc \notin Running
  BY <1>10 DEF Running, Executing
<1> QED
  BY <1>11, <1>13, <1>14, <1>16, <1>21, <1>22, <1>23, HandlerMoves DEF Alone

-----------------------------------------------------------------------------
LEMMA InitInv == Init => IInv
<1> SUFFICES ASSUME Init
             PROVE  IInv
  OBVIOUS
<1>1. Idle \in Places
  BY ConstantFacts DEF Idle, Places, PCs
<1>2. TypeOK
  BY <1>1, ConstantFacts DEF Init, TypeOK, NoOp, NoReview, Places, RowStatuses
<1>3. Given = {}
  BY DEF Init, Given
<1>4. \A p \in Ops : <<"plan", p>> \in Reviews
  BY DEF Reviews
<1>5. SharedOK
  BY <1>3, <1>4, ConstantFacts
     DEF Init, SharedOK, RowOK, ReviewOK, GivenOK, NoOp, NoReview, Open, Approved,
         RowStatuses, ReviewStatuses
<1>6. \A w \in Workers : worker[w].pc = "idle" /\ worker[w].op = None /\ worker[w].review = None
  BY DEF Init, Idle
<1>7. \A w \in Workers : RunOK(w) /\ ApprovalOK(w)
  BY <1>6, ConstantFacts DEF RunOK, ApprovalOK, Running, Executing, Ops
<1>8. Exclusive
  BY <1>6 DEF Exclusive, Running, Executing
<1> QED
  BY <1>2, <1>5, <1>7, <1>8 DEF IInv

LEMMA StepInduction == IInv /\ [Next]_vars => IInv'
<1> SUFFICES ASSUME IInv, [Next]_vars
             PROVE  IInv'
  OBVIOUS
<1>1. CASE UNCHANGED vars
  BY <1>1 DEF vars, IInv, TypeOK, SharedOK, RowOK, ReviewOK, GivenOK, Given, Proven, Open,
     Approved, RunOK, ApprovalOK, Exclusive
<1>2. CASE Next
  <2>1. ASSUME NEW w \in Workers, Step(w) \/ Fails(w) \/ HeartbeatTaskOperation(w)
        PROVE  IInv'
    BY <2>1, ClaimApprovedStep, AttemptStep, RunToolStep, AttachStep, AppendStep, SettleStep,
       MarkStep, EnsureReviewStep, OutcomeStep, GivesUpStep, ReviewFailsStep, EndsStep,
       HeartbeatStep DEF Step, Fails
  <2> QED
    BY <1>2, <2>1, SubmitStep, ListApprovedStep, ApproveStep, RejectStep, LeaseExpiresStep
       DEF Next
<1> QED
  BY <1>1, <1>2

\* The inductive invariant holds in every reachable state.
THEOREM Invariance == Spec => []IInv
<1> QED
  BY InitInv, StepInduction, PTL DEF Spec

\* The rows, reviews, decisions and handlers keep their types, and a row has an
\* owner exactly while it runs.
THEOREM TypeCorrect == Spec => []TypeOK
<1>1. IInv => TypeOK
  BY DEF IInv
<1> QED
  BY <1>1, Invariance, PTL

\* Whatever is repeated, given up or dies, the controlled tool completes once at
\* most for an operation, and no two runs rest on one approval (ClaimTaskOperation,
\* executeAllowedSteps, ResolveReviewItem).
THEOREM EffectsHappenOnce == Spec => []OneEffectPerRequest
<1>1. IInv => OneEffectPerRequest
  <2> SUFFICES ASSUME IInv
               PROVE  OneEffectPerRequest
    OBVIOUS
  <2>1. \A o \in Ops : RowOK(o) /\ effects[o] \in {0, 1}
    BY DEF IInv, SharedOK, RowOK
  <2>2. \A n \in Approvals : n \in Ops /\ (effects[n] # 0 => n \in Given)
    BY <2>1 DEF RowOK, Ops
  <2> QED
    BY <2>1, <2>2 DEF IInv, SharedOK, GivenOK, OneEffectPerRequest, Given
<1> QED
  BY <1>1, Invariance, PTL

\* A completed operation has its plan, and a completed review a validated plan of
\* a run approved from it, whoever closed it (CompleteTaskOperation,
\* MarkReviewOutcome, ReconcileApprovedReviewsForOwner).
THEOREM CompletionsAreProven == Spec => []CompletedIsProven
<1>1. IInv => CompletedIsProven
  BY DEF IInv, SharedOK, RowOK, ReviewOK, Proven, CompletedIsProven
<1> QED
  BY <1>1, Invariance, PTL

\* Neither a late worker nor a repeated request changes a settled row.
LEMMA RowsStaySettled ==
    ASSUME IInv, [Next]_vars, NEW o \in Ops, ops[o].status \in {"completed", "needs_review"}
    PROVE  ops'[o].status = ops[o].status
<1>1. ASSUME NEW w \in Workers, NEW r \in Places, r.op \in Ops, ClaimTaskOperation(w, r)
      PROVE  ops'[o].status = ops[o].status
  BY <1>1, ConstantFacts DEF ClaimTaskOperation, IInv, TypeOK, RowStatuses
<1>2. ASSUME NEW w \in Workers, Settle(w) \/ MarkTaskOperationNeedsReview(w)
      PROVE  ops'[o].status = ops[o].status
  BY <1>2 DEF Settle, MarkTaskOperationNeedsReview, Owned, IInv, TypeOK
<1>3. ASSUME NEW w \in Workers, HeartbeatTaskOperation(w)
      PROVE  ops'[o].status = ops[o].status
  BY <1>3 DEF HeartbeatTaskOperation, Owned, IInv, TypeOK
<1>4. ASSUME NEW w \in Workers, NEW k \in Keys, Submit(w, k)
      PROVE  ops'[o].status = ops[o].status
  <2>1. [Idle EXCEPT !.op = k] \in Places /\ [Idle EXCEPT !.op = k].op \in Ops
    <3>1. "idle" \in PCs /\ 0 \in 0..2 /\ 0 \in 0..MaxApprovals + 1 /\ k \in Ops
      BY ConstantFacts DEF PCs, Ops
    <3>2. Idle \in Places
      BY <3>1 DEF Idle, Places
    <3> QED
      BY <3>1, <3>2 DEF Places
  <2> QED
    BY <1>4, <2>1, <1>1 DEF Submit
<1>5. ASSUME NEW w \in Workers, ClaimApproved(w)
      PROVE  ops'[o].status = ops[o].status
  <2>1. worker[w] \in Places /\ worker[w].op \in Ops
    BY <1>5 DEF ClaimApproved, IInv, TypeOK, Places, RunOK
  <2> QED
    BY <1>5, <2>1, <1>1 DEF ClaimApproved
<1>6. ASSUME NEW p \in Ops, LeaseExpires(p)
      PROVE  ops'[o].status = ops[o].status
  BY <1>6 DEF LeaseExpires, IInv, TypeOK
<1>7. CASE UNCHANGED ops
  BY <1>7
<1> QED
  BY <1>2, <1>3, <1>4, <1>5, <1>6, <1>7
     DEF Next, vars, Step, Fails, Attempt, RunTool, AttachReviewItem, AppendCompletionPlan,
         EnsureReview, MarkReviewOutcome, Reconcile, WorkFails, SettleFails, ReviewFails,
         MarkReviewOutcomeFails, Crash, ListApproved, Approve, Reject

\* Neither a new run, nor the owner, nor a reconciler reopens a closed review.
LEMMA ReviewsStayClosed ==
    ASSUME IInv, [Next]_vars, NEW v \in Reviews, reviews[v].status \in {"completed", "rejected"}
    PROVE  reviews'[v] = reviews[v]
<1>1. reviews[v] # NoReview
  BY ConstantFacts DEF NoReview, ReviewStatuses
<1>2. ASSUME NEW w \in Workers, AttachReviewItem(w)
      PROVE  reviews'[v] = reviews[v]
  <2>1. reviews[<<"plan", worker[w].op>>] = NoReview
    BY <1>2 DEF AttachReviewItem, IInv, RunOK, Executing
  <2> QED
    BY <1>1, <1>2, <2>1 DEF AttachReviewItem, IInv, TypeOK
<1>3. ASSUME NEW w \in Workers, EnsureReview(w)
      PROVE  reviews'[v] = reviews[v]
  BY <1>1, <1>3 DEF EnsureReview, IInv, TypeOK
<1>4. ASSUME NEW w \in Workers, MarkReviewOutcome(w) \/ Reconcile(w)
      PROVE  reviews'[v] = reviews[v]
  BY <1>4 DEF MarkReviewOutcome, Reconcile, Outcome, Approved, IInv, TypeOK
<1>5. ASSUME NEW u \in Reviews, Reject(u) \/ \E w \in Workers, n \in Approvals : Approve(w, u, n)
      PROVE  reviews'[v] = reviews[v]
  BY <1>5 DEF Reject, Approve, Open, IInv, TypeOK
<1>6. CASE UNCHANGED reviews
  BY <1>6
<1> QED
  BY <1>2, <1>3, <1>4, <1>5, <1>6
     DEF Next, vars, Step, Fails, Submit, ClaimApproved, ClaimTaskOperation, Attempt, RunTool,
         AppendCompletionPlan, Settle, MarkTaskOperationNeedsReview, WorkFails, SettleFails,
         ReviewFails, MarkReviewOutcomeFails, Crash, ListApproved, LeaseExpires,
         HeartbeatTaskOperation

\* A settled row keeps its status and a closed review is never touched again
\* (ownedTaskOperation, MarkReviewOutcome).
THEOREM SettledStays == Spec => SettledIsFinal
<1>1. IInv /\ [Next]_vars =>
         [ /\ \A o \in Ops : ops[o].status \in {"completed", "needs_review"} =>
                 ops'[o].status = ops[o].status
           /\ \A v \in Reviews : reviews[v].status \in {"completed", "rejected"} =>
                 reviews'[v] = reviews[v] ]_vars
  BY RowsStaySettled, ReviewsStayClosed
<1> QED
  BY <1>1, Invariance, PTL DEF Spec, SettledIsFinal
=============================================================================
