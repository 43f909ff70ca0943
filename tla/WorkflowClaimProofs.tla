------------------------- MODULE WorkflowClaimProofs -------------------------
(***************************************************************************)
(* Proofs about WorkflowClaim, for any workers and sweepers, any items of  *)
(* intake, and any numbers of attempts, claims, requests and faults.       *)
(***************************************************************************)
EXTENDS WorkflowClaim, TLAPS

Places == [pc : {"idle", "run", "settle", "inspect", "renew", "follow", "trigger"},
           claim : 0..MaxClaims, left : 0..MaxLeft, approved : BOOLEAN, review : BOOLEAN,
           result : Results \union {None}, draft : Row \union {None}, stale : BOOLEAN]
Loops == [status : {"open", "processing", "triggered", "resolved"},
          owner : Workers \union {None}, fresh : BOOLEAN, internal : BOOLEAN]
Requests == [pc : {"idle", "save", "decide"}, draft : Row \union {None},
             decision : {None, "approved", "rejected"}, resolves : BOOLEAN,
             stale : BOOLEAN]

(***************************************************************************)
(* The inductive invariant.  Whole rows are read, kept and saved back, so  *)
(* what is claimed of the row must hold of every copy that can still be    *)
(* saved; whether a completion is backed is never taken back.              *)
(***************************************************************************)

\* A row that may be saved.
Sound(r, backed) ==
    /\ r \in Row
    /\ r.lease = "none" <=> r.claim = 0
    /\ r.review => r.state \in {"blocked", "archived"}
    /\ r.state = "completed" => backed

Backed == attested \/ evidence

\* Nobody claims an item under review; a follow-up keeps a sound copy.
WorkerOK(w) ==
    /\ worker[w].claim <= claims
    /\ ~worker[w].review
    /\ worker[w].pc \in {"run", "settle"} => worker[w].claim # 0
    /\ worker[w].pc \in {"renew", "follow"} => Sound(worker[w].draft, Backed)

OperatorOK == operator.pc = "save" => Sound(operator.draft, Backed)

Counters ==
    /\ decision \in {None, "approved", "rejected"}
    /\ attested \in BOOLEAN /\ evidence \in BOOLEAN /\ unknown \in BOOLEAN
    /\ claims \in 0..MaxClaims /\ requests \in 0..MaxRequests /\ faults \in 0..MaxFaults

IInv ==
    /\ Sound(row, Backed)
    /\ worker \in [Workers -> Places] /\ \A w \in Workers : WorkerOK(w)
    /\ operator \in Requests /\ OperatorOK
    /\ loop \in Loops
    /\ Counters

-----------------------------------------------------------------------------
(* What the operators on rows preserve *)

LEMMA ConstantFacts ==
    /\ MaxLeft \in Nat /\ MaxLeft # 0 /\ MaxClaims \in Nat
    /\ MaxRequests \in Nat /\ MaxFaults \in Nat /\ Sweepers \subseteq Workers
<1> QED
  BY WorkflowAssumption

LEMMA OneLessFacts ==
    ASSUME NEW n \in 0..MaxLeft
    PROVE  OneLess(n) \in 0..MaxLeft
<1> QED
  BY ConstantFacts DEF OneLess

LEMMA AgedFacts ==
    ASSUME NEW r, NEW b, Sound(r, b)
    PROVE  Sound(Aged(r), b) /\ Aged(r) \in Row
<1> QED
  BY DEF Sound, Aged, Row

\* The follow-up never touches an item under review: that one is blocked.
LEMMA FollowUpFacts ==
    ASSUME NEW r, NEW b, Sound(r, b), ~Closed(r)
    PROVE  Sound(FollowUp(r), b)
<1>1. CASE r.state = "blocked"
  BY <1>1 DEF FollowUp
<1>2. CASE r.state # "blocked" /\ (r.requires \/ loop.internal)
  <2>1. FollowUp(r) = [r EXCEPT !.state = "needs_approval", !.requires = TRUE, !.approved = FALSE]
    BY <1>2 DEF FollowUp
  <2> QED
    BY <1>2, <2>1 DEF Sound, Row, States, Closed
<1>3. CASE r.state # "blocked" /\ ~(r.requires \/ loop.internal)
  <2>1. FollowUp(r) = [r EXCEPT !.state = IF r.state = "waiting_input" THEN "ready" ELSE r.state]
    BY <1>3 DEF FollowUp
  <2> QED
    BY <1>3, <2>1 DEF Sound, Row, States, Closed
<1> QED
  BY <1>1, <1>2, <1>3

\* No request decides on an unsound row, or lets an item under review go
\* without resolving it.
LEMMA RequestFacts ==
    ASSUME NEW r, NEW b, Sound(r, b),
           NEW a \in Transition(r) \union Reject(r) \union ResolveInterrupted(r)
                     \union ResolveProposal(r) \union RetractSource(r) \union SupersedeSource(r)
    PROVE  /\ a.pc = "save" /\ a \in Requests /\ Sound(a.draft, b)
           /\ r.review => a.resolves \/ a.draft.review
<1> SUFFICES ASSUME NEW x, NEW d \in {None, "approved", "rejected"}, NEW v \in BOOLEAN,
                    a = [pc |-> "save", draft |-> x, decision |-> d, resolves |-> v,
                         stale |-> FALSE]
             PROVE  Sound(x, b) /\ (r.review => v \/ x.review)
  <2>1. PICK x, d, v :
           /\ a = [pc |-> "save", draft |-> x, decision |-> d, resolves |-> v, stale |-> FALSE]
           /\ d \in {None, "approved", "rejected"} /\ v \in BOOLEAN
    BY DEF Transition, Reject, ResolveInterrupted, ResolveProposal, RetractSource, SupersedeSource,
       Answer, Resolution
  <2>2. Sound(x, b) /\ (r.review => v \/ x.review)
    BY <2>1
  <2>3. a.pc = "save" /\ a.draft = x /\ a.decision = d /\ a.resolves = v
    BY <2>1
  <2>4. a \in Requests
    BY <2>1, <2>2 DEF Requests, Sound
  <2> QED
    BY <2>2, <2>3, <2>4
<1>1. CASE a \in Transition(r)
  <2>1. PICK t \in States \ {"completed"}, g \in BOOLEAN :
           /\ MayMove(r, t, g)
           /\ x = Moved(r, t, g)
    BY <1>1 DEF Transition, Answer
  <2>2. r \in Row
    BY DEF Sound
  <2>3. x \in Row
    BY <2>1, <2>2 DEF Moved, Row
  <2>4. x.state = t /\ x.review = r.review /\ x.lease = r.lease /\ x.claim = r.claim
    BY <2>1, <2>2 DEF Moved, Row
  <2>5. t # "completed" /\ (r.review => t = "blocked")
    BY <2>1 DEF MayMove
  <2> QED
    BY <2>3, <2>4, <2>5 DEF Sound
<1>2. CASE a \in Reject(r) \union RetractSource(r) \union SupersedeSource(r)
  <2>1. \/ ~r.review /\ x = [r EXCEPT !.state = "blocked", !.approved = FALSE]
        \/ x = [r EXCEPT !.state = "blocked", !.claim = 0, !.lease = "none"]
        \/ x = [r EXCEPT !.state = "archived", !.archived = TRUE, !.lease = "none"] /\ r.claim = 0
    BY <1>2 DEF Reject, RetractSource, SupersedeSource, Answer
  <2>2. 0 \in 0..MaxClaims
    BY ConstantFacts
  <2> QED
    BY <2>1, <2>2 DEF Sound, Row, States
<1>3. CASE a \in ResolveInterrupted(r)
  <2>1. \/ x = r
        \/ v /\ x = [r EXCEPT !.review = FALSE, !.left = IF r.left > 0 THEN r.left ELSE 1,
                         !.state = IF r.requires THEN "needs_approval" ELSE "ready",
                         !.approved = r.approved /\ ~r.requires]
    BY <1>3 DEF ResolveInterrupted, Answer, Resolution
  <2>2. 1 \in 0..MaxLeft
    BY ConstantFacts
  <2> QED
    BY <2>1, <2>2 DEF Sound, Row, States
<1>4. CASE a \in ResolveProposal(r)
  <2>1. /\ ~r.review
        /\ \/ x = [r EXCEPT !.state = "waiting_input"]
           \/ x = [r EXCEPT !.state = "blocked", !.approved = FALSE]
           \/ x = [r EXCEPT !.state = "ready"]
    BY <1>4 DEF ResolveProposal, Answer
  <2> QED
    BY <2>1 DEF Sound, Row, States
<1> QED
  BY <1>1, <1>2, <1>3, <1>4

-----------------------------------------------------------------------------
(* What a step must show *)

LEMMA BackingStays ==
    ASSUME NEW r, NEW b \in BOOLEAN, NEW c \in BOOLEAN, Sound(r, b), b => c
    PROVE  Sound(r, c)
<1> QED
  BY DEF Sound

\* A step of one worker.
LEMMA WorkerMoves ==
    ASSUME IInv, NEW w \in Workers, worker' = [worker EXCEPT ![w] = worker'[w]],
           worker'[w] \in Places, WorkerOK(w)', Sound(row', Backed'),
           UNCHANGED operator, loop' \in Loops, Counters', claims <= claims', Backed => Backed'
    PROVE  IInv'
<1>1. Backed \in BOOLEAN /\ Backed' \in BOOLEAN /\ claims \in Nat /\ claims' \in Nat
  BY ConstantFacts DEF IInv, Counters, Backed
<1>2. \A x \in Workers \ {w} : worker'[x] = worker[x]
  BY DEF IInv
<1>3. ASSUME NEW x \in Workers \ {w}
      PROVE  WorkerOK(x)'
  <2>1. worker'[x] = worker[x] /\ WorkerOK(x) /\ worker[x].claim \in Nat
    BY <1>2, ConstantFacts DEF IInv, Places
  <2>2. worker[x].pc \in {"renew", "follow"} => Sound(worker[x].draft, Backed')
    BY <1>1, <2>1, BackingStays DEF WorkerOK
  <2> QED
    BY <1>1, <2>1, <2>2 DEF WorkerOK
<1>4. worker' \in [Workers -> Places]
  BY DEF IInv
<1>5. OperatorOK'
  BY <1>1, BackingStays DEF IInv, OperatorOK
<1> QED
  BY <1>3, <1>4, <1>5 DEF IInv

\* A step of an operator or of the sweep.
LEMMA OthersMove ==
    ASSUME IInv, UNCHANGED <<worker, claims>>, Sound(row', Backed'), operator' \in Requests,
           OperatorOK', loop' \in Loops, Counters', Backed => Backed'
    PROVE  IInv'
<1>1. Backed \in BOOLEAN /\ Backed' \in BOOLEAN
  BY DEF IInv, Counters, Backed
<1>2. ASSUME NEW x \in Workers
      PROVE  WorkerOK(x)'
  <2>1. WorkerOK(x)
    BY DEF IInv
  <2>2. worker[x].pc \in {"renew", "follow"} => Sound(worker[x].draft, Backed')
    BY <1>1, <2>1, BackingStays DEF WorkerOK
  <2> QED
    BY <2>1, <2>2 DEF WorkerOK
<1> QED
  BY <1>2 DEF IInv

LEMMA IdleFacts ==
    ASSUME IInv, NEW w \in Workers, Rest(w), claims' \in Nat
    PROVE  worker' = [worker EXCEPT ![w] = worker'[w]] /\ worker'[w] \in Places /\ WorkerOK(w)'
<1>1. worker'[w] = Idle
  BY DEF Rest, IInv
<1>2. Idle \in Places
  BY ConstantFacts DEF Idle, Places
<1>3. WorkerOK(w)'
  BY <1>1 DEF Idle, WorkerOK
<1> QED
  BY <1>1, <1>2, <1>3 DEF Rest

LEMMA FaultFacts ==
    ASSUME Counters, Fault \/ UNCHANGED faults
    PROVE  faults' \in 0..MaxFaults
<1> QED
  BY ConstantFacts DEF Counters, Fault

-----------------------------------------------------------------------------
(* The claim and its outcome *)

LEMMA ClaimStep ==
    ASSUME IInv, NEW w \in Workers, Claim(w)
    PROVE  IInv'
<1>1. /\ row.state = "ready" /\ claims < MaxClaims /\ claims' = claims + 1
      /\ row' = [row EXCEPT !.state = "in_progress", !.claim = claims + 1, !.lease = "live",
                            !.ran = TRUE]
      /\ UNCHANGED <<loop, operator, decision, attested, evidence, unknown, requests, faults>>
      /\ Preflight(w, claims + 1)
  BY DEF Claim
<1>2. /\ claims \in Nat /\ claims + 1 \in 0..MaxClaims /\ claims + 1 # 0 /\ Sound(row, Backed)
      /\ worker \in [Workers -> Places]
  BY <1>1, ConstantFacts DEF IInv, Counters
<1>3. Counters'
  BY <1>1, <1>2 DEF IInv, Counters
<1>4. row.review = FALSE /\ row.left \in 0..MaxLeft /\ row.approved \in BOOLEAN
  BY <1>1, <1>2 DEF Sound, Row
<1>5. PICK pc \in {"settle", "run"}, result \in Results \union {None} :
         worker' = [worker EXCEPT ![w] =
             [Idle EXCEPT !.pc = pc, !.claim = claims + 1, !.left = row.left,
                          !.approved = row.approved, !.review = row.review, !.result = result]]
  BY <1>1 DEF Preflight, Results
<1>6. worker'[w] = [pc |-> pc, claim |-> claims + 1, left |-> row.left,
                    approved |-> row.approved, review |-> row.review, result |-> result,
                    draft |-> None, stale |-> FALSE]
  BY <1>2, <1>5 DEF Idle
<1>7. worker' = [worker EXCEPT ![w] = worker'[w]]
  BY <1>2, <1>5
<1>8. worker'[w] \in Places
  <2>1. PICK c \in 0..MaxClaims : c = claims + 1
    BY <1>2
  <2>2. PICK n \in 0..MaxLeft : n = row.left
    BY <1>4
  <2>3. worker'[w] = [pc |-> pc, claim |-> c, left |-> n, approved |-> row.approved,
                      review |-> row.review, result |-> result, draft |-> None, stale |-> FALSE]
    BY <1>6, <2>1, <2>2
  <2>4. row.approved \in BOOLEAN /\ row.review \in BOOLEAN
    BY <1>4
  <2> QED
    BY <2>3, <2>4 DEF Places
<1>9. WorkerOK(w)'
  <2>1. /\ worker'[w].claim = claims + 1 /\ worker'[w].review = FALSE
        /\ worker'[w].pc \in {"settle", "run"}
    BY <1>4, <1>6
  <2> QED
    BY <1>1, <1>2, <2>1 DEF WorkerOK
<1>10. Sound(row', Backed')
  BY <1>1, <1>2 DEF Sound, Row, States
<1> QED
  BY <1>1, <1>2, <1>3, <1>7, <1>8, <1>9, <1>10, WorkerMoves DEF IInv, Backed

LEMMA RenewStep ==
    ASSUME IInv, NEW w \in Workers, RenewRunnableItemClaim(w)
    PROVE  IInv'
<1>1. /\ row' = [row EXCEPT !.lease = "live"] /\ row.lease = "expired"
      /\ UNCHANGED <<loop, worker, operator, decision, attested, evidence, unknown, claims, requests, faults>>
  BY DEF RenewRunnableItemClaim
<1>2. Sound(row', Backed') /\ Counters' /\ OperatorOK'
  BY <1>1 DEF IInv, Sound, Row, Backed, Counters, OperatorOK
<1> QED
  BY <1>1, <1>2, OthersMove DEF IInv, Backed

LEMMA RunTaskStep ==
    ASSUME IInv, NEW w \in Workers, RunTask(w)
    PROVE  IInv'
<1>1. /\ worker[w].pc = "run" /\ WorkerOK(w) /\ worker \in [Workers -> Places]
      /\ UNCHANGED <<loop, operator, decision, attested, evidence, unknown, claims, requests>>
      /\ faults' \in 0..MaxFaults /\ Sound(row, Backed)
  BY FaultFacts DEF RunTask, IInv
<1>2. PICK result \in Results :
         worker' = [worker EXCEPT ![w].pc = "settle", ![w].result = result]
  BY DEF RunTask, Results
<1>3. worker'[w] = [worker[w] EXCEPT !.pc = "settle", !.result = result]
  BY <1>1, <1>2
<1>4. /\ worker' = [worker EXCEPT ![w] = worker'[w]] /\ worker'[w] \in Places
      /\ worker'[w].pc = "settle" /\ worker'[w].claim = worker[w].claim
      /\ worker'[w].review = worker[w].review
  BY <1>1, <1>2, <1>3 DEF Places
<1>5. WorkerOK(w)'
  BY <1>1, <1>4 DEF WorkerOK
<1>6. Sound(row', Backed')
  <2>1. CASE UNCHANGED row
    BY <1>1, <2>1 DEF Backed
  <2>2. CASE Owned(w) /\ row' = [row EXCEPT !.lease = "live"]
    <3>1. row.claim # 0 /\ row.lease # "none"
      BY <1>1, <2>2 DEF Owned, WorkerOK, Sound
    <3> QED
      BY <1>1, <2>2, <3>1 DEF Sound, Row, Backed
  <2> QED
    BY <2>1, <2>2 DEF RunTask
<1>7. Counters' /\ claims <= claims'
  BY <1>1, ConstantFacts DEF IInv, Counters
<1> QED
  BY <1>1, <1>4, <1>5, <1>6, <1>7, WorkerMoves DEF IInv, Backed

LEMMA SettleStep ==
    ASSUME IInv, NEW w \in Workers, Settle(w)
    PROVE  IInv'
<1>1. /\ Rest(w) /\ UNCHANGED <<loop, operator, decision, evidence, unknown, claims, requests, faults>>
      /\ Sound(row, Backed) /\ worker[w] \in Places /\ worker[w].review = FALSE
      /\ claims \in Nat /\ claims' \in Nat /\ Counters
  BY ConstantFacts DEF Settle, IInv, WorkerOK, Counters, Places
<1>2. /\ Sound(row', Backed') /\ attested' \in BOOLEAN /\ (attested => attested')
  <2>1. CASE UNCHANGED <<row, attested>>
    BY <1>1, <2>1 DEF Backed, Counters
  <2>2. CASE CompleteClaimedItem(w)
    <3>1. CASE attested
      BY <1>1, <2>2, <3>1 DEF CompleteClaimedItem, Backed, Counters
    <3>2. CASE ~attested
      <4>1. /\ attested' = TRUE
            /\ row' = [row EXCEPT !.state = "completed", !.left = worker[w].left,
                                  !.approved = worker[w].approved,
                                  !.review = worker[w].review, !.claim = 0, !.lease = "none"]
        BY <2>2, <3>2 DEF CompleteClaimedItem
      <4>2. 0 \in 0..MaxClaims
        BY ConstantFacts
      <4> QED
        BY <1>1, <4>1, <4>2 DEF Sound, Row, States, Places, Backed
    <3> QED
      BY <3>1, <3>2
  <2>3. ASSUME NEW state \in {"ready", "blocked", "needs_approval"}, NEW left \in 0..MaxLeft,
               NEW approved \in BOOLEAN, UpdateClaimedItem(w, state, left, approved)
        PROVE  /\ Sound(row', Backed') /\ attested' \in BOOLEAN /\ (attested => attested')
    <3>1. /\ attested' = attested
          /\ row' = [row EXCEPT !.state = state, !.left = left, !.approved = approved,
                                !.review = worker[w].review, !.claim = 0, !.lease = "none"]
      BY <2>3 DEF UpdateClaimedItem
    <3>2. 0 \in 0..MaxClaims
      BY ConstantFacts
    <3> QED
      BY <1>1, <3>1, <3>2 DEF Sound, Row, States, Places, Backed, Counters
  <2>4. /\ worker[w].left \in 0..MaxLeft /\ OneLess(worker[w].left) \in 0..MaxLeft
        /\ worker[w].approved \in BOOLEAN
    BY <1>1, OneLessFacts DEF Places
  <2> QED
    BY <2>1, <2>2, <2>3, <2>4 DEF Settle
<1>3. worker' = [worker EXCEPT ![w] = worker'[w]] /\ worker'[w] \in Places /\ WorkerOK(w)'
  BY <1>1, IdleFacts
<1>4. Counters' /\ (Backed => Backed')
  BY <1>1, <1>2 DEF Counters, Backed
<1> QED
  BY <1>1, <1>2, <1>3, <1>4, WorkerMoves DEF IInv

LEMMA DieStep ==
    ASSUME IInv, NEW w \in Workers, Die(w)
    PROVE  IInv'
<1>1. /\ Rest(w)
      /\ UNCHANGED <<row, loop, operator, decision, attested, evidence, unknown, claims, requests>>
      /\ faults' \in 0..MaxFaults /\ claims \in Nat
  BY FaultFacts, ConstantFacts DEF Die, IInv, Counters
<1>2. worker' = [worker EXCEPT ![w] = worker'[w]] /\ worker'[w] \in Places /\ WorkerOK(w)'
  BY <1>1, IdleFacts
<1>3. Counters'
  BY <1>1 DEF IInv, Counters
<1> QED
  BY <1>1, <1>2, <1>3, WorkerMoves DEF IInv, Backed

-----------------------------------------------------------------------------
(* Time and recovery *)

LEMMA LeaseExpiresStep ==
    ASSUME IInv, LeaseExpires
    PROVE  IInv'
<1>1. /\ row' = Aged(row)
      /\ worker' = [w \in Workers |-> [worker[w] EXCEPT !.draft =
                       IF worker[w].draft = None THEN worker[w].draft ELSE Aged(worker[w].draft)]]
      /\ operator' = [operator EXCEPT !.draft =
                       IF operator.draft = None THEN operator.draft ELSE Aged(operator.draft)]
      /\ UNCHANGED <<loop, decision, attested, evidence, unknown, claims, requests, faults>>
  BY DEF LeaseExpires
<1>2. Sound(row', Backed') /\ Counters' /\ loop' \in Loops
  BY <1>1, AgedFacts DEF IInv, Backed, Counters
<1>3. \A r \in Row : Aged(r) \in Row
  BY DEF Aged, Row
<1>4. ASSUME NEW w \in Workers
      PROVE  worker'[w] \in Places /\ WorkerOK(w)'
  <2>1. worker[w] \in Places /\ WorkerOK(w)
    BY DEF IInv
  <2>2. PICK d : /\ worker'[w] = [worker[w] EXCEPT !.draft = d]
                 /\ d = IF worker[w].draft = None THEN worker[w].draft ELSE Aged(worker[w].draft)
    BY <1>1
  <2>3. d \in Row \union {None}
    BY <1>3, <2>1, <2>2 DEF Places
  <2>4. /\ worker'[w] \in Places /\ worker'[w].draft = d /\ worker'[w].pc = worker[w].pc
        /\ worker'[w].claim = worker[w].claim /\ worker'[w].review = worker[w].review
    BY <2>1, <2>2, <2>3 DEF Places
  <2>5. worker[w].pc \in {"renew", "follow"} => Sound(d, Backed)
    BY <2>1, <2>2, AgedFacts DEF WorkerOK
  <2> QED
    BY <1>1, <2>1, <2>4, <2>5 DEF WorkerOK, Backed
<1>5. operator' \in Requests /\ OperatorOK'
  <2>1. PICK d : /\ operator' = [operator EXCEPT !.draft = d]
                 /\ d = IF operator.draft = None THEN operator.draft ELSE Aged(operator.draft)
    BY <1>1
  <2>2. operator \in Requests /\ OperatorOK
    BY DEF IInv
  <2>3. d \in Row \union {None}
    BY <1>3, <2>1, <2>2 DEF Requests
  <2>4. operator' \in Requests /\ operator'.draft = d /\ operator'.pc = operator.pc
    BY <2>1, <2>2, <2>3 DEF Requests
  <2>5. operator.pc = "save" => Sound(d, Backed)
    BY <2>1, <2>2, AgedFacts DEF OperatorOK
  <2> QED
    BY <1>1, <2>4, <2>5 DEF OperatorOK, Backed
<1> QED
  BY <1>1, <1>2, <1>4, <1>5 DEF IInv

LEMMA RecoverStep ==
    ASSUME IInv, RecoverExpiredWorkflowClaim
    PROVE  IInv'
<1>1. /\ row' = [row EXCEPT !.state = "blocked", !.review = TRUE, !.left = OneLess(row.left),
                            !.claim = 0, !.lease = "none"]
      /\ worker' = [w \in Workers |->
                       [worker[w] EXCEPT !.stale = worker[w].pc \in {"renew", "follow"}]]
      /\ operator' = [operator EXCEPT !.stale = operator.pc = "save"]
      /\ unknown' = TRUE
      /\ UNCHANGED <<loop, decision, attested, evidence, claims, requests, faults>>
  BY DEF RecoverExpiredWorkflowClaim, Interrupted
<1>2. OneLess(row.left) \in 0..MaxLeft /\ 0 \in 0..MaxClaims
  BY OneLessFacts, ConstantFacts DEF IInv, Sound, Row
<1>3. Sound(row', Backed') /\ Counters'
  BY <1>1, <1>2 DEF IInv, Sound, Row, States, Backed, Counters
<1>4. ASSUME NEW w \in Workers
      PROVE  worker'[w] \in Places /\ WorkerOK(w)'
  <2>1. worker[w] \in Places /\ WorkerOK(w)
    BY DEF IInv
  <2>2. PICK v \in BOOLEAN : worker'[w] = [worker[w] EXCEPT !.stale = v]
    <3>1. worker'[w] = [worker[w] EXCEPT !.stale = worker[w].pc \in {"renew", "follow"}]
      BY <1>1
    <3>2. CASE worker[w].pc \in {"renew", "follow"}
      BY <3>1, <3>2
    <3>3. CASE worker[w].pc \notin {"renew", "follow"}
      <4>1. (worker[w].pc \in {"renew", "follow"}) = FALSE
        BY <3>3
      <4>2. worker'[w] = [worker[w] EXCEPT !.stale = FALSE]
        BY <3>1, <4>1, Zenon
      <4> QED
        BY <4>2
    <3> QED
      BY <3>2, <3>3
  <2>3. /\ worker'[w] \in Places /\ worker'[w].draft = worker[w].draft
        /\ worker'[w].pc = worker[w].pc /\ worker'[w].claim = worker[w].claim
        /\ worker'[w].review = worker[w].review
    BY <2>1, <2>2 DEF Places
  <2> QED
    BY <1>1, <2>1, <2>3 DEF WorkerOK, Backed
<1>5. operator' \in Requests /\ OperatorOK'
  <2>1. PICK v \in BOOLEAN : operator' = [operator EXCEPT !.stale = v]
    BY <1>1
  <2>2. operator \in Requests /\ OperatorOK
    BY DEF IInv
  <2>3. operator' \in Requests /\ operator'.draft = operator.draft /\ operator'.pc = operator.pc
    BY <2>1, <2>2 DEF Requests
  <2> QED
    BY <1>1, <2>2, <2>3 DEF OperatorOK, Backed
<1> QED
  BY <1>1, <1>3, <1>4, <1>5 DEF IInv

-----------------------------------------------------------------------------
(* Operators *)

LEMMA RequestStep ==
    ASSUME IInv, Request
    PROVE  IInv'
<1>1. /\ requests' = requests + 1 /\ requests < MaxRequests
      /\ operator' \in Transition(row) \union Reject(row) \union ResolveInterrupted(row)
                     \union ResolveProposal(row) \union RetractSource(row)
                     \union SupersedeSource(row)
      /\ UNCHANGED <<row, loop, worker, decision, attested, evidence, unknown, claims, faults>>
  BY DEF Request
<1>2. operator' \in Requests /\ Sound(operator'.draft, Backed)
  BY <1>1, RequestFacts DEF IInv
<1>3. OperatorOK' /\ Counters' /\ Sound(row', Backed')
  BY <1>1, <1>2, ConstantFacts DEF OperatorOK, Backed, IInv, Counters
<1> QED
  BY <1>1, <1>2, <1>3, OthersMove DEF IInv, Backed

LEMMA ConfirmCompletedStep ==
    ASSUME IInv, ConfirmCompleted
    PROVE  IInv'
<1>1. /\ requests' = requests + 1 /\ requests < MaxRequests /\ evidence' = TRUE
      /\ operator' = [Answer([row EXCEPT !.state = "completed", !.review = FALSE], None)
                         EXCEPT !.resolves = TRUE]
      /\ UNCHANGED <<row, loop, worker, decision, attested, unknown, claims, faults>>
  BY DEF ConfirmCompleted, Resolution
<1>2. Backed' = TRUE
  BY <1>1 DEF Backed, IInv, Counters
<1>3. Sound([row EXCEPT !.state = "completed", !.review = FALSE], TRUE)
  BY DEF IInv, Sound, Row, States
<1>4. operator' \in Requests /\ operator'.draft = [row EXCEPT !.state = "completed", !.review = FALSE]
  BY <1>1, <1>3 DEF Answer, Requests, Sound
<1>5. OperatorOK' /\ Counters' /\ Sound(row', Backed')
  <2>1. Sound(operator'.draft, Backed')
    BY <1>2, <1>3, <1>4
  <2>2. Sound(row', Backed')
    BY <1>1, <1>2, BackingStays DEF IInv, Backed, Counters
  <2> QED
    BY <1>1, <2>1, <2>2, ConstantFacts DEF OperatorOK, IInv, Counters
<1> QED
  BY <1>1, <1>2, <1>4, <1>5, OthersMove DEF IInv

LEMMA UpdateItemStep ==
    ASSUME IInv, UpdateItem
    PROVE  IInv'
<1>1. /\ operator.pc = "save" /\ row' = operator.draft
      /\ UNCHANGED <<loop, worker, decision, attested, evidence, claims, requests, faults>>
      /\ \/ operator' = NoRequest
         \/ operator' = [NoRequest EXCEPT !.pc = "decide", !.decision = operator.decision]
      /\ unknown' = (unknown /\ ~operator.resolves /\ ~operator.stale)
  BY DEF UpdateItem, Reviewed
<1>2. operator' \in Requests /\ operator'.pc # "save"
  <2>1. CASE operator' = NoRequest
    BY <2>1 DEF Requests, NoRequest
  <2>2. CASE operator' = [NoRequest EXCEPT !.pc = "decide", !.decision = operator.decision]
    BY <2>2 DEF IInv, Requests, NoRequest
  <2> QED
    BY <1>1, <2>1, <2>2
<1>3. OperatorOK' /\ Counters' /\ Sound(row', Backed')
  BY <1>1, <1>2 DEF OperatorOK, Backed, IInv, Counters
<1> QED
  BY <1>1, <1>2, <1>3, OthersMove DEF IInv, Backed

LEMMA RecordDecisionStep ==
    ASSUME IInv, RecordDecision
    PROVE  IInv'
<1>1. /\ operator' = NoRequest /\ decision' \in {decision, operator.decision}
      /\ faults' \in 0..MaxFaults
      /\ UNCHANGED <<row, loop, worker, attested, evidence, unknown, claims, requests>>
  BY FaultFacts DEF RecordDecision, IInv
<1>2. operator' \in Requests /\ operator'.pc # "save"
  BY <1>1 DEF Requests, NoRequest
<1>3. OperatorOK' /\ Counters' /\ Sound(row', Backed')
  BY <1>1, <1>2 DEF OperatorOK, Backed, IInv, Counters, Requests
<1> QED
  BY <1>1, <1>2, <1>3, OthersMove DEF IInv, Backed

-----------------------------------------------------------------------------
(* The follow-up *)

\* A follow-up that goes on, with the copy it has or a new one.
LEMMA FollowUpGoes ==
    ASSUME IInv, NEW w \in Workers, NEW pc \in {"inspect", "renew", "follow"},
           NEW d \in Row \union {None}, pc \in {"renew", "follow"} => Sound(d, Backed),
           worker' = [worker EXCEPT ![w].pc = pc, ![w].draft = d],
           UNCHANGED <<row, operator, decision, attested, evidence, unknown, claims, requests, faults>>,
           loop' \in Loops
    PROVE  IInv'
<1>1. worker[w] \in Places /\ WorkerOK(w) /\ worker \in [Workers -> Places]
  BY DEF IInv
<1>2. worker'[w] = [worker[w] EXCEPT !.pc = pc, !.draft = d]
  BY <1>1
<1>3. /\ worker' = [worker EXCEPT ![w] = worker'[w]] /\ worker'[w] \in Places
      /\ worker'[w].pc = pc /\ worker'[w].draft = d
      /\ worker'[w].claim = worker[w].claim /\ worker'[w].review = worker[w].review
  BY <1>1, <1>2 DEF Places
<1>4. WorkerOK(w)'
  BY <1>1, <1>3 DEF WorkerOK, Backed
<1>5. Sound(row', Backed') /\ Counters' /\ claims <= claims'
  BY ConstantFacts DEF IInv, Backed, Counters
<1> QED
  BY <1>3, <1>4, <1>5, WorkerMoves DEF Backed

\* A follow-up that ends.
LEMMA FollowUpEnds ==
    ASSUME IInv, NEW w \in Workers, Rest(w), loop' \in Loops, faults' \in 0..MaxFaults,
           UNCHANGED <<row, operator, decision, attested, evidence, unknown, claims, requests>>
    PROVE  IInv'
<1>1. Counters' /\ claims' \in Nat /\ claims <= claims' /\ Sound(row', Backed')
  BY ConstantFacts DEF IInv, Counters, Backed
<1>2. worker' = [worker EXCEPT ![w] = worker'[w]] /\ worker'[w] \in Places /\ WorkerOK(w)'
  BY <1>1, IdleFacts
<1> QED
  BY <1>1, <1>2, WorkerMoves DEF Backed

LEMMA ReleaseFacts ==
    ASSUME loop \in Loops, NEW status \in {"open", "triggered", "resolved"},
           Release(status) \/ UNCHANGED loop
    PROVE  loop' \in Loops
<1> QED
  BY DEF Release, Loops

LEMMA FollowStep ==
    ASSUME IInv, NEW w \in Workers,
           ClaimDueOpenLoop(w) \/ InspectItem(w) \/ RenewOpenLoopClaim(w) \/ SaveFollowUp(w)
              \/ TriggerOpenLoop(w) \/ FollowUpFails(w)
    PROVE  IInv'
<1>1. /\ worker[w] \in Places /\ WorkerOK(w) /\ worker \in [Workers -> Places] /\ loop \in Loops
      /\ Sound(row, Backed) /\ faults \in 0..MaxFaults /\ worker[w].draft \in Row \union {None}
  BY DEF IInv, Counters, Places
<1>2. CASE ClaimDueOpenLoop(w)
  <2>1. loop' \in Loops
    BY <1>1, <1>2 DEF ClaimDueOpenLoop, Loops
  <2>2. worker' = [worker EXCEPT ![w].pc = "inspect", ![w].draft = worker[w].draft]
    BY <1>1, <1>2 DEF ClaimDueOpenLoop, Goto, Places
  <2> QED
    BY <1>1, <1>2, <2>1, <2>2, FollowUpGoes DEF ClaimDueOpenLoop
<1>3. CASE InspectItem(w)
  <2>1. CASE Closed(row)
    BY <1>1, <1>3, <2>1, ReleaseFacts, FollowUpEnds DEF InspectItem
  <2>2. CASE ~Closed(row)
    <3>1. Sound(FollowUp(row), Backed) /\ FollowUp(row) \in Row
      BY <1>1, <2>2, FollowUpFacts DEF Sound
    <3> QED
      BY <1>1, <1>3, <2>2, <3>1, FollowUpGoes DEF InspectItem
  <2> QED
    BY <2>1, <2>2
<1>4. CASE RenewOpenLoopClaim(w)
  <2>1. CASE Following(w)
    <3>1. loop' \in Loops
      BY <1>1, <1>4, <2>1 DEF RenewOpenLoopClaim, Loops
    <3>2. worker' = [worker EXCEPT ![w].pc = "follow", ![w].draft = worker[w].draft]
      BY <1>1, <1>4, <2>1 DEF RenewOpenLoopClaim, Goto, Places
    <3>3. Sound(worker[w].draft, Backed)
      BY <1>1, <1>4 DEF RenewOpenLoopClaim, WorkerOK
    <3> QED
      BY <1>1, <1>4, <3>1, <3>2, <3>3, FollowUpGoes DEF RenewOpenLoopClaim
  <2>2. CASE ~Following(w)
    BY <1>1, <1>4, <2>2, FollowUpEnds DEF RenewOpenLoopClaim
  <2> QED
    BY <2>1, <2>2
<1>5. CASE SaveFollowUp(w)
  <2>1. /\ row' = worker[w].draft /\ worker' = [worker EXCEPT ![w] = [Idle EXCEPT !.pc = "trigger"]]
        /\ unknown' \in BOOLEAN
        /\ UNCHANGED <<loop, operator, decision, attested, evidence, claims, requests, faults>>
    BY <1>5 DEF SaveFollowUp, Reviewed
  <2>2. Sound(row', Backed')
    BY <1>1, <1>5, <2>1 DEF SaveFollowUp, WorkerOK, Backed
  <2>3. worker'[w] = [pc |-> "trigger", claim |-> 0, left |-> 0, approved |-> FALSE,
                      review |-> FALSE, result |-> None, draft |-> None, stale |-> FALSE]
    BY <1>1, <2>1 DEF Idle
  <2>4. 0 \in 0..MaxClaims /\ 0 \in 0..MaxLeft /\ claims \in Nat
    BY ConstantFacts DEF IInv, Counters
  <2>5. worker' = [worker EXCEPT ![w] = worker'[w]] /\ worker'[w] \in Places
    BY <1>1, <2>1, <2>3, <2>4 DEF Places
  <2>6. WorkerOK(w)' /\ Counters' /\ claims <= claims'
    BY <2>1, <2>3, <2>4 DEF WorkerOK, IInv, Counters
  <2> QED
    BY <1>1, <2>1, <2>2, <2>5, <2>6, WorkerMoves DEF Backed
<1>6. CASE TriggerOpenLoop(w)
  BY <1>1, <1>6, ReleaseFacts, FollowUpEnds DEF TriggerOpenLoop
<1>7. CASE FollowUpFails(w)
  BY <1>1, <1>7, ReleaseFacts, FollowUpEnds, FaultFacts DEF FollowUpFails, IInv
<1> QED
  BY <1>2, <1>3, <1>4, <1>5, <1>6, <1>7

LEMMA LoopStep ==
    ASSUME IInv, LoopLeaseExpires \/ RecoverExpiredOpenLoopClaim
    PROVE  IInv'
<1>1. /\ UNCHANGED <<row, worker, operator, decision, attested, evidence, unknown, claims, requests, faults>>
      /\ loop' \in Loops
  BY ReleaseFacts DEF LoopLeaseExpires, RecoverExpiredOpenLoopClaim, IInv, Loops
<1>2. Sound(row', Backed') /\ Counters' /\ OperatorOK'
  BY <1>1 DEF IInv, Backed, Counters, OperatorOK
<1> QED
  BY <1>1, <1>2, OthersMove DEF IInv, Backed

-----------------------------------------------------------------------------
LEMMA InitInv == Init => IInv
<1> SUFFICES ASSUME Init
             PROVE  IInv
  OBVIOUS
<1>1. PICK i \in Intakes, left \in 1..MaxLeft :
         row = [state |-> i[1], requires |-> i[2], approved |-> FALSE, left |-> left,
                claim |-> 0, lease |-> "none", ran |-> FALSE, review |-> FALSE,
                archived |-> FALSE]
  BY DEF Init
<1>2. /\ i[1] \in {"ready", "needs_approval", "waiting_input", "blocked"} /\ i[2] \in BOOLEAN
      /\ left \in 0..MaxLeft /\ 0 \in 0..MaxClaims
  BY WorkflowAssumption
<1>3. Sound(row, Backed)
  BY <1>1, <1>2 DEF Sound, Row, States
<1>4. Idle \in Places
  BY ConstantFacts DEF Idle, Places
<1>5. NoRequest \in Requests
  BY DEF NoRequest, Requests
<1>6. loop \in Loops
  BY DEF Init, Loops
<1>7. worker \in [Workers -> Places] /\ \A w \in Workers : WorkerOK(w)
  BY <1>4, ConstantFacts DEF Init, Idle, WorkerOK
<1>8. operator.pc # "save"
  BY DEF Init, NoRequest
<1>9. 0 \in 0..MaxClaims /\ 0 \in 0..MaxRequests /\ 0 \in 0..MaxFaults
  BY ConstantFacts
<1>10. Counters
  BY <1>9 DEF Init, Counters
<1> QED
  BY <1>3, <1>5, <1>6, <1>7, <1>8, <1>10 DEF Init, IInv, OperatorOK

LEMMA StepInduction == IInv /\ [Next]_vars => IInv'
<1> SUFFICES ASSUME IInv, [Next]_vars
             PROVE  IInv'
  OBVIOUS
<1>1. CASE UNCHANGED vars
  BY <1>1 DEF vars, IInv, WorkerOK, OperatorOK, Counters, Backed
<1>2. CASE Next
  <2>1. ASSUME NEW w \in Workers,
               \/ Claim(w) \/ RenewRunnableItemClaim(w) \/ Die(w) \/ Progress(w)
               \/ ClaimDueOpenLoop(w) \/ FollowUpFails(w)
        PROVE  IInv'
    BY <2>1, ClaimStep, RenewStep, RunTaskStep, SettleStep, DieStep, FollowStep DEF Progress
  <2> QED
    BY <1>2, <2>1, LeaseExpiresStep, RecoverStep, RequestStep, ConfirmCompletedStep,
       UpdateItemStep, RecordDecisionStep, LoopStep DEF Next
<1> QED
  BY <1>1, <1>2

\* The inductive invariant holds in every reachable state.
THEOREM Invariance == Spec => []IInv
<1> QED
  BY InitInv, StepInduction, PTL DEF Spec

\* The row, every copy of it and the workers keep their types, and a lease
\* belongs to a claim.
THEOREM TypeCorrect == Spec => []TypeOK
<1>1. IInv => TypeOK
  <2> SUFFICES ASSUME IInv
               PROVE  TypeOK
    OBVIOUS
  <2>1. row \in Row /\ (row.lease = "none" <=> row.claim = 0)
    BY DEF IInv, Sound
  <2>2. \A w \in Workers :
           /\ worker[w].pc \in {"idle", "run", "settle", "inspect", "renew", "follow", "trigger"}
           /\ worker[w].draft \in Row \union {None}
           /\ worker[w].claim <= claims
    BY DEF IInv, WorkerOK, Places
  <2>3. operator.pc \in {"idle", "save", "decide"} /\ operator.draft \in Row \union {None}
    BY DEF IInv, Requests
  <2>4. loop.status \in {"open", "processing", "triggered", "resolved"}
    BY DEF IInv, Loops
  <2> QED
    BY <2>1, <2>2, <2>3, <2>4 DEF IInv, Counters, TypeOK
<1> QED
  BY <1>1, Invariance, PTL

\* However stale the rows that are saved back, a completed item was attested by
\* its worker or has evidence linked by an operator (CompleteClaimedItem,
\* ResolveInterruptedExecution).
THEOREM CompletionIsBacked == Spec => []CompletedIsBacked
<1>1. IInv => CompletedIsBacked
  BY DEF IInv, Sound, Backed, CompletedIsBacked
<1> QED
  BY <1>1, Invariance, PTL

(***************************************************************************)
(* The review of a recovered execution: every copy of the row that may     *)
(* still be saved shows it, resolves it or is older than the recovery.     *)
(***************************************************************************)
Marked ==
    unknown =>
       /\ row.review
       /\ operator.pc = "save" => operator.stale \/ operator.resolves \/ operator.draft.review
       /\ \A w \in Workers : worker[w].pc \in {"renew", "follow"} =>
             worker[w].stale \/ worker[w].draft.review

LEMMA MarkedSteps == IInv /\ Marked /\ [Next]_vars => Marked'
<1> SUFFICES ASSUME IInv, Marked, [Next]_vars
             PROVE  Marked'
  OBVIOUS
<1>1. worker \in [Workers -> Places] /\ row \in Row /\ unknown \in BOOLEAN /\ Sound(row, Backed)
  BY DEF IInv, Sound, Counters
<1>2. CASE UNCHANGED <<row, unknown, operator, worker>>
  BY <1>2 DEF Marked
<1>3. CASE RecoverExpiredWorkflowClaim
  BY <1>1, <1>3 DEF RecoverExpiredWorkflowClaim, Interrupted, Marked, Places, Row, IInv, Requests
<1>4. CASE LeaseExpires
  BY <1>1, <1>4 DEF LeaseExpires, Aged, Marked, Places, Row, IInv, Requests, WorkerOK, OperatorOK,
     Sound
<1>5. CASE Request
  BY <1>1, <1>5, RequestFacts DEF Request, Marked
<1>6. CASE ConfirmCompleted
  BY <1>1, <1>6 DEF ConfirmCompleted, Resolution, Answer, Marked
<1>7. CASE UpdateItem
  BY <1>1, <1>7 DEF UpdateItem, Reviewed, NoRequest, Marked, IInv, Requests
<1>8. CASE RecordDecision
  BY <1>8 DEF RecordDecision, NoRequest, Marked
<1>9. ASSUME NEW w \in Workers,
             \/ RunTask(w) \/ Settle(w) \/ Claim(w) \/ RenewRunnableItemClaim(w) \/ Die(w)
             \/ ClaimDueOpenLoop(w) \/ InspectItem(w) \/ RenewOpenLoopClaim(w)
             \/ SaveFollowUp(w) \/ TriggerOpenLoop(w) \/ FollowUpFails(w)
      PROVE  Marked'
  <2>1. CASE SaveFollowUp(w)
    BY <1>1, <2>1 DEF SaveFollowUp, Reviewed, Idle, Marked
  <2>2. CASE InspectItem(w)
    <3>1. CASE Closed(row)
      BY <1>1, <2>2, <3>1 DEF InspectItem, Rest, Idle, Marked
    <3>2. CASE ~Closed(row)
      <4>1. row.review => FollowUp(row).review
        BY <1>1, <3>2 DEF Sound, FollowUp, Closed
      <4> QED
        BY <1>1, <2>2, <3>2, <4>1 DEF InspectItem, Marked, Places
    <3> QED
      BY <3>1, <3>2
  <2>3. CASE RenewOpenLoopClaim(w)
    BY <1>1, <2>3 DEF RenewOpenLoopClaim, Rest, Goto, Idle, Marked, Places
  <2>4. CASE ClaimDueOpenLoop(w)
    BY <1>1, <2>4 DEF ClaimDueOpenLoop, Goto, Marked, Places
  <2>5. CASE TriggerOpenLoop(w) \/ FollowUpFails(w) \/ Die(w)
    <3>1. Rest(w) /\ UNCHANGED <<row, unknown, operator>>
      BY <2>5 DEF TriggerOpenLoop, FollowUpFails, Die
    <3> QED
      BY <1>1, <3>1 DEF Rest, Idle, Marked
  <2>6. CASE RunTask(w) \/ Settle(w) \/ Claim(w) \/ RenewRunnableItemClaim(w)
    <3>1. UNCHANGED <<unknown, operator>>
      BY <2>6 DEF RunTask, Settle, Claim, RenewRunnableItemClaim
    <3>2. \A x \in Workers : worker'[x].pc \in {"renew", "follow"} => worker'[x] = worker[x]
      <4>1. CASE RunTask(w)
        BY <1>1, <4>1 DEF RunTask, Places
      <4>2. CASE Settle(w)
        BY <1>1, <4>2 DEF Settle, Rest, Idle
      <4>3. CASE Claim(w)
        <5>1. Preflight(w, claims + 1)
          BY <4>3 DEF Claim
        <5> QED
          BY <1>1, <5>1 DEF Preflight, Idle
      <4>4. CASE RenewRunnableItemClaim(w)
        BY <4>4 DEF RenewRunnableItemClaim
      <4> QED
        BY <2>6, <4>1, <4>2, <4>3, <4>4
    <3>3. unknown => row'.review
      BY <1>1, <2>6 DEF RunTask, Settle, Claim, RenewRunnableItemClaim, Owned, Sound, Row, Marked
    <3> QED
      BY <3>1, <3>2, <3>3 DEF Marked
  <2> QED
    BY <1>9, <2>1, <2>2, <2>3, <2>4, <2>5, <2>6
<1>10. CASE LoopLeaseExpires \/ RecoverExpiredOpenLoopClaim
  BY <1>10 DEF LoopLeaseExpires, RecoverExpiredOpenLoopClaim, Marked
<1> QED
  BY <1>2, <1>3, <1>4, <1>5, <1>6, <1>7, <1>8, <1>9, <1>10 DEF Next, Progress, vars

\* However many requests, follow-ups and late workers there are, a recovered
\* execution keeps its item marked for review, blocked or archived, until an
\* operator's resolution or a copy of the row older than the recovery is saved
\* (RecoverExpiredWorkflowClaim, Transition, ResolveProposal, runOpenLoop).
THEOREM ReviewKeepsItem == Spec => []ReviewHoldsItem
<1>1. Init => Marked
  BY DEF Init, Marked
<1>2. IInv /\ Marked => ReviewHoldsItem
  BY DEF IInv, Sound, Marked, ReviewHoldsItem
<1> QED
  BY <1>1, <1>2, Invariance, MarkedSteps, PTL DEF Spec
=============================================================================
