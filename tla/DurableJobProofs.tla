-------------------------- MODULE DurableJobProofs --------------------------
(***************************************************************************)
(* Proofs about DurableJob, for any number of rows and runners, any lease, *)
(* batch size, backoff and set of faults.                                  *)
(***************************************************************************)
EXTENDS DurableJob, SequenceTheorems, TLAPS

(***************************************************************************)
(* The inductive invariant.  OneWriter alone is not inductive: it says     *)
(* nothing of two claims that cannot write now and could after the next    *)
(* claim.  What is: generations only grow, so that every held claim is of  *)
(* the row's generation or of an older one, and two of one row differ.     *)
(***************************************************************************)
RowOK(row) ==
    /\ row.status = "absent" => row.attempts = 0
    /\ row.status \in Active => row.attempts < MaxAttempts[row.kind]
    /\ row.status = "dead" =>
          \/ row.attempts = MaxAttempts[row.kind]
          \/ \E w \in Runners : row.kind \notin Registered[w]

ClaimOK(c, row) ==
    /\ c.attempts < MaxAttempts[c.kind]
    /\ row.status # "absent"
    /\ c.gen <= row.gen
    /\ c.kind = row.kind
    /\ c.gen = row.gen /\ row.status = "running" => c.attempts = row.attempts

BatchNotEmpty == \A w \in Runners : pc[w] \in {"run", "wait"} => batch[w] # << >>

RowsOK == \A j \in Jobs : RowOK(job[j])

ClaimsOK ==
    \A w \in Runners : \A i \in 1..Len(batch[w]) :
        ClaimOK(batch[w][i], job[batch[w][i].id])

ClaimsDiffer ==
    \A w, v \in Runners : \A i \in 1..Len(batch[w]), k \in 1..Len(batch[v]) :
        (w # v \/ i # k) /\ batch[w][i].id = batch[v][k].id
            => batch[w][i].gen # batch[v][k].gen

IInv == TypeOK /\ BatchNotEmpty /\ RowsOK /\ ClaimsOK /\ ClaimsDiffer

-----------------------------------------------------------------------------
\* What is left of a batch after its first entry.
LEMMA TailFacts ==
    ASSUME NEW S, NEW s \in Seq(S), s # << >>
    PROVE  /\ Head(s) \in S /\ Head(s) = s[1]
           /\ Len(s) \in Nat /\ Len(s) >= 1
           /\ Tail(s) \in Seq(S)
           /\ Len(Tail(s)) = Len(s) - 1
           /\ \A i \in 1..Len(Tail(s)) : Tail(s)[i] = s[i + 1]
           /\ Len(s) # 1 => Tail(s) # << >>
  <1>1. Len(s) \in Nat /\ Len(s) >= 1
    BY EmptySeq, LenProperties, SMT
  <1>2. Head(s) = s[1]
    OBVIOUS
  <1>3. Len(Tail(s)) = Len(s) - 1
    BY HeadTailProperties
  <1>4. Len(s) # 1 => Tail(s) # << >>
    <2>1. Tail(s) \in Seq(S)
      BY HeadTailProperties
    <2>2. Tail(s) = << >> => Len(Tail(s)) = 0
      BY <2>1, EmptySeq, Zenon
    <2> QED
      BY <1>1, <1>3, <2>2
  <1> QED
    BY <1>1, <1>2, <1>4, HeadTailProperties

\* What the holders of a row may rely on while others act on the table: a row
\* keeps its generation and kind, and does not start to run.
QuietRow(old, new) ==
    /\ new.gen = old.gen
    /\ new.kind = old.kind
    /\ new.status # "absent"
    /\ new.status = "running" =>
          old.status = "running" /\ new.attempts = old.attempts

QuietTable(tab) ==
    /\ tab \in [Jobs -> Row]
    /\ \A j \in Jobs :
          /\ RowOK(tab[j])
          /\ job[j].status # "absent" => QuietRow(job[j], tab[j])

\* Every entry of a batch after the step was an entry before it.
BatchShrinks ==
    \A w \in Runners :
        \/ batch'[w] = batch[w]
        \/ batch'[w] = << >>
        \/ batch[w] # << >> /\ batch'[w] = Tail(batch[w])

\* Claims stay well formed in a step that claims nothing.
LEMMA QuietKeepsClaims ==
    ASSUME TypeOK, ClaimsOK, ClaimsDiffer, QuietTable(job'), BatchShrinks
    PROVE  ClaimsOK' /\ ClaimsDiffer'
  <1>1. \A w \in Runners : batch[w] \in Seq(Claim)
    BY DEF TypeOK
  <1> DEFINE from(w) == IF batch'[w] = batch[w] THEN 0 ELSE 1
  <1>2. ASSUME NEW w \in Runners, NEW i \in 1..Len(batch'[w])
        PROVE  /\ i + from(w) \in 1..Len(batch[w])
               /\ batch'[w][i] = batch[w][i + from(w)]
               /\ batch'[w][i] \in Claim
    <2>1. CASE batch'[w] = batch[w]
      BY <1>1, <1>2, <2>1, SMT
    <2>2. CASE batch'[w] # batch[w] /\ batch'[w] = << >>
      BY <1>2, <2>2, SMT
    <2>3. CASE batch'[w] # batch[w] /\ batch[w] # << >> /\ batch'[w] = Tail(batch[w])
      BY <1>1, <1>2, <2>3, TailFacts, SMT
    <2> QED
      BY <2>1, <2>2, <2>3 DEF BatchShrinks
  <1>3. ClaimsOK'
    <2> SUFFICES ASSUME NEW w \in Runners, NEW i \in 1..Len(batch'[w])
                 PROVE  ClaimOK(batch'[w][i], job'[batch'[w][i].id])
      BY DEF ClaimsOK
    <2> DEFINE c == batch'[w][i]
    <2>1. c \in Claim /\ ClaimOK(c, job[c.id])
      BY <1>2 DEF ClaimsOK
    <2>2. c.id \in Jobs
      BY <2>1 DEF Claim
    <2>a. job[c.id].status # "absent"
      BY <2>1 DEF ClaimOK
    <2>3. \A j \in Jobs : job[j].status # "absent" => QuietRow(job[j], job'[j])
      BY DEF QuietTable
    <2>4. QuietRow(job[c.id], job'[c.id])
      BY <2>a, <2>2, <2>3
    <2>5. job[c.id] \in Row /\ job'[c.id].status # "absent"
      BY <2>2, <2>4 DEF TypeOK, QuietRow
    <2>6. c.kind = job'[c.id].kind /\ c.gen <= job'[c.id].gen /\ c.attempts < MaxAttempts[c.kind]
      BY <2>1, <2>4 DEF ClaimOK, QuietRow
    <2>7. c.gen = job'[c.id].gen /\ job'[c.id].status = "running" =>
            c.attempts = job'[c.id].attempts
      BY <2>1, <2>4 DEF ClaimOK, QuietRow
    <2> QED
      BY <2>5, <2>6, <2>7 DEF ClaimOK
  <1>4. ClaimsDiffer'
    <2> SUFFICES ASSUME NEW w \in Runners, NEW v \in Runners,
                        NEW i \in 1..Len(batch'[w]), NEW k \in 1..Len(batch'[v]),
                        w # v \/ i # k, batch'[w][i].id = batch'[v][k].id
                 PROVE  batch'[w][i].gen # batch'[v][k].gen
      BY DEF ClaimsDiffer
    <2> DEFINE a == i + from(w)
               b == k + from(v)
    <2>1. w # v \/ a # b
      OBVIOUS
    <2>2. /\ a \in 1..Len(batch[w]) /\ batch'[w][i] = batch[w][a]
          /\ b \in 1..Len(batch[v]) /\ batch'[v][k] = batch[v][b]
      BY <1>2
    <2> HIDE DEF a, b
    <2> QED
      BY <2>1, <2>2 DEF ClaimsDiffer
  <1> QED
    BY <1>3, <1>4

-----------------------------------------------------------------------------
(* The table after each statement that claims nothing.                     *)

LEMMA SameTable ==
    ASSUME TypeOK, RowsOK
    PROVE  QuietTable(job)
  BY DEF QuietTable, QuietRow, TypeOK, RowsOK

LEMMA CreatedTable ==
    ASSUME TypeOK, RowsOK, NEW j \in Jobs, NEW k \in Kinds, NEW t \in Nat,
           job[j].status = "absent"
    PROVE  QuietTable(Created(j, k, t))
  <1> DEFINE new == [EmptyRow EXCEPT !.status = "pending", !.kind = k, !.runAt = t]
  <1>1. MaxAttempts[k] \in 1..AttemptLimit /\ 0 \in 0..AttemptLimit
    BY AttemptsAssumption
  <1>2. new \in Row
    BY <1>1, KindsAssumption DEF Row, EmptyRow, Active, Terminal
  <1>3. RowOK(new)
    BY <1>1 DEF RowOK, EmptyRow
  <1>4. Created(j, k, t) = [job EXCEPT ![j] = new]
    BY DEF Created
  <1> HIDE DEF new
  <1> QED
    BY <1>2, <1>3, <1>4, SameTable DEF QuietTable, TypeOK

LEMMA ReapedTable ==
    ASSUME TypeOK, RowsOK, NEW t \in Nat
    PROVE  QuietTable(ReapExpiredLeases(t))
  <1> SUFFICES ASSUME NEW j \in Jobs, Expired(job[j], t)
               PROVE  LET new == [Unlocked(job[j]) EXCEPT !.status = "pending"]
                      IN  new \in Row /\ RowOK(new) /\ QuietRow(job[j], new)
    BY SameTable DEF ReapExpiredLeases, QuietTable, TypeOK
  <1>1. job[j] \in Row /\ RowOK(job[j]) /\ job[j].status = "running"
    BY DEF TypeOK, RowsOK, Expired
  <1> QED
    BY <1>1 DEF Unlocked, Row, RowOK, QuietRow, Active, Terminal

LEMMA ExtendedTable ==
    ASSUME TypeOK, RowsOK, NEW c \in Claim, job[c.id].status = "running"
    PROVE  QuietTable(ExtendLease(c))
  <1> DEFINE new == [job[c.id] EXCEPT !.lockedAt = now]
  <1>1. c.id \in Jobs
    BY DEF Claim
  <1>2. job[c.id] \in Row /\ RowOK(job[c.id]) /\ now \in Nat
    BY <1>1 DEF TypeOK, RowsOK
  <1>3. new \in Row /\ RowOK(new) /\ QuietRow(job[c.id], new)
    BY <1>2 DEF Row, RowOK, QuietRow
  <1> HIDE DEF new
  <1>4. ExtendLease(c) = [job EXCEPT ![c.id] = new]
    BY <1>1 DEF ExtendLease, TypeOK, new
  <1> QED
    BY <1>1, <1>3, <1>4, SameTable DEF QuietTable, TypeOK

\* The writes of a claim's holder: a success, a retry and a dead letter.
LEMMA HolderWrites ==
    ASSUME TypeOK, RowsOK, NEW w \in Runners, NEW c \in Claim,
           ClaimOK(c, job[c.id])
    PROVE  /\ QuietTable(MarkSucceeded(w, c))
           /\ QuietTable(RetryOrDeadLetter(w, c))
           /\ c.kind \notin Registered[w] => QuietTable(MarkDead(w, c, c.attempts + 1))
  <1> DEFINE old == job[c.id]
             unlocked == Unlocked(old)
  <1>1. /\ c.id \in Jobs /\ c.kind \in Kinds
        /\ c.attempts \in Nat /\ c.attempts + 1 \in 1..AttemptLimit
        /\ c.attempts + 1 \in 0..AttemptLimit
        /\ MaxAttempts[c.kind] \in 1..AttemptLimit
    BY AttemptsAssumption DEF Claim, ClaimOK
  <1>2. old \in Row /\ RowOK(old) /\ old.kind = c.kind
    BY <1>1 DEF TypeOK, RowsOK, ClaimOK
  <1>3. ASSUME NEW new \in Row, RowOK(new), QuietRow(old, new)
        PROVE  QuietTable([job EXCEPT ![c.id] = new])
    BY <1>1, <1>3, SameTable DEF QuietTable, TypeOK
  <1>4. QuietTable(MarkSucceeded(w, c))
    <2> DEFINE new == [unlocked EXCEPT !.status = "succeeded"]
    <2>1. new \in Row /\ RowOK(new) /\ QuietRow(old, new)
      BY <1>2 DEF Row, RowOK, QuietRow, Unlocked, Active, Terminal
    <2> QED
      BY <1>3, <2>1, SameTable, <1>1 DEF MarkSucceeded, TypeOK
  <1>5. ASSUME FinalAttempt(c) \/ c.kind \notin Registered[w]
        PROVE  QuietTable(MarkDead(w, c, c.attempts + 1))
    <2> DEFINE new == [unlocked EXCEPT !.status = "dead", !.attempts = c.attempts + 1]
    <2>1. FinalAttempt(c) => c.attempts + 1 = MaxAttempts[c.kind]
      BY <1>1 DEF ClaimOK, FinalAttempt
    <2>a. new \in Row
      BY <1>1, <1>2 DEF Row, Unlocked, Active, Terminal
    <2>b. QuietRow(old, new)
      BY <1>2 DEF Row, QuietRow, Unlocked
    <2>2. new \in Row /\ QuietRow(old, new)
      BY <2>a, <2>b
    <2>3. RowOK(new)
      BY <1>1, <1>2, <1>5, <2>1 DEF Row, RowOK, Unlocked, Active
    <2> QED
      BY <1>3, <2>2, <2>3, SameTable, <1>1 DEF MarkDead, TypeOK
  <1>6. ASSUME ~FinalAttempt(c)
        PROVE  QuietTable(MarkForRetry(w, c, now + Delay[c.attempts + 1], c.attempts + 1))
    <2> DEFINE t == now + Delay[c.attempts + 1]
               new == [unlocked EXCEPT !.status = "pending", !.runAt = t,
                                       !.attempts = c.attempts + 1]
    <2>1. t \in Nat
      BY <1>1, AttemptsAssumption DEF TypeOK
    <2>a. new \in Row
      BY <1>1, <1>2, <2>1 DEF Row, Unlocked, Active, Terminal
    <2>b. QuietRow(old, new)
      BY <1>2 DEF Row, QuietRow, Unlocked
    <2>2. new \in Row /\ QuietRow(old, new)
      BY <2>a, <2>b
    <2>3. RowOK(new)
      BY <1>1, <1>2, <1>6 DEF Row, RowOK, Unlocked, Active, FinalAttempt
    <2> QED
      BY <1>3, <2>2, <2>3, SameTable, <1>1 DEF MarkForRetry, TypeOK
  <1> QED
    BY <1>4, <1>5, <1>6 DEF RetryOrDeadLetter

-----------------------------------------------------------------------------
(* The steps.                                                              *)

\* The entry a runner is executing.
LEMMA CurrentClaim ==
    ASSUME IInv, NEW w \in Runners, pc[w] \in {"run", "wait"}
    PROVE  /\ Current(w) \in Claim
           /\ ClaimOK(Current(w), job[Current(w).id])
           /\ batch[w] # << >> /\ batch[w] \in Seq(Claim)
  <1>1. batch[w] # << >> /\ batch[w] \in Seq(Claim)
    BY DEF IInv, TypeOK, BatchNotEmpty
  <1>2. Head(batch[w]) \in Claim /\ Head(batch[w]) = batch[w][1] /\ 1 \in 1..Len(batch[w])
    BY <1>1, TailFacts
  <1> QED
    BY <1>1, <1>2 DEF Current, IInv, ClaimsOK

\* Everything but the table and the claims, for a step that claims nothing.
Rest ==
    /\ now \in Nat
    /\ pc \in [Runners -> PCs]
    /\ cycleNow \in [Runners -> Nat]
    /\ batch \in [Runners -> Seq(Claim)]
    /\ stopping \in [Runners -> BOOLEAN]
    /\ calls \subseteq Call
    /\ BatchNotEmpty

LEMMA QuietInduction ==
    ASSUME IInv, QuietTable(job'), BatchShrinks, Rest'
    PROVE  IInv'
  <1>1. ClaimsOK' /\ ClaimsDiffer'
    BY QuietKeepsClaims DEF IInv
  <1>2. RowsOK' /\ TypeOK'
    BY DEF QuietTable, RowsOK, TypeOK, Rest
  <1> QED
    BY <1>1, <1>2 DEF IInv, Rest

LEMMA RestNow ==
    ASSUME IInv
    PROVE  Rest
  BY DEF IInv, TypeOK, Rest

LEMMA AdvanceRest ==
    ASSUME IInv, NEW w \in Runners, pc[w] \in {"run", "wait"}, Advance(w),
           calls' \subseteq Call
    PROVE  BatchShrinks /\ Rest'
  <1>1. /\ batch[w] \in Seq(Claim) /\ batch[w] # << >>
        /\ Tail(batch[w]) \in Seq(Claim)
        /\ Len(batch[w]) # 1 => Tail(batch[w]) # << >>
    BY CurrentClaim, TailFacts
  <1>2. Rest
    BY RestNow
  <1>3. BatchShrinks
    BY <1>1, <1>2 DEF Advance, BatchShrinks, Rest
  <1>4. BatchNotEmpty'
    BY <1>1, <1>2 DEF Advance, BatchNotEmpty, Rest
  <1>5. batch' \in [Runners -> Seq(Claim)] /\ pc' \in [Runners -> PCs]
    BY <1>1, <1>2 DEF Advance, Rest, PCs
  <1> QED
    BY <1>2, <1>3, <1>4, <1>5 DEF Advance, Rest

LEMMA GoDownRest ==
    ASSUME IInv, NEW w \in Runners, GoDown(w)
    PROVE  BatchShrinks /\ Rest' /\ job' = job
  <1>1. Rest
    BY RestNow
  <1>2. << >> \in Seq(Claim)
    BY EmptySeq
  <1>3. BatchShrinks
    BY <1>1 DEF GoDown, BatchShrinks, Rest
  <1>4. BatchNotEmpty'
    BY <1>1 DEF GoDown, BatchNotEmpty, Rest
  <1>5. batch' \in [Runners -> Seq(Claim)] /\ pc' \in [Runners -> PCs]
    BY <1>1, <1>2 DEF GoDown, Rest, PCs
  <1> QED
    BY <1>1, <1>3, <1>4, <1>5 DEF GoDown, Rest

\* A runner's move that keeps its batch.
LEMMA KeepsBatch ==
    ASSUME Rest, batch' = batch, BatchNotEmpty', now' \in Nat,
           pc' \in [Runners -> PCs], cycleNow' \in [Runners -> Nat],
           stopping' \in [Runners -> BOOLEAN], calls' \subseteq Call
    PROVE  BatchShrinks /\ Rest'
  BY DEF Rest, BatchShrinks

LEMMA CallRest ==
    ASSUME IInv, NEW call \in calls, CallStep(call)
    PROVE  UNCHANGED <<now, runnerVars>> /\ calls' \subseteq Call
  <1> USE DEF IInv, TypeOK, runnerVars
  <1>1. \A st \in Stages : Moves(call, st) => calls' \subseteq Call
    BY DEF Moves, Call
  <1>2. CASE WorkSucceeds(call)
    BY <1>1, <1>2 DEF WorkSucceeds, Stages
  <1>3. CASE WorkFails(call)
    BY <1>1, <1>3 DEF WorkFails, Stages
  <1>4. CASE WorkPanics(call)
    BY <1>1, <1>4 DEF WorkPanics, Stages
  <1>5. CASE EnqueueNext(call)
    BY <1>1, <1>5 DEF EnqueueNext, Stages
  <1>6. CASE EnqueueNextFails(call)
    BY <1>1, <1>6 DEF EnqueueNextFails, Stages
  <1>7. CASE Discarded(call)
    BY <1>7 DEF Discarded
  <1> QED
    BY <1>2, <1>3, <1>4, <1>5, <1>6, <1>7 DEF CallStep

LEMMA CallTable ==
    ASSUME IInv, NEW call \in calls, CallStep(call)
    PROVE  QuietTable(job')
  <1>1. TypeOK /\ RowsOK
    BY DEF IInv
  <1>2. CASE EnqueueNext(call)
    <2>1. PICK j \in Jobs : Fresh(j) /\ job' = Created(j, Recurring, now + Interval)
      BY <1>2 DEF EnqueueNext
    <2>2. job[j].status = "absent" /\ now + Interval \in Nat
      BY <1>1, <2>1, TimeAssumption DEF Fresh, TypeOK
    <2> QED
      BY <1>1, <2>1, <2>2, KindsAssumption, CreatedTable
  <1>3. CASE ~EnqueueNext(call)
    <2>1. job' = job
      BY <1>3 DEF CallStep, WorkSucceeds, WorkFails, WorkPanics, EnqueueNextFails, Discarded
    <2> QED
      BY <1>1, <2>1, SameTable
  <1> QED
    BY <1>2, <1>3
-----------------------------------------------------------------------------
(* The step that claims.                                                   *)

\* What ClaimDue chooses: a sequence of different pending rows.
LEMMA ClaimOrdersFacts ==
    ASSUME NEW t, NEW s \in ClaimOrders(t)
    PROVE  \E n \in Nat : /\ DOMAIN s = 1..n
                          /\ s = << >> => n = 0
                          /\ \A i \in 1..n : s[i] \in Jobs /\ job[s[i]].status = "pending"
                          /\ \A i, k \in 1..n : i # k => s[i] # s[k]
  <1>1. PICK n \in 0..Batch : s \in [1..n -> Due(t)]
    BY DEF ClaimOrders
  <1>2. n \in Nat /\ DOMAIN s = 1..n
    BY <1>1, TimeAssumption
  <1>3. \A i, k \in DOMAIN s : i < k => s[i] # s[k]
    BY DEF ClaimOrders
  <1>4. \A i, k \in 1..n : i # k => s[i] # s[k]
    BY <1>2, <1>3
  <1>5. \A i \in 1..n : s[i] \in Jobs /\ job[s[i]].status = "pending"
    BY <1>1 DEF Due
  <1>6. s = << >> => n = 0
    BY <1>2
  <1> QED
    BY <1>2, <1>4, <1>5, <1>6

LEMMA ClaimInduction ==
    ASSUME IInv, NEW w \in Runners, ClaimDue(w)
    PROVE  IInv'
  <1>1. Rest /\ TypeOK /\ RowsOK /\ ClaimsOK /\ ClaimsDiffer
    BY RestNow DEF IInv
  <1> DEFINE t == cycleNow[w]
  <1>2. PICK s \in ClaimOrders(t) :
            /\ job' = Claimed(w, s, t)
            /\ batch' = [batch EXCEPT ![w] = [i \in DOMAIN s |-> ClaimOf(s[i])]]
            /\ pc' = [pc EXCEPT ![w] = IF s = << >> THEN "idle" ELSE "run"]
            /\ cycleNow' = [cycleNow EXCEPT ![w] = 0]
    BY DEF ClaimDue
  <1>3. PICK n \in Nat : /\ DOMAIN s = 1..n
                         /\ s = << >> => n = 0
                         /\ \A i \in 1..n : s[i] \in Jobs /\ job[s[i]].status = "pending"
                         /\ \A i, k \in 1..n : i # k => s[i] # s[k]
    BY ClaimOrdersFacts
  <1> DEFINE taken == {s[i] : i \in DOMAIN s}
             new(j) == [job[j] EXCEPT !.status = "running", !.lockedBy = w,
                                      !.lockedAt = t, !.gen = @ + 1]
  <1>4. \A j \in Jobs : job[j] \in Row /\ RowOK(job[j])
    BY <1>1 DEF TypeOK, RowsOK
  <1>5. t \in Nat
    BY <1>1 DEF Rest
  <1>6. \A j \in Jobs : job'[j] = IF j \in taken THEN new(j) ELSE job[j]
    BY <1>2 DEF Claimed
  <1>7. \A j \in taken : j \in Jobs /\ job[j].status = "pending"
    BY <1>3
  <1>8. \A j \in taken : /\ new(j) \in Row
                         /\ new(j).status = "running"
                         /\ new(j).gen = job[j].gen + 1
                         /\ new(j).kind = job[j].kind
                         /\ new(j).attempts = job[j].attempts
                         /\ job[j].attempts < MaxAttempts[job[j].kind]
    <2> SUFFICES ASSUME NEW j \in taken
                 PROVE  /\ new(j) \in Row
                        /\ new(j).status = "running"
                        /\ new(j).gen = job[j].gen + 1
                        /\ new(j).kind = job[j].kind
                        /\ new(j).attempts = job[j].attempts
                        /\ job[j].attempts < MaxAttempts[job[j].kind]
      OBVIOUS
    <2>1. job[j] \in Row /\ RowOK(job[j]) /\ job[j].status = "pending"
      BY <1>4, <1>7
    <2>2. job[j].attempts < MaxAttempts[job[j].kind]
      BY <2>1 DEF RowOK, Active
    <2> HIDE DEF t, taken
    <2>3. new(j) \in Row
      <3>1. /\ job[j].kind \in Kinds /\ job[j].runAt \in Nat /\ job[j].gen + 1 \in Nat
            /\ job[j].attempts \in 0..AttemptLimit
        BY <2>1 DEF Row
      <3>2. \A r \in Row, g \in Nat, x \in Nat :
              [r EXCEPT !.status = "running", !.lockedBy = w, !.lockedAt = x,
                        !.gen = g] \in Row
        BY DEF Row, Active
      <3> QED
        BY <1>5, <2>1, <3>1, <3>2
    <2> QED
      BY <1>5, <2>1, <2>2, <2>3 DEF Row
  <1>9. \A i \in 1..n : /\ ClaimOf(s[i]) \in Claim
                        /\ ClaimOf(s[i]).id = s[i]
                        /\ ClaimOf(s[i]).gen = job[s[i]].gen + 1
                        /\ ClaimOK(ClaimOf(s[i]), new(s[i]))
    <2> SUFFICES ASSUME NEW i \in 1..n
                 PROVE  /\ ClaimOf(s[i]) \in Claim
                        /\ ClaimOf(s[i]).id = s[i]
                        /\ ClaimOf(s[i]).gen = job[s[i]].gen + 1
                        /\ ClaimOK(ClaimOf(s[i]), new(s[i]))
      OBVIOUS
    <2> DEFINE j == s[i]
    <2>1. j \in Jobs /\ j \in taken /\ job[j] \in Row
      BY <1>3, <1>4
    <2>2. /\ new(j).status = "running"
          /\ new(j).gen = job[j].gen + 1
          /\ new(j).kind = job[j].kind
          /\ new(j).attempts = job[j].attempts
          /\ job[j].attempts < MaxAttempts[job[j].kind]
      BY <1>8, <2>1
    <2> HIDE DEF j, new, taken, t
    <2>3. ClaimOf(j) \in Claim
      BY <2>1 DEF ClaimOf, Claim, Row
    <2>4. ClaimOf(j).gen <= new(j).gen
      BY <2>1, <2>2 DEF ClaimOf, Row
    <2>5. ClaimOK(ClaimOf(j), new(j))
      BY <2>2, <2>4 DEF ClaimOf, ClaimOK
    <2> QED
      BY <2>3, <2>5 DEF ClaimOf, j
  <1> HIDE DEF new, t
  <1>10. RowsOK' /\ job' \in [Jobs -> Row]
    <2>1. job' \in [Jobs -> Row]
      BY <1>2, <1>4, <1>6, <1>8 DEF Claimed
    <2>2. \A j \in Jobs : RowOK(job'[j])
      BY <1>4, <1>6, <1>8 DEF RowOK
    <2> QED
      BY <2>1, <2>2 DEF RowsOK
  <1>11. /\ Len(batch'[w]) = n
         /\ batch'[w] \in Seq(Claim)
         /\ \A i \in 1..n : batch'[w][i] = ClaimOf(s[i])
    <2>1. batch'[w] = [i \in 1..n |-> ClaimOf(s[i])]
      BY <1>1, <1>2, <1>3 DEF Rest
    <2> QED
      BY <1>3, <1>9, <2>1, IsASeq, LenProperties
  <1>12. \A v \in Runners \ {w} : batch'[v] = batch[v]
    BY <1>1, <1>2 DEF Rest
  <1>13. \A v \in Runners \ {w} : \A i \in 1..Len(batch[v]) :
            /\ batch[v][i] \in Claim
            /\ batch[v][i].id \in Jobs
            /\ batch[v][i].gen \in Nat
            /\ batch[v][i].gen <= job[batch[v][i].id].gen
            /\ ClaimOK(batch[v][i], job[batch[v][i].id])
    <2> SUFFICES ASSUME NEW v \in Runners \ {w}, NEW i \in 1..Len(batch[v])
                 PROVE  LET c == batch[v][i] IN
                        /\ c \in Claim /\ c.id \in Jobs /\ c.gen \in Nat
                        /\ c.gen <= job[c.id].gen /\ ClaimOK(c, job[c.id])
      OBVIOUS
    <2>1. batch[v][i] \in Claim
      BY <1>1, ElementOfSeq DEF Rest
    <2> QED
      BY <1>1, <2>1 DEF Claim, ClaimsOK, ClaimOK
  <1>14. ClaimsOK'
    <2> SUFFICES ASSUME NEW v \in Runners, NEW i \in 1..Len(batch'[v])
                 PROVE  ClaimOK(batch'[v][i], job'[batch'[v][i].id])
      BY DEF ClaimsOK
    <2>1. CASE v = w
      <3>1. i \in 1..n /\ batch'[v][i] = ClaimOf(s[i]) /\ s[i] \in taken
        BY <1>3, <1>11, <2>1
      <3>2. job'[s[i]] = new(s[i])
        BY <1>6, <1>7, <3>1
      <3> QED
        BY <1>9, <3>1, <3>2
    <2>2. CASE v # w
      <3> DEFINE c == batch[v][i]
      <3>1. /\ batch'[v][i] = c /\ c \in Claim /\ c.id \in Jobs /\ c.gen \in Nat
            /\ c.gen <= job[c.id].gen /\ ClaimOK(c, job[c.id])
        BY <1>12, <1>13, <2>2
      <3> HIDE DEF c
      <3>2. CASE c.id \in taken
        <4>1. /\ job'[c.id].gen = job[c.id].gen + 1
              /\ job'[c.id].kind = job[c.id].kind
              /\ job'[c.id].status = "running"
          BY <1>6, <1>8, <3>1, <3>2
        <4>2. job[c.id].gen \in Nat
          BY <1>4, <3>1 DEF Row
        <4> QED
          BY <3>1, <4>1, <4>2 DEF ClaimOK
      <3>3. CASE c.id \notin taken
        BY <1>6, <3>1, <3>3
      <3> QED
        BY <3>2, <3>3
    <2> QED
      BY <2>1, <2>2
  <1>15. ClaimsDiffer'
    <2> SUFFICES ASSUME NEW u \in Runners, NEW v \in Runners,
                        NEW i \in 1..Len(batch'[u]), NEW k \in 1..Len(batch'[v]),
                        u # v \/ i # k, batch'[u][i].id = batch'[v][k].id
                 PROVE  batch'[u][i].gen # batch'[v][k].gen
      BY DEF ClaimsDiffer
    <2>1. ASSUME NEW a \in 1..n, NEW x \in Runners \ {w}, NEW b \in 1..Len(batch[x]),
                 ClaimOf(s[a]).id = batch[x][b].id
          PROVE  ClaimOf(s[a]).gen # batch[x][b].gen
      <3>1. s[a] \in Jobs /\ job[s[a]].gen \in Nat
        BY <1>3, <1>4 DEF Row
      <3> QED
        BY <1>9, <1>13, <2>1, <3>1
    <2>2. CASE u = w /\ v = w
      BY <1>3, <1>9, <1>11, <2>2
    <2>3. CASE u = w /\ v # w
      BY <1>11, <1>12, <2>1, <2>3
    <2>4. CASE u # w /\ v = w
      BY <1>11, <1>12, <2>1, <2>4
    <2>5. CASE u # w /\ v # w
      BY <1>1, <1>12, <2>5 DEF ClaimsDiffer
    <2> QED
      BY <2>2, <2>3, <2>4, <2>5
  <1>16. BatchNotEmpty'
    <2> SUFFICES ASSUME NEW v \in Runners, pc'[v] \in {"run", "wait"}
                 PROVE  batch'[v] # << >>
      BY DEF BatchNotEmpty
    <2>1. CASE v = w
      <3>1. s # << >>
        BY <1>1, <1>2, <2>1 DEF Rest
      <3>2. n # 0
        BY <1>3, <3>1, EmptySeq, SMT
      <3> QED
        BY <1>11, <2>1, <3>2
    <2>2. CASE v # w
      BY <1>1, <1>2, <2>2 DEF Rest, BatchNotEmpty
    <2> QED
      BY <2>1, <2>2
  <1>17. Rest'
    <2>1. batch' \in [Runners -> Seq(Claim)]
      BY <1>1, <1>2, <1>11 DEF Rest
    <2> QED
      BY <1>1, <1>2, <1>16, <2>1 DEF ClaimDue, Rest, PCs
  <1> QED
    BY <1>10, <1>14, <1>15, <1>16, <1>17 DEF IInv, TypeOK, Rest
-----------------------------------------------------------------------------
(* The other steps of a runner.                                            *)

\* The steps of an entry that end in Advance.
LEMMA EntryInduction ==
    ASSUME IInv, NEW w \in Runners,
           \/ DeadLetterUnregistered(w) \/ Settle(w) \/ SettleError(w)
           \/ SettleCancelled(w) \/ LeaveJob(w)
    PROVE  IInv'
  <1> DEFINE c == Current(w)
  <1>1. TypeOK /\ RowsOK
    BY DEF IInv
  <1>2. pc[w] \in {"run", "wait"} /\ Advance(w) /\ calls' \subseteq Call
    BY <1>1 DEF DeadLetterUnregistered, Settle, SettleError, SettleCancelled,
                LeaveJob, TypeOK
  <1>3. c \in Claim /\ ClaimOK(c, job[c.id])
    BY <1>2, CurrentClaim
  <1>4. /\ QuietTable(job)
        /\ QuietTable(MarkSucceeded(w, c))
        /\ QuietTable(RetryOrDeadLetter(w, c))
        /\ c.kind \notin Registered[w] => QuietTable(MarkDead(w, c, c.attempts + 1))
    BY <1>1, <1>3, SameTable, HolderWrites
  <1>5. \/ job' = job
        \/ job' = MarkSucceeded(w, c)
        \/ job' = RetryOrDeadLetter(w, c)
        \/ c.kind \notin Registered[w] /\ job' = MarkDead(w, c, c.attempts + 1)
    BY DEF DeadLetterUnregistered, Settle, SettleError, SettleCancelled, LeaveJob
  <1>6. QuietTable(job')
    BY <1>4, <1>5
  <1> QED
    BY <1>2, <1>6, AdvanceRest, QuietInduction

\* The steps that leave the batches alone.
LEMMA LoopInduction ==
    ASSUME IInv, NEW w \in Runners,
           \/ StartRunner(w) \/ Reap(w) \/ ClaimError(w) \/ Invoke(w)
           \/ Heartbeat(w) \/ Shutdown(w)
    PROVE  IInv'
  <1>1. TypeOK /\ RowsOK /\ Rest /\ BatchNotEmpty
    BY RestNow DEF IInv
  <1> SUFFICES QuietTable(job') /\ BatchShrinks /\ Rest'
    BY QuietInduction
  <1>2. CASE StartRunner(w)
    <2>1. QuietTable(job')
      <3>1. CASE job' = job
        BY <1>1, <3>1, SameTable
      <3>2. CASE job' # job
        <4>1. PICK j \in Jobs : Fresh(j) /\ job' = Created(j, Recurring, now)
          BY <1>2, <3>2 DEF StartRunner
        <4> QED
          BY <1>1, <4>1, KindsAssumption, CreatedTable DEF Fresh, TypeOK
      <3> QED
        BY <3>1, <3>2
    <2>2. BatchNotEmpty'
      BY <1>1, <1>2 DEF StartRunner, BatchNotEmpty, Rest
    <2>3. pc' \in [Runners -> PCs]
      BY <1>1, <1>2 DEF StartRunner, Rest, PCs
    <2> QED
      BY <1>1, <1>2, <2>1, <2>2, <2>3, KeepsBatch DEF StartRunner, Rest
  <1>3. CASE Reap(w)
    <2>1. QuietTable(job')
      BY <1>1, <1>3, ReapedTable DEF Reap, TypeOK
    <2>2. BatchNotEmpty'
      BY <1>1, <1>3 DEF Reap, BatchNotEmpty, Rest
    <2>3. pc' \in [Runners -> PCs] /\ cycleNow' \in [Runners -> Nat]
      BY <1>1, <1>3 DEF Reap, Rest, PCs
    <2> QED
      BY <1>1, <1>3, <2>1, <2>2, <2>3, KeepsBatch DEF Reap, Rest
  <1>4. CASE ClaimError(w)
    <2>1. QuietTable(job')
      BY <1>1, <1>4, SameTable DEF ClaimError
    <2>2. BatchNotEmpty'
      BY <1>1, <1>4 DEF ClaimError, BatchNotEmpty, Rest
    <2>3. pc' \in [Runners -> PCs] /\ cycleNow' \in [Runners -> Nat]
      BY <1>1, <1>4 DEF ClaimError, Rest, PCs
    <2> QED
      BY <1>1, <1>4, <2>1, <2>2, <2>3, KeepsBatch DEF ClaimError, Rest
  <1>5. CASE Invoke(w)
    <2>1. QuietTable(job')
      BY <1>1, <1>5, SameTable DEF Invoke
    <2>2. BatchNotEmpty' /\ Current(w) \in Claim
      <3>1. pc[w] \in {"run", "wait"}
        BY <1>5 DEF Invoke
      <3> QED
        BY <1>1, <1>5, <3>1, CurrentClaim DEF Invoke, BatchNotEmpty, Rest
    <2>3. pc' \in [Runners -> PCs] /\ calls' \subseteq Call
      BY <1>1, <1>5, <2>2 DEF Invoke, Rest, PCs, CallOf, Call, Stages
    <2> QED
      BY <1>1, <1>5, <2>1, <2>2, <2>3, KeepsBatch DEF Invoke, Rest
  <1>6. CASE Heartbeat(w)
    <2>1. QuietTable(job')
      <3>1. pc[w] \in {"run", "wait"} /\ job[Current(w).id].status = "running"
        BY <1>6 DEF Heartbeat, Owned
      <3> QED
        BY <1>1, <1>6, <3>1, CurrentClaim, ExtendedTable DEF Heartbeat
    <2>2. UNCHANGED <<now, pc, cycleNow, batch, stopping, calls>>
      BY <1>6 DEF Heartbeat, runnerVars
    <2>3. BatchNotEmpty'
      BY <1>1, <2>2 DEF BatchNotEmpty
    <2> QED
      BY <1>1, <2>1, <2>2, <2>3, KeepsBatch DEF Rest
  <1>7. CASE Shutdown(w)
    <2>1. QuietTable(job')
      BY <1>1, <1>7, SameTable DEF Shutdown
    <2>2. BatchNotEmpty'
      BY <1>1, <1>7 DEF Shutdown, BatchNotEmpty
    <2>3. stopping' \in [Runners -> BOOLEAN]
      BY <1>1, <1>7 DEF Shutdown, Rest
    <2> QED
      BY <1>1, <1>7, <2>1, <2>2, <2>3, KeepsBatch DEF Shutdown, Rest
  <1> QED
    BY <1>2, <1>3, <1>4, <1>5, <1>6, <1>7

LEMMA DownInduction ==
    ASSUME IInv, NEW w \in Runners, Stop(w) \/ Crash(w)
    PROVE  IInv'
  <1>1. GoDown(w)
    BY DEF Stop, Crash
  <1>2. QuietTable(job')
    BY <1>1, GoDownRest, SameTable DEF IInv
  <1> QED
    BY <1>1, <1>2, GoDownRest, QuietInduction

-----------------------------------------------------------------------------
(* The theorems.                                                           *)

LEMMA InitIInv ==
    ASSUME Init
    PROVE  IInv
  <1>1. EmptyRow \in Row /\ RowOK(EmptyRow)
    BY KindsAssumption, AttemptsAssumption DEF EmptyRow, Row, RowOK, Active, Terminal
  <1>2. << >> \in Seq(Claim) /\ Len(<< >>) = 0
    BY EmptySeq
  <1>3. TypeOK
    BY <1>1, <1>2 DEF Init, TypeOK, PCs
  <1>4. RowsOK
    BY <1>1 DEF Init, RowsOK
  <1>5. \A w \in Runners : batch[w] = << >> /\ pc[w] = "down"
    BY DEF Init
  <1>6. BatchNotEmpty /\ ClaimsOK /\ ClaimsDiffer
    BY <1>2, <1>5 DEF BatchNotEmpty, ClaimsOK, ClaimsDiffer
  <1> QED
    BY <1>3, <1>4, <1>6 DEF IInv

LEMMA StepIInv ==
    ASSUME IInv, [Next]_vars
    PROVE  IInv'
  <1>1. TypeOK /\ RowsOK /\ Rest /\ BatchNotEmpty
    BY RestNow DEF IInv
  <1>2. CASE Tick
    <2>1. QuietTable(job')
      BY <1>1, <1>2, SameTable DEF Tick
    <2>2. BatchNotEmpty' /\ now' \in Nat
      BY <1>1, <1>2 DEF Tick, BatchNotEmpty, runnerVars, TypeOK
    <2> QED
      BY <1>1, <1>2, <2>1, <2>2, KeepsBatch, QuietInduction DEF Tick, runnerVars, Rest
  <1>3. ASSUME NEW j \in Jobs, NEW k \in Kinds, EnqueueJob(j, k)
        PROVE  IInv'
    <2>1. QuietTable(job')
      BY <1>1, <1>3, CreatedTable DEF EnqueueJob, Fresh, TypeOK
    <2>2. BatchNotEmpty'
      BY <1>1, <1>3 DEF EnqueueJob, BatchNotEmpty, runnerVars
    <2> QED
      BY <1>1, <1>3, <2>1, <2>2, KeepsBatch, QuietInduction DEF EnqueueJob, runnerVars, Rest
  <1>4. ASSUME NEW w \in Runners, RunnerStep(w)
        PROVE  IInv'
    BY <1>4, ClaimInduction, EntryInduction, LoopInduction, DownInduction DEF RunnerStep
  <1>5. ASSUME NEW call \in calls, CallStep(call)
        PROVE  IInv'
    <2>1. QuietTable(job') /\ UNCHANGED <<now, runnerVars>> /\ calls' \subseteq Call
      BY <1>5, CallTable, CallRest
    <2>2. BatchNotEmpty'
      BY <1>1, <2>1 DEF BatchNotEmpty, runnerVars
    <2> QED
      BY <1>1, <2>1, <2>2, KeepsBatch, QuietInduction DEF runnerVars, Rest
  <1>6. CASE UNCHANGED vars
    BY <1>6 DEF vars, IInv, TypeOK, BatchNotEmpty, RowsOK, ClaimsOK, ClaimsDiffer
  <1> QED
    BY <1>2, <1>3, <1>4, <1>5, <1>6 DEF Next

\* The inductive invariant holds in every reachable state.
THEOREM Invariance == Spec => []IInv
  <1>1. Init => IInv
    BY InitIInv
  <1>2. IInv /\ [Next]_vars => IInv'
    BY StepIInv
  <1> QED
    BY <1>1, <1>2, PTL DEF Spec

\* Type correctness of the job table, the batches and the handler goroutines.
THEOREM TypeCorrect == Spec => []TypeOK
  <1>1. IInv => TypeOK
    BY DEF IInv
  <1> QED
    BY <1>1, Invariance, PTL

\* Of all the claims of a job that runners hold, at most one can write its
\* outcome: the claims differ in their generation, and ownedLease compares it.
THEOREM FencingHolds == Spec => []OneWriter
  <1>1. IInv => OneWriter
    <2> SUFFICES ASSUME IInv, NEW h1 \in Held, NEW h2 \in Held, h1 # h2,
                        Owned(h1[1], HeldClaim(h1)), Owned(h2[1], HeldClaim(h2)),
                        HeldClaim(h1).id = HeldClaim(h2).id
                 PROVE  FALSE
      BY DEF OneWriter
    <2>1a. PICK w \in Runners : \E i \in 1..Len(batch[w]) : h1 = <<w, i>>
      BY DEF Held
    <2>1. PICK i \in 1..Len(batch[w]) : h1 = <<w, i>>
      BY <2>1a
    <2>2a. PICK v \in Runners : \E k \in 1..Len(batch[v]) : h2 = <<v, k>>
      BY DEF Held
    <2>2. PICK k \in 1..Len(batch[v]) : h2 = <<v, k>>
      BY <2>2a
    <2>3. w # v \/ i # k
      BY <2>1, <2>2
    <2>4. batch[w][i].gen # batch[v][k].gen
      BY <2>1, <2>2, <2>3 DEF IInv, ClaimsDiffer, HeldClaim
    <2> QED
      BY <2>1, <2>2, <2>4 DEF Owned, HeldClaim
  <1> QED
    BY <1>1, Invariance, PTL

\* A claim that can write holds a current copy of its row.
THEOREM CopyIsAlwaysCurrent == Spec => []CopyIsCurrent
  <1>1. IInv => CopyIsCurrent
    <2> SUFFICES ASSUME IInv, NEW h \in Held, Owned(h[1], HeldClaim(h))
                 PROVE  /\ HeldClaim(h).attempts = job[HeldClaim(h).id].attempts
                        /\ HeldClaim(h).kind = job[HeldClaim(h).id].kind
      BY DEF CopyIsCurrent
    <2>1a. PICK w \in Runners : \E i \in 1..Len(batch[w]) : h = <<w, i>>
      BY DEF Held
    <2>1. PICK i \in 1..Len(batch[w]) : h = <<w, i>>
      BY <2>1a
    <2>2. ClaimOK(batch[w][i], job[batch[w][i].id])
      BY <2>1 DEF IInv, ClaimsOK
    <2> QED
      BY <2>1, <2>2 DEF ClaimOK, Owned, HeldClaim
  <1> QED
    BY <1>1, Invariance, PTL

\* Retries are bounded by max_attempts, and a job dies only when it used them
\* up or some runner has no handler for its kind.
THEOREM AttemptsAreBounded == Spec => []AttemptsBounded
  <1>1. IInv => AttemptsBounded
    BY DEF IInv, RowsOK, RowOK, AttemptsBounded
  <1> QED
    BY <1>1, Invariance, PTL
-----------------------------------------------------------------------------
(* The action properties.  A table is compared with the one before a step: *)
(* what may happen to a row's attempts, and to its status.                 *)

Charged(old, new) ==
    \/ new.attempts = old.attempts
    \/ /\ new.attempts = old.attempts + 1
       /\ old.status = "running" /\ new.status # "running"

ChargedTable(tab) == \A j \in Jobs : Charged(job[j], tab[j])

\* No row of the table succeeded since.
NoSuccess(tab) ==
    \A j \in Jobs : tab[j].status = "succeeded" => job[j].status = "succeeded"

LEMMA OtherTables ==
    ASSUME TypeOK, RowsOK, NEW t \in Nat, NEW k \in Kinds, NEW j \in Jobs,
           NEW c \in Claim
    PROVE  /\ ChargedTable(job) /\ NoSuccess(job)
           /\ job[j].status = "absent" =>
                 ChargedTable(Created(j, k, t)) /\ NoSuccess(Created(j, k, t))
           /\ ChargedTable(ReapExpiredLeases(t)) /\ NoSuccess(ReapExpiredLeases(t))
           /\ ChargedTable(ExtendLease(c)) /\ NoSuccess(ExtendLease(c))
  <1>1. ChargedTable(job) /\ NoSuccess(job)
    BY DEF ChargedTable, Charged, NoSuccess
  <1>2. \A i \in Jobs : job[i] \in Row /\ RowOK(job[i])
    BY DEF TypeOK, RowsOK
  <1>3. ASSUME job[j].status = "absent"
        PROVE  ChargedTable(Created(j, k, t)) /\ NoSuccess(Created(j, k, t))
    <2> DEFINE new == [EmptyRow EXCEPT !.status = "pending", !.kind = k, !.runAt = t]
    <2>1. job[j].attempts = 0 /\ new.attempts = 0 /\ new.status = "pending"
      BY <1>2, <1>3 DEF RowOK, EmptyRow
    <2>2. Created(j, k, t) = [job EXCEPT ![j] = new]
      BY DEF Created
    <2> HIDE DEF new
    <2> QED
      BY <1>1, <2>1, <2>2 DEF ChargedTable, Charged, NoSuccess, TypeOK
  <1>4. ChargedTable(ReapExpiredLeases(t)) /\ NoSuccess(ReapExpiredLeases(t))
    <2> SUFFICES ASSUME NEW i \in Jobs
                 PROVE  LET new == [Unlocked(job[i]) EXCEPT !.status = "pending"]
                        IN  new.attempts = job[i].attempts /\ new.status = "pending"
      BY DEF ReapExpiredLeases, ChargedTable, Charged, NoSuccess
    <2>1. job[i] \in Row
      BY <1>2
    <2> QED
      BY <2>1 DEF Unlocked, Row
  <1>5. ChargedTable(ExtendLease(c)) /\ NoSuccess(ExtendLease(c))
    <2> DEFINE new == [job[c.id] EXCEPT !.lockedAt = now]
    <2>1. c.id \in Jobs /\ job[c.id] \in Row
      BY <1>2 DEF Claim
    <2>2. new.attempts = job[c.id].attempts /\ new.status = job[c.id].status
      BY <2>1 DEF Row
    <2>3. ExtendLease(c) = [job EXCEPT ![c.id] = new]
      BY <2>1 DEF ExtendLease, TypeOK
    <2> HIDE DEF new
    <2> QED
      BY <1>1, <2>1, <2>2, <2>3 DEF ChargedTable, Charged, NoSuccess, TypeOK
  <1> QED
    BY <1>1, <1>3, <1>4, <1>5

LEMMA ClaimedTable ==
    ASSUME TypeOK, NEW w \in Runners, ClaimDue(w)
    PROVE  ChargedTable(job') /\ NoSuccess(job')
  <1>1. PICK s \in ClaimOrders(cycleNow[w]) : job' = Claimed(w, s, cycleNow[w])
    BY DEF ClaimDue
  <1> SUFFICES ASSUME NEW j \in Jobs
               PROVE  /\ job'[j].attempts = job[j].attempts
                      /\ job'[j].status \in {job[j].status, "running"}
    BY DEF ChargedTable, Charged, NoSuccess
  <1>2. job[j] \in Row
    BY DEF TypeOK
  <1> QED
    BY <1>1, <1>2 DEF Claimed, Row

LEMMA HolderTables ==
    ASSUME TypeOK, RowsOK, NEW w \in Runners, NEW c \in Claim,
           ClaimOK(c, job[c.id])
    PROVE  /\ ChargedTable(MarkSucceeded(w, c))
           /\ ChargedTable(RetryOrDeadLetter(w, c)) /\ NoSuccess(RetryOrDeadLetter(w, c))
           /\ ChargedTable(MarkDead(w, c, c.attempts + 1))
           /\ NoSuccess(MarkDead(w, c, c.attempts + 1))
           /\ \A j \in Jobs :
                 /\ job[j].status # "succeeded"
                 /\ MarkSucceeded(w, c)[j].status = "succeeded"
                 => c.id = j /\ c.gen = job[j].gen
  <1> DEFINE old == job[c.id]
             lost == ~Owned(w, c)
  <1>1. c.id \in Jobs /\ old \in Row /\ c.attempts \in Nat
    BY DEF Claim, TypeOK
  <1>2. ~lost => old.status = "running" /\ c.gen = old.gen /\ c.attempts = old.attempts
    BY DEF Owned, ClaimOK
  <1>3. ChargedTable(job) /\ NoSuccess(job)
    BY DEF ChargedTable, Charged, NoSuccess
  <1>4. ASSUME NEW new, new.attempts \in {old.attempts, old.attempts + 1},
               old.status = "running", new.status # "running"
        PROVE  /\ ChargedTable([job EXCEPT ![c.id] = new])
               /\ new.status # "succeeded" => NoSuccess([job EXCEPT ![c.id] = new])
    BY <1>1, <1>3, <1>4 DEF ChargedTable, Charged, NoSuccess, TypeOK
  <1>5. /\ ChargedTable(MarkSucceeded(w, c))
        /\ \A j \in Jobs :
              /\ job[j].status # "succeeded"
              /\ MarkSucceeded(w, c)[j].status = "succeeded"
              => c.id = j /\ c.gen = job[j].gen
    <2> DEFINE new == [Unlocked(old) EXCEPT !.status = "succeeded"]
    <2>1. new.attempts = old.attempts /\ new.status = "succeeded"
      BY <1>1 DEF Unlocked, Row
    <2>2. MarkSucceeded(w, c) = IF lost THEN job ELSE [job EXCEPT ![c.id] = new]
      BY <1>1 DEF MarkSucceeded, TypeOK
    <2> HIDE DEF new, lost
    <2>3. ChargedTable(MarkSucceeded(w, c))
      BY <1>1, <1>2, <1>3, <1>4, <2>1, <2>2
    <2>4. ASSUME NEW j \in Jobs, job[j].status # "succeeded",
                 MarkSucceeded(w, c)[j].status = "succeeded"
          PROVE  c.id = j /\ c.gen = job[j].gen
      <3>1. ~lost /\ c.id = j
        BY <1>1, <2>2, <2>4 DEF TypeOK
      <3> QED
        BY <1>2, <3>1
    <2> QED
      BY <2>3, <2>4
  <1>6. /\ ChargedTable(MarkDead(w, c, c.attempts + 1))
        /\ NoSuccess(MarkDead(w, c, c.attempts + 1))
    <2> DEFINE new == [Unlocked(old) EXCEPT !.status = "dead", !.attempts = c.attempts + 1]
    <2>1. new.attempts = c.attempts + 1 /\ new.status = "dead"
      BY <1>1 DEF Unlocked, Row
    <2>2. MarkDead(w, c, c.attempts + 1) = IF lost THEN job ELSE [job EXCEPT ![c.id] = new]
      BY <1>1 DEF MarkDead, TypeOK
    <2> HIDE DEF new, lost
    <2> QED
      BY <1>1, <1>2, <1>3, <1>4, <2>1, <2>2
  <1>7. LET tab == MarkForRetry(w, c, now + Delay[c.attempts + 1], c.attempts + 1)
        IN  ChargedTable(tab) /\ NoSuccess(tab)
    <2> DEFINE t == now + Delay[c.attempts + 1]
               new == [Unlocked(old) EXCEPT !.status = "pending", !.runAt = t,
                                            !.attempts = c.attempts + 1]
    <2>1. new.attempts = c.attempts + 1 /\ new.status = "pending"
      BY <1>1 DEF Unlocked, Row
    <2>2. MarkForRetry(w, c, t, c.attempts + 1)
             = IF lost THEN job ELSE [job EXCEPT ![c.id] = new]
      BY <1>1 DEF MarkForRetry, TypeOK
    <2> HIDE DEF new, lost
    <2> QED
      BY <1>1, <1>2, <1>3, <1>4, <2>1, <2>2
  <1> QED
    BY <1>5, <1>6, <1>7 DEF RetryOrDeadLetter

\* Which tables a step leads to, but for that of a success.
LEMMA StepTables ==
    ASSUME IInv, [Next]_vars
    PROVE  /\ ChargedTable(job')
           /\ \/ NoSuccess(job')
              \/ \E w \in Runners, call \in calls :
                    /\ pc[w] = "wait" /\ Awaits(w, call) /\ call.stage = "ok"
                    /\ job' = MarkSucceeded(w, Current(w))
  <1>1. TypeOK /\ RowsOK
    BY DEF IInv
  <1>2. now \in Nat /\ now + Interval \in Nat /\ Recurring \in Kinds
    BY <1>1, TimeAssumption, KindsAssumption DEF TypeOK
  <1>3. CASE job' = job
    BY <1>3 DEF ChargedTable, Charged, NoSuccess
  <1>4. ASSUME NEW j \in Jobs, NEW k \in Kinds, EnqueueJob(j, k)
        PROVE  ChargedTable(job') /\ NoSuccess(job')
    <2>1. j \in Jobs /\ job[j].status = "absent" /\ job' = Created(j, k, now)
      BY <1>4 DEF EnqueueJob, Fresh
    <2>2. PICK c : c \in Claim
      <3>1. [id |-> j, kind |-> k, attempts |-> 0, gen |-> 0] \in Claim
        BY AttemptsAssumption DEF Claim
      <3> QED
        BY <3>1
    <2> QED
      BY <1>1, <1>2, <2>1, <2>2, OtherTables
  <1>5. ASSUME NEW w \in Runners, RunnerStep(w), job' # job
        PROVE  /\ ChargedTable(job')
               /\ \/ NoSuccess(job')
                  \/ \E call \in calls :
                        /\ pc[w] = "wait" /\ Awaits(w, call) /\ call.stage = "ok"
                        /\ job' = MarkSucceeded(w, Current(w))
    <2>1. ASSUME NEW j \in Jobs, job[j].status = "absent",
                 NEW t \in Nat, job' = Created(j, Recurring, t)
          PROVE  ChargedTable(job') /\ NoSuccess(job')
      <3>1. [id |-> j, kind |-> Recurring, attempts |-> 0, gen |-> 0] \in Claim
        BY <1>2, AttemptsAssumption DEF Claim
      <3> QED
        BY <1>1, <1>2, <2>1, <3>1, OtherTables
    <2>2. CASE StartRunner(w)
      BY <1>2, <1>5, <2>1, <2>2 DEF StartRunner, Fresh
    <2>3. CASE Reap(w)
      <3>1. PICK j \in Jobs : job'[j] # job[j]
        BY <1>1, <1>5, <2>3 DEF Reap, ReapExpiredLeases, TypeOK
      <3>2. [id |-> j, kind |-> Recurring, attempts |-> 0, gen |-> 0] \in Claim
        BY <1>2, AttemptsAssumption DEF Claim
      <3> QED
        BY <1>1, <1>2, <2>3, <3>2, OtherTables DEF Reap
    <2>4. CASE ClaimDue(w)
      BY <1>1, <2>4, ClaimedTable
    <2>5. CASE Heartbeat(w)
      <3>1. Current(w) \in Claim /\ Current(w).id \in Jobs
        BY <2>5, CurrentClaim DEF Heartbeat, Claim
      <3> QED
        BY <1>1, <1>2, <2>5, <3>1, OtherTables DEF Heartbeat
    <2>6. CASE DeadLetterUnregistered(w) \/ Settle(w) \/ SettleCancelled(w)
      <3>1. pc[w] \in {"run", "wait"}
        BY <2>6 DEF DeadLetterUnregistered, Settle, SettleCancelled
      <3>2. Current(w) \in Claim /\ ClaimOK(Current(w), job[Current(w).id])
        BY <3>1, CurrentClaim
      <3>3. /\ ChargedTable(MarkSucceeded(w, Current(w)))
            /\ ChargedTable(RetryOrDeadLetter(w, Current(w)))
            /\ NoSuccess(RetryOrDeadLetter(w, Current(w)))
            /\ ChargedTable(MarkDead(w, Current(w), Current(w).attempts + 1))
            /\ NoSuccess(MarkDead(w, Current(w), Current(w).attempts + 1))
        BY <1>1, <3>2, HolderTables
      <3> QED
        BY <1>5, <2>6, <3>3 DEF DeadLetterUnregistered, Settle, SettleCancelled
    <2> QED
      BY <1>5, <2>2, <2>3, <2>4, <2>5, <2>6
      DEF RunnerStep, ClaimError, Invoke, SettleError, LeaveJob, Shutdown, Stop,
          Crash, GoDown
  <1>6. ASSUME NEW call \in calls, CallStep(call), job' # job
        PROVE  ChargedTable(job') /\ NoSuccess(job')
    <2>1. PICK j \in Jobs : Fresh(j) /\ job' = Created(j, Recurring, now + Interval)
      BY <1>6 DEF CallStep, WorkSucceeds, WorkFails, WorkPanics, EnqueueNext,
                  EnqueueNextFails, Discarded
    <2>2. [id |-> j, kind |-> Recurring, attempts |-> 0, gen |-> 0] \in Claim
      BY <1>2, AttemptsAssumption DEF Claim
    <2> QED
      BY <1>1, <1>2, <2>1, <2>2, OtherTables DEF Fresh
  <1> QED
    BY <1>3, <1>4, <1>5, <1>6 DEF Next, Tick, vars

\* A success is recorded only of a handler that returned nil under the job's
\* latest claim.
THEOREM SuccessesAreEarned == Spec => SuccessIsEarned
  <1>1. ASSUME IInv, [Next]_vars, NEW j \in Jobs,
               job[j].status # "succeeded", job'[j].status = "succeeded"
        PROVE  \E call \in calls : /\ call.claim.id = j
                                   /\ call.claim.gen = job[j].gen
                                   /\ call.stage = "ok"
    <2>1. PICK w \in Runners, call \in calls :
             /\ pc[w] = "wait" /\ Awaits(w, call) /\ call.stage = "ok"
             /\ job' = MarkSucceeded(w, Current(w))
      BY <1>1, StepTables DEF NoSuccess
    <2>2. /\ Current(w) \in Claim /\ ClaimOK(Current(w), job[Current(w).id])
          /\ TypeOK /\ RowsOK
      BY <1>1, <2>1, CurrentClaim DEF IInv
    <2>3. Current(w).id = j /\ Current(w).gen = job[j].gen
      BY <1>1, <2>1, <2>2, HolderTables
    <2> QED
      BY <2>1, <2>3 DEF Awaits
  <1>2. IInv /\ [Next]_vars =>
          [\A j \in Jobs :
              job[j].status # "succeeded" /\ job'[j].status = "succeeded" =>
                 \E call \in calls : /\ call.claim.id = j
                                     /\ call.claim.gen = job[j].gen
                                     /\ call.stage = "ok"]_vars
    BY <1>1
  <1> QED
    BY <1>2, Invariance, PTL DEF Spec, SuccessIsEarned

\* An attempt is charged once, and no step gives one back.
THEOREM AttemptsAreChargedOnce == Spec => AttemptsChargedOnce
  <1>1. IInv /\ [Next]_vars =>
          [\A j \in Jobs :
             \/ job'[j].attempts = job[j].attempts
             \/ /\ job'[j].attempts = job[j].attempts + 1
                /\ job[j].status = "running" /\ job'[j].status # "running"]_vars
    BY StepTables DEF ChargedTable, Charged
  <1> QED
    BY <1>1, Invariance, PTL DEF Spec, AttemptsChargedOnce

-----------------------------------------------------------------------------
(***************************************************************************)
(* The recurring schedule, when no handler panics, no enqueue fails and no *)
(* runner is shut down; handlers may fail, writes of outcomes may fail and *)
(* processes may crash.  An occurrence leaves the schedule only when its   *)
(* handler returned, and by then its successor has been enqueued.  The     *)
(* successor may be gone already too; what remains is some occurrence with *)
(* a higher id.                                                            *)
(***************************************************************************)

Later(tab, i) ==
    \E k \in Jobs : k > i /\ tab[k].status \in Active /\ tab[k].kind = Recurring

\* Ids are handed out in order.
InOrder == \A i, k \in Jobs : i < k /\ job[i].status = "absent" => job[k].status = "absent"

\* A handler that has returned a result that may end its occurrence.
Concluded(call) ==
    /\ call.claim.kind = Recurring
    /\ \/ call.stage = "ok"
       \/ call.stage = "failed" /\ FinalAttempt(call.claim)

ChainInv ==
    /\ InOrder
    /\ \A w \in Runners : ~stopping[w]
    /\ \A call \in calls : job[call.claim.id].status # "absent"
    /\ \A call \in calls : Concluded(call) => Later(job, call.claim.id)
    /\ ScheduleContinues

\* A step that ends no occurrence but one that has a later one.
Continues(tab) ==
    \A j \in Jobs :
        /\ job[j].status # "absent" => tab[j].status # "absent"
        /\ job[j].status \in Active /\ job[j].kind = Recurring =>
              \/ tab[j].status \in Active /\ tab[j].kind = Recurring
              \/ Later(tab, j)

LEMMA LaterContinues ==
    ASSUME NEW tab, Continues(tab), NEW i \in Nat, Later(job, i)
    PROVE  Later(tab, i)
  <1>1. PICK k \in Jobs : k > i /\ job[k].status \in Active /\ job[k].kind = Recurring
    BY DEF Later
  <1>2. CASE tab[k].status \in Active /\ tab[k].kind = Recurring
    BY <1>1, <1>2 DEF Later
  <1>3. CASE Later(tab, k)
    BY <1>1, <1>3 DEF Later, Jobs
  <1> QED
    BY <1>1, <1>2, <1>3 DEF Continues

LEMMA ScheduleAgain ==
    ASSUME NEW tab, Continues(tab), ActiveOf(Recurring) # {}
    PROVE  \E k \in Jobs : tab[k].status \in Active /\ tab[k].kind = Recurring
  <1>1. PICK k \in Jobs : job[k].status \in Active /\ job[k].kind = Recurring
    BY DEF ActiveOf
  <1> QED
    BY <1>1 DEF Continues, Later

\* A step that starts no runner and concludes no handler.
LEMMA ContinuesStep ==
    ASSUME ChainInv, Continues(job'), InOrder', UNCHANGED stopping,
           \A w \in Runners : pc[w] = "down" => pc'[w] = "down",
           calls \subseteq Call,
           \A call \in calls' :
              /\ \E old \in calls : /\ old.claim = call.claim
                                    /\ Concluded(call) => Concluded(old)
    PROVE  ChainInv'
  <1>1. ASSUME NEW call \in calls'
        PROVE  /\ job'[call.claim.id].status # "absent"
               /\ Concluded(call) => Later(job', call.claim.id)
    <2>1. PICK old \in calls : old.claim = call.claim /\ (Concluded(call) => Concluded(old))
      OBVIOUS
    <2>2. old.claim.id \in Jobs /\ old.claim.id \in Nat
      BY DEF Call, Claim, Jobs
    <2>3. job[old.claim.id].status # "absent"
      BY DEF ChainInv
    <2>4. Concluded(old) => Later(job, old.claim.id)
      BY DEF ChainInv
    <2> QED
      BY <2>1, <2>2, <2>3, <2>4, LaterContinues DEF Continues
  <1>2. ScheduleContinues'
    BY ScheduleAgain DEF ChainInv, ScheduleContinues, ActiveOf
  <1>3. \A call \in calls' : Concluded(call)' <=> Concluded(call)
    BY DEF Concluded, FinalAttempt
  <1> QED
    BY <1>1, <1>2, <1>3 DEF ChainInv, Later

LEMMA SameContinues == Continues(job)
  BY DEF Continues

\* A new row.
LEMMA CreatedContinues ==
    ASSUME TypeOK, InOrder, NEW j \in Jobs, NEW k, NEW t, Fresh(j), job' = Created(j, k, t)
    PROVE  /\ Continues(job') /\ InOrder'
           /\ job'[j].status \in Active /\ job'[j].kind = k
           /\ \A i \in Jobs : job[i].status # "absent" => i < j
  <1>1. job'[j] = [EmptyRow EXCEPT !.status = "pending", !.kind = k, !.runAt = t]
        /\ \A i \in Jobs : i # j => job'[i] = job[i]
    BY DEF Created, TypeOK
  <1>2. job'[j].status = "pending" /\ job'[j].kind = k
    BY <1>1 DEF EmptyRow
  <1>3. Continues(job')
    BY <1>1, <1>2 DEF Continues, Fresh, Active
  <1>4. \A i \in Jobs : i < j => i \in 1..(j - 1)
    BY DEF Jobs
  <1>5. \A i \in Jobs : i < j => job[i].status # "absent"
    BY <1>4 DEF Fresh
  <1>6. InOrder'
    <2> SUFFICES ASSUME NEW i \in Jobs, NEW n \in Jobs, i < n, job'[i].status = "absent"
                 PROVE  job'[n].status = "absent"
      BY DEF InOrder
    <2>1. i # j /\ job[i].status = "absent"
      BY <1>1, <1>2
    <2>2. ~(i < j)
      BY <1>5, <2>1
    <2>3. n # j
      BY <2>2
    <2> QED
      BY <1>1, <2>1, <2>3 DEF InOrder
  <1>7. \A i \in Jobs : job[i].status # "absent" => i < j
    <2> SUFFICES ASSUME NEW i \in Jobs, ~(i < j)
                 PROVE  job[i].status = "absent"
      OBVIOUS
    <2>1. i = j \/ j < i
      BY DEF Jobs
    <2> QED
      BY <2>1 DEF Fresh, InOrder
  <1> QED
    BY <1>2, <1>3, <1>6, <1>7 DEF Active

\* A write of one row that was there.
Ordered(tab) ==
    \A n, k \in Jobs : n < k /\ tab[n].status = "absent" => tab[k].status = "absent"

LEMMA RowContinues ==
    ASSUME TypeOK, InOrder, NEW i \in Jobs, NEW new, NEW tab,
           tab = [job EXCEPT ![i] = new],
           job[i].status # "absent", new.status # "absent", new.kind = job[i].kind,
           \/ new.status \in Active \/ job[i].kind # Recurring \/ Later(job, i)
    PROVE  Continues(tab) /\ Ordered(tab)
  <1>1. tab[i] = new /\ \A j \in Jobs : j # i => tab[j] = job[j]
    BY DEF TypeOK
  <1>2. Later(job, i) => Later(tab, i)
    <2> SUFFICES ASSUME NEW k \in Jobs, k > i, job[k].status \in Active,
                        job[k].kind = Recurring
                 PROVE  Later(tab, i)
      BY DEF Later
    <2>1. k # i
      BY DEF Jobs
    <2> QED
      BY <1>1, <2>1 DEF Later
  <1> QED
    BY <1>1, <1>2 DEF Continues, InOrder, Ordered

\* What the holder of a claim writes once its handler came back.
LEMMA OutcomeContinues ==
    ASSUME IInv, ChainInv, NEW w \in Runners, NEW c \in Claim, ClaimOK(c, job[c.id])
    PROVE  /\ (c.kind = Recurring => Later(job, c.id)) =>
                 Continues(MarkSucceeded(w, c)) /\ Ordered(MarkSucceeded(w, c))
           /\ (c.kind = Recurring /\ FinalAttempt(c) => Later(job, c.id)) =>
                 Continues(RetryOrDeadLetter(w, c)) /\ Ordered(RetryOrDeadLetter(w, c))
           /\ c.kind # Recurring =>
                 /\ Continues(MarkDead(w, c, c.attempts + 1))
                 /\ Ordered(MarkDead(w, c, c.attempts + 1))
  <1>1. /\ c.id \in Jobs /\ job[c.id] \in Row /\ TypeOK /\ InOrder
        /\ job[c.id].status # "absent" /\ job[c.id].kind = c.kind
    BY DEF IInv, TypeOK, Claim, ClaimOK, ChainInv
  <1>2. Continues(job) /\ Ordered(job)
    BY <1>1, SameContinues DEF InOrder, Ordered
  <1> DEFINE old == job[c.id]
  <1>3. ASSUME c.kind = Recurring => Later(job, c.id)
        PROVE  Continues(MarkSucceeded(w, c)) /\ Ordered(MarkSucceeded(w, c))
    <2> DEFINE new == [Unlocked(old) EXCEPT !.status = "succeeded"]
    <2>1. new.status = "succeeded" /\ new.kind = c.kind
      BY <1>1 DEF Unlocked, Row
    <2>2. MarkSucceeded(w, c) \in {job, [job EXCEPT ![c.id] = new]}
      BY <1>1 DEF MarkSucceeded, TypeOK
    <2> HIDE DEF new
    <2> QED
      BY <1>1, <1>2, <1>3, <2>1, <2>2, RowContinues
  <1>4. ASSUME c.kind = Recurring => Later(job, c.id)
        PROVE  /\ Continues(MarkDead(w, c, c.attempts + 1))
               /\ Ordered(MarkDead(w, c, c.attempts + 1))
    <2> DEFINE new == [Unlocked(old) EXCEPT !.status = "dead", !.attempts = c.attempts + 1]
    <2>1. new.status = "dead" /\ new.kind = c.kind
      BY <1>1 DEF Unlocked, Row
    <2>2. MarkDead(w, c, c.attempts + 1) \in {job, [job EXCEPT ![c.id] = new]}
      BY <1>1 DEF MarkDead, TypeOK
    <2> HIDE DEF new
    <2> QED
      BY <1>1, <1>2, <1>4, <2>1, <2>2, RowContinues
  <1>5. ASSUME NEW t
        PROVE  /\ Continues(MarkForRetry(w, c, t, c.attempts + 1))
               /\ Ordered(MarkForRetry(w, c, t, c.attempts + 1))
    <2> DEFINE new == [Unlocked(old) EXCEPT !.status = "pending", !.runAt = t,
                                            !.attempts = c.attempts + 1]
    <2>1. new.status = "pending" /\ new.kind = c.kind
      BY <1>1 DEF Unlocked, Row
    <2>2. MarkForRetry(w, c, t, c.attempts + 1) \in {job, [job EXCEPT ![c.id] = new]}
      BY <1>1 DEF MarkForRetry, TypeOK
    <2> HIDE DEF new
    <2> QED
      BY <1>1, <1>2, <2>1, <2>2, RowContinues DEF Active
  <1> QED
    BY <1>3, <1>4, <1>5 DEF RetryOrDeadLetter

\* Reaping, claiming and the heartbeat leave every row as active as it was.
LEMMA LeaseContinues ==
    ASSUME TypeOK, InOrder, NEW tab,
           \A j \in Jobs :
              /\ tab[j].kind = job[j].kind
              /\ tab[j].status \in Active <=> job[j].status \in Active
              /\ tab[j].status \in Terminal <=> job[j].status \in Terminal
              /\ tab[j].status = "absent" <=> job[j].status = "absent"
    PROVE  Continues(tab) /\ Ordered(tab)
  BY DEF Continues, Ordered, InOrder

LEMMA ReapedContinues ==
    ASSUME TypeOK, InOrder, NEW t
    PROVE  Continues(ReapExpiredLeases(t)) /\ Ordered(ReapExpiredLeases(t))
  <1> DEFINE tab == ReapExpiredLeases(t)
  <1>1. ASSUME NEW j \in Jobs
        PROVE  /\ tab[j].kind = job[j].kind
               /\ \/ tab[j].status = job[j].status
                  \/ job[j].status = "running" /\ tab[j].status = "pending"
    <2>1. job[j] \in Row
      BY DEF TypeOK
    <2>2. CASE Expired(job[j], t)
      <3>1. tab[j] = [Unlocked(job[j]) EXCEPT !.status = "pending"]
        BY <2>2 DEF ReapExpiredLeases
      <3> QED
        BY <2>1, <2>2, <3>1 DEF Unlocked, Expired, Row
    <2>3. CASE ~Expired(job[j], t)
      BY <2>3 DEF ReapExpiredLeases
    <2> QED
      BY <2>2, <2>3
  <1> HIDE DEF tab
  <1> QED
    BY <1>1, LeaseContinues DEF Active, Terminal, tab

LEMMA ClaimedContinues ==
    ASSUME TypeOK, InOrder, NEW w \in Runners, NEW t, NEW s \in ClaimOrders(t)
    PROVE  Continues(Claimed(w, s, t)) /\ Ordered(Claimed(w, s, t))
  <1> DEFINE tab == Claimed(w, s, t)
  <1>1. \A i \in DOMAIN s : s[i] \in Due(t)
    BY DEF ClaimOrders
  <1>2. ASSUME NEW j \in Jobs
        PROVE  /\ tab[j].kind = job[j].kind
               /\ \/ tab[j].status = job[j].status
                  \/ job[j].status = "pending" /\ tab[j].status = "running"
    <2>1. job[j] \in Row
      BY DEF TypeOK
    <2>2. j \in {s[i] : i \in DOMAIN s} => job[j].status = "pending"
      BY <1>1 DEF Due
    <2>3. CASE j \in {s[i] : i \in DOMAIN s}
      <3>1. tab[j] = [job[j] EXCEPT !.status = "running", !.lockedBy = w,
                                    !.lockedAt = t, !.gen = @ + 1]
        BY <2>3 DEF Claimed
      <3>2. tab[j].status = "running" /\ tab[j].kind = job[j].kind
        BY <2>1, <3>1 DEF Row
      <3> QED
        BY <2>2, <2>3, <3>2
    <2>4. CASE j \notin {s[i] : i \in DOMAIN s}
      BY <2>4 DEF Claimed
    <2> QED
      BY <2>3, <2>4
  <1> HIDE DEF tab
  <1> QED
    BY <1>2, LeaseContinues DEF Active, Terminal, tab

LEMMA ExtendedContinues ==
    ASSUME TypeOK, InOrder, NEW c \in Claim
    PROVE  Continues(ExtendLease(c)) /\ Ordered(ExtendLease(c))
  <1> DEFINE tab == ExtendLease(c)
  <1>1. ASSUME NEW j \in Jobs
        PROVE  tab[j].kind = job[j].kind /\ tab[j].status = job[j].status
    <2>1. job[j] \in Row /\ c.id \in Jobs
      BY DEF TypeOK, Claim
    <2> QED
      BY <2>1 DEF ExtendLease, Row, TypeOK
  <1> HIDE DEF tab
  <1> QED
    BY <1>1, LeaseContinues DEF tab

\* A step of a runner that is up, or of nobody.
LEMMA QuietChain ==
    ASSUME IInv, ChainInv, Continues(job'), Ordered(job'), UNCHANGED stopping,
           calls' \subseteq calls, \A w \in Runners : pc[w] = "down" => pc'[w] = "down"
    PROVE  ChainInv'
  <1>1. calls \subseteq Call
    BY DEF IInv, TypeOK
  <1>2. InOrder'
    BY DEF InOrder, Ordered
  <1> QED
    BY <1>1, <1>2, ContinuesStep

LEMMA StaysDown ==
    ASSUME IInv, NEW w \in Runners, NEW p, pc' = [pc EXCEPT ![w] = p],
           pc[w] # "down" \/ p = "down"
    PROVE  \A v \in Runners : pc[v] = "down" => pc'[v] = "down"
  BY DEF IInv, TypeOK

LEMMA StartChain ==
    ASSUME IInv, ChainInv, NEW w \in Runners, StartRunner(w)
    PROVE  ChainInv'
  <1>1. TypeOK /\ InOrder
    BY DEF IInv, ChainInv
  <1>2. Continues(job') /\ InOrder' /\ ActiveOf(Recurring)' # {}
    <2>1. CASE ActiveOf(Recurring) # {}
      BY <1>1, <2>1, SameContinues DEF StartRunner, ActiveOf, InOrder
    <2>2. CASE ActiveOf(Recurring) = {}
      <3>1. PICK j \in Jobs : Fresh(j) /\ job' = Created(j, Recurring, now)
        BY <2>2 DEF StartRunner
      <3> QED
        BY <1>1, <3>1, CreatedContinues DEF ActiveOf
    <2> QED
      BY <2>1, <2>2
  <1>3. ASSUME NEW call \in calls
        PROVE  /\ job'[call.claim.id].status # "absent"
               /\ Concluded(call) => Later(job', call.claim.id)
    <2>1. call.claim.id \in Jobs /\ call.claim.id \in Nat
      BY DEF IInv, TypeOK, Call, Claim, Jobs
    <2> QED
      BY <1>2, <2>1, LaterContinues DEF ChainInv, Continues
  <1>4. calls' = calls /\ stopping' = stopping
    BY DEF StartRunner
  <1> QED
    BY <1>2, <1>3, <1>4 DEF ChainInv, ScheduleContinues, Later, Concluded, FinalAttempt

\* Work that ends without a fault concludes nothing: the wrapper goes on.
LEMMA WorkChain ==
    ASSUME IInv, ChainInv, NEW call \in calls,
           \/ WorkSucceeds(call) \/ WorkFails(call) \/ Discarded(call)
    PROVE  ChainInv'
  <1>1. calls \subseteq Call /\ call \in Call /\ TypeOK /\ InOrder
    BY DEF IInv, TypeOK, ChainInv
  <1>2. UNCHANGED <<job, pc, stopping>>
    BY DEF WorkSucceeds, WorkFails, Discarded, runnerVars
  <1>3. ASSUME NEW new \in calls', new \notin calls
        PROVE  new.claim = call.claim /\ ~Concluded(new)
    <2>1. CASE WorkSucceeds(call)
      <3>1. new = [call EXCEPT !.stage = IF call.claim.kind = Recurring THEN "enqueue_ok" ELSE "ok"]
        BY <1>3, <2>1 DEF WorkSucceeds, Moves
      <3> QED
        BY <1>1, <3>1 DEF Call, Concluded
    <2>2. CASE WorkFails(call)
      <3>1. new = [call EXCEPT !.stage =
                      IF call.claim.kind = Recurring /\ FinalAttempt(call.claim)
                      THEN "enqueue_final" ELSE "failed"]
        BY <1>3, <2>2 DEF WorkFails, Moves
      <3>2. new.claim = call.claim
            /\ new.stage = IF call.claim.kind = Recurring /\ FinalAttempt(call.claim)
                           THEN "enqueue_final" ELSE "failed"
        BY <1>1, <3>1 DEF Call
      <3> QED
        BY <3>2 DEF Concluded
    <2>3. CASE Discarded(call)
      BY <1>3, <2>3 DEF Discarded
    <2> QED
      BY <2>1, <2>2, <2>3
  <1>4. \A new \in calls' : \E old \in calls :
            /\ old.claim = new.claim
            /\ Concluded(new) => Concluded(old)
    BY <1>3
  <1>5. Continues(job') /\ InOrder'
    BY <1>1, <1>2, SameContinues DEF InOrder
  <1> QED
    BY <1>1, <1>2, <1>4, <1>5, ContinuesStep

\* The successor is enqueued behind every row there is.
LEMMA EnqueueChain ==
    ASSUME IInv, ChainInv, NEW call \in calls, EnqueueNext(call)
    PROVE  ChainInv'
  <1>1. calls \subseteq Call /\ call \in Call /\ TypeOK /\ InOrder
    BY DEF IInv, TypeOK, ChainInv
  <1>2. PICK j \in Jobs : Fresh(j) /\ job' = Created(j, Recurring, now + Interval)
    BY DEF EnqueueNext
  <1>3. /\ Continues(job') /\ InOrder'
        /\ job'[j].status \in Active /\ job'[j].kind = Recurring
        /\ \A i \in Jobs : job[i].status # "absent" => i < j
    BY <1>1, <1>2, CreatedContinues
  <1>4. UNCHANGED <<pc, stopping>>
    BY DEF EnqueueNext, runnerVars
  <1>5. \A new \in calls' : \E old \in calls : old.claim = new.claim
    <2> SUFFICES ASSUME NEW new \in calls', new \notin calls
                 PROVE  new.claim = call.claim
      OBVIOUS
    <2>1. new = [call EXCEPT !.stage = IF call.stage = "enqueue_ok" THEN "ok" ELSE "failed"]
      BY DEF EnqueueNext, Moves
    <2> QED
      BY <1>1, <2>1 DEF Call
  <1>6. ASSUME NEW new \in calls'
        PROVE  /\ job'[new.claim.id].status # "absent"
               /\ Later(job', new.claim.id)
    <2>1. PICK old \in calls : old.claim = new.claim
      BY <1>5
    <2>2. old.claim.id \in Jobs /\ job[old.claim.id].status # "absent"
      BY <1>1 DEF ChainInv, Call, Claim
    <2>3. old.claim.id < j /\ job'[old.claim.id].status # "absent"
      BY <1>3, <2>2 DEF Continues
    <2>4. j > old.claim.id
      BY <2>2, <2>3 DEF Jobs
    <2> QED
      BY <1>3, <2>1, <2>3, <2>4 DEF Later
  <1>7. ScheduleContinues'
    BY <1>3 DEF ScheduleContinues, ActiveOf
  <1> QED
    BY <1>3, <1>4, <1>6, <1>7 DEF ChainInv, Later

LEMMA SettleChain ==
    ASSUME IInv, ChainInv, NEW w \in Runners, Settle(w)
    PROVE  ChainInv'
  <1>1. pc[w] = "wait" /\ Current(w) \in Claim /\ ClaimOK(Current(w), job[Current(w).id])
    BY CurrentClaim DEF Settle
  <1>2. PICK call \in calls :
           /\ call.claim = Current(w)
           /\ call.stage \in {"ok", "failed"}
           /\ job' = IF call.stage = "ok" THEN MarkSucceeded(w, Current(w))
                                          ELSE RetryOrDeadLetter(w, Current(w))
           /\ calls' = calls \ {call}
    BY DEF Settle, Awaits
  <1>3. Concluded(call) => Later(job, Current(w).id)
    BY <1>2 DEF ChainInv
  <1>4. Continues(job') /\ Ordered(job')
    <2>1. CASE call.stage = "ok"
      BY <1>1, <1>2, <1>3, <2>1, OutcomeContinues DEF Concluded
    <2>2. CASE call.stage = "failed"
      BY <1>1, <1>2, <1>3, <2>2, OutcomeContinues DEF Concluded
    <2> QED
      BY <1>2, <2>1, <2>2
  <1>5. UNCHANGED stopping /\ \A v \in Runners : pc[v] = "down" => pc'[v] = "down"
    BY <1>1, StaysDown DEF Settle, Advance
  <1> QED
    BY <1>2, <1>4, <1>5, QuietChain

\* A kind without a handler is not the recurring one: each scheduler registers
\* its own.
LEMMA UnregisteredChain ==
    ASSUME IInv, ChainInv, NEW w \in Runners, DeadLetterUnregistered(w)
    PROVE  ChainInv'
  <1>1. pc[w] = "run" /\ Current(w) \in Claim /\ ClaimOK(Current(w), job[Current(w).id])
    BY CurrentClaim DEF DeadLetterUnregistered
  <1>2. Current(w).kind # Recurring
    BY KindsAssumption DEF DeadLetterUnregistered
  <1>3. Continues(job) /\ Ordered(job)
    BY SameContinues DEF ChainInv, InOrder, Ordered
  <1>4. Continues(job') /\ Ordered(job')
    BY <1>1, <1>2, <1>3, OutcomeContinues DEF DeadLetterUnregistered
  <1>5. /\ UNCHANGED <<calls, stopping>>
        /\ \A v \in Runners : pc[v] = "down" => pc'[v] = "down"
    BY <1>1, StaysDown DEF DeadLetterUnregistered, Advance
  <1> QED
    BY <1>4, <1>5, QuietChain

\* The leases, and the loop of a runner.
LEMMA LoopChain ==
    ASSUME IInv, ChainInv, NEW w \in Runners,
           \/ Reap(w) \/ ClaimDue(w) \/ ClaimError(w) \/ Invoke(w)
           \/ SettleError(w) \/ Heartbeat(w) \/ LeaveJob(w)
    PROVE  ChainInv'
  <1>1. TypeOK /\ InOrder
    BY DEF IInv, ChainInv
  <1>2. Continues(job) /\ Ordered(job)
    BY SameContinues DEF ChainInv, InOrder, Ordered
  <1>3. \A v \in Runners : pc[v] = "down" => pc'[v] = "down"
    <2>1. pc[w] # "down"
      BY DEF Reap, ClaimDue, ClaimError, Invoke, SettleError, Heartbeat, LeaveJob
    <2>2. pc' = pc \/ \E p : pc' = [pc EXCEPT ![w] = p]
      BY DEF Reap, ClaimDue, ClaimError, Invoke, SettleError, Heartbeat, LeaveJob,
             Advance, runnerVars
    <2> QED
      BY <2>1, <2>2, StaysDown
  <1>4. UNCHANGED stopping
    BY DEF Reap, ClaimDue, ClaimError, Invoke, SettleError, Heartbeat, LeaveJob,
           Advance, runnerVars
  <1>5. CASE Reap(w)
    BY <1>1, <1>3, <1>4, <1>5, ReapedContinues, QuietChain DEF Reap
  <1>6. CASE ClaimDue(w)
    BY <1>1, <1>3, <1>4, <1>6, ClaimedContinues, QuietChain DEF ClaimDue
  <1>7. CASE Heartbeat(w)
    <2>1. Current(w) \in Claim
      BY <1>7, CurrentClaim DEF Heartbeat
    <2> QED
      BY <1>1, <1>3, <1>4, <1>7, <2>1, ExtendedContinues, QuietChain DEF Heartbeat
  <1>8. CASE ClaimError(w) \/ SettleError(w) \/ LeaveJob(w)
    <2>1. UNCHANGED job /\ calls' \subseteq calls
      BY <1>8 DEF ClaimError, SettleError, LeaveJob
    <2> QED
      BY <1>2, <1>3, <1>4, <2>1, QuietChain
  <1>9. CASE Invoke(w)
    <2>1. Current(w) \in Claim /\ ClaimOK(Current(w), job[Current(w).id])
      BY <1>9, CurrentClaim DEF Invoke
    <2>2. /\ UNCHANGED job
          /\ calls' = calls \cup {CallOf(w, Current(w), "work")}
      BY <1>9 DEF Invoke
    <2>3. /\ ~Concluded(CallOf(w, Current(w), "work"))
          /\ job[CallOf(w, Current(w), "work").claim.id].status # "absent"
      BY <2>1 DEF Concluded, CallOf, ClaimOK
    <2>4. \A call \in calls' : /\ job[call.claim.id].status # "absent"
                               /\ Concluded(call) => Later(job, call.claim.id)
      BY <2>2, <2>3 DEF ChainInv
    <2>5. ScheduleContinues'
      BY <1>3, <2>2 DEF ChainInv, ScheduleContinues, ActiveOf
    <2>6. InOrder'
      BY <1>1, <2>2 DEF InOrder
    <2> QED
      BY <1>4, <2>2, <2>4, <2>5, <2>6 DEF ChainInv, Later, Concluded, FinalAttempt
  <1> QED
    BY <1>5, <1>6, <1>7, <1>8, <1>9

LEMMA DownChain ==
    ASSUME IInv, ChainInv, NEW w \in Runners, Stop(w) \/ Crash(w)
    PROVE  ChainInv'
  <1>1. UNCHANGED job /\ calls' \subseteq calls /\ pc' = [pc EXCEPT ![w] = "down"]
        /\ stopping' = [stopping EXCEPT ![w] = FALSE]
    BY DEF Stop, Crash, GoDown
  <1>2. Continues(job) /\ Ordered(job)
    BY SameContinues DEF ChainInv, InOrder, Ordered
  <1>3. stopping' = stopping
    BY <1>1 DEF ChainInv, IInv, TypeOK
  <1> QED
    BY <1>1, <1>2, <1>3, StaysDown, QuietChain

LEMMA CreateChain ==
    ASSUME IInv, ChainInv, NEW j \in Jobs, NEW k \in Kinds, EnqueueJob(j, k)
    PROVE  ChainInv'
  <1>1. Continues(job') /\ InOrder'
    BY CreatedContinues DEF IInv, ChainInv, EnqueueJob
  <1>2. Ordered(job') /\ UNCHANGED <<calls, pc, stopping>>
    BY <1>1 DEF InOrder, Ordered, EnqueueJob, runnerVars
  <1> QED
    BY <1>1, <1>2, QuietChain

\* The recurring schedule, once registered, never dies out, whatever crashes, loses
\* its lease or cannot write: as long as handlers return and successors can be
\* enqueued (RegisterRecurring).
THEOREM ScheduleNeverEnds ==
    ASSUME Faults \cap {"panic", "enqueue_error", "shutdown"} = {}
    PROVE  Spec => []ScheduleContinues
  <1>1. Init => ChainInv
    BY DEF Init, ChainInv, InOrder, ScheduleContinues, EmptyRow
  <1>2. IInv /\ ChainInv /\ [Next]_vars => ChainInv'
    <2> SUFFICES ASSUME IInv, ChainInv, [Next]_vars
                 PROVE  ChainInv'
      OBVIOUS
    <2>1. "panic" \notin Faults /\ "enqueue_error" \notin Faults /\ "shutdown" \notin Faults
      OBVIOUS
    <2>2. CASE UNCHANGED vars \/ Tick
      <3>1. UNCHANGED <<job, pc, stopping, calls>>
        BY <2>2 DEF vars, Tick, runnerVars
      <3>2. Continues(job) /\ Ordered(job)
        BY SameContinues DEF ChainInv, InOrder, Ordered
      <3> QED
        BY <3>1, <3>2, QuietChain
    <2>3. ASSUME NEW w \in Runners, RunnerStep(w)
          PROVE  ChainInv'
      <3>1. ~SettleCancelled(w) /\ ~Shutdown(w)
        BY <2>1 DEF SettleCancelled, Shutdown, ChainInv
      <3> QED
        BY <2>3, <3>1, StartChain, LoopChain, UnregisteredChain, SettleChain, DownChain
        DEF RunnerStep
    <2>4. ASSUME NEW call \in calls, CallStep(call)
          PROVE  ChainInv'
      BY <2>1, <2>4, WorkChain, EnqueueChain DEF CallStep, WorkPanics, EnqueueNextFails
    <2> QED
      BY <2>2, <2>3, <2>4, CreateChain DEF Next
  <1>3. ChainInv => ScheduleContinues
    BY DEF ChainInv
  <1> QED
    BY <1>1, <1>2, <1>3, Invariance, PTL DEF Spec
=============================================================================
