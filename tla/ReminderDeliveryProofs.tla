----------------------- MODULE ReminderDeliveryProofs -----------------------
(***************************************************************************)
(* Proofs about ReminderDelivery, for any number of runners, of attempts,   *)
(* of grants a run takes and of decisions of the owner.                    *)
(*                                                                         *)
(* A runner numbers its attempt by a count it made before it read the      *)
(* decision and the source.  The invariant says what is left of that count *)
(* when it is used: the attempts it counted are still there, in their       *)
(* places, and none of them was final, whatever other runners did to the   *)
(* log meanwhile.                                                          *)
(***************************************************************************)
EXTENDS ReminderDelivery, FiniteSetTheorems, NaturalsInduction,
        WellFoundedInduction, TLAPS

LEMMA ConstantFacts ==
    /\ MaxAttempts \in Nat /\ MaxAttempts # 0 /\ Limit \in Nat /\ Limit # 0
    /\ MaxDecisions \in Nat /\ MaxEdits \in Nat /\ MaxFaults \in Nat
    /\ None \notin Outcomes
<1> QED
  BY ReminderAssumption

(***************************************************************************)
(* Counting a log.                                                         *)
(***************************************************************************)

\* A set of attempt numbers that is not empty has a largest.
LEMMA LargestNumber ==
    ASSUME NEW S \in SUBSET Numbers, S # {}
    PROVE  \E n \in S : \A m \in S : m <= n
<1> DEFINE R == {p \in Nat \X Nat : p[1] < p[2]}
<1>1. IsWellFoundedOn(R, Nat)
  BY NatLessThanWellFounded DEF OpToRel
<1> DEFINE T == {MaxAttempts - n : n \in S}
<1>2. MaxAttempts \in Nat /\ \A n \in S : n \in Nat /\ n <= MaxAttempts
  BY ConstantFacts DEF Numbers
<1>3. T \subseteq Nat /\ T # {}
  <2>1. \A n \in S : MaxAttempts - n \in Nat
    BY <1>2
  <2> QED
    BY <2>1
<1>4. PICK t \in T : \A u \in T : <<u, t>> \notin R
  BY <1>1, <1>3, WFMin
<1>5. PICK n \in S : t = MaxAttempts - n
  BY <1>4
<1>6. \A m \in S : m <= n
  <2> SUFFICES ASSUME NEW m \in S
               PROVE  m <= n
    OBVIOUS
  <2>1. m \in Nat /\ n \in Nat
    BY <1>2
  <2>2. MaxAttempts - m \in T
    OBVIOUS
  <2>3. MaxAttempts - m \in Nat /\ t \in Nat
    BY <1>3, <1>4, <2>2
  <2>4. ~(MaxAttempts - m < t)
    BY <1>4, <2>2, <2>3
  <2> QED
    BY <1>2, <1>5, <2>1, <2>4
<1> QED
  BY <1>6

\* A log without gaps holds the attempts 1 to their count.
LEMMA CountedAttempts ==
    ASSUME NEW log, WellFormed(log)
    PROVE  LET made == {n \in Numbers : log[n] # None}
           IN  /\ Cardinality(made) \in 0..MaxAttempts
               /\ made = 1..Cardinality(made)
<1> DEFINE made == {n \in Numbers : log[n] # None}
<1>1. CASE made = {}
  <2>1. Cardinality(made) = 0 /\ 1..0 = {}
    BY <1>1, FS_EmptySet
  <2> QED
    BY <1>1, <2>1, ConstantFacts
<1>2. CASE made # {}
  <2>1. PICK k \in made : \A m \in made : m <= k
    BY <1>2, LargestNumber
  <2>2. MaxAttempts \in Nat /\ k \in 1..MaxAttempts /\ k \in Numbers /\ log[k] # None
    BY ConstantFacts DEF Numbers
  <2>3. \A m \in 1..(k - 1) : m \in Numbers /\ log[m] # None
    BY <2>2 DEF WellFormed, Numbers
  <2>4. \A m \in 1..k : m \in made
    BY <2>2, <2>3
  <2>5. \A m \in made : m \in 1..k
    BY <2>1, <2>2 DEF Numbers
  <2>6. made = 1..k
    BY <2>4, <2>5
  <2>7. Cardinality(1..k) = k
    <3>1. 1 \in Int /\ k \in Int
      BY <2>2
    <3>2. Cardinality(1..k) = IF 1 > k THEN 0 ELSE k - 1 + 1
      BY <3>1, FS_Interval
    <3> QED
      BY <2>2, <3>2
  <2>8. Cardinality(made) = k
    BY <2>6, <2>7
  <2>9. k \in 0..MaxAttempts
    BY <2>2
  <2>10. /\ Cardinality(made) \in 0..MaxAttempts
         /\ made = 1..Cardinality(made)
    <3> HIDE DEF made
    <3> QED
      BY <2>6, <2>8, <2>9
  <2> QED
    BY <2>10
<1> QED
  BY <1>1, <1>2

(***************************************************************************)
(* The inductive invariant.                                                *)
(***************************************************************************)

Stages == {"idle", "activation", "source", "deliver", "save"}
Entries == [grant : Grants, count : 0..MaxAttempts]
Places == [pc : Stages, batch : Seq(Entries), latest : Nat \union {None},
           outcome : Outcomes \union {None}]

\* What still holds of an entry of a batch: its grant was given, the attempts
\* counted were made and decided nothing, and there is room for one more.
Valid(e) ==
    /\ e.grant <= Len(grants)
    /\ e.count < MaxAttempts
    /\ \A n \in 1..e.count : attempts[e.grant][n] # None /\ ~Final(attempts[e.grant][n], n)

RunnerOK(w) ==
    /\ runner[w].pc # "idle" => runner[w].batch # <<>>
    /\ runner[w].pc = "save" => runner[w].outcome # None
    /\ Len(runner[w].batch) <= Limit
    /\ \A i \in 1..Len(runner[w].batch) : Valid(runner[w].batch[i])

Logs == {log \in [Numbers -> Outcomes \union {None}] : WellFormed(log)}

Owner ==
    /\ source \in {"prepared", "changed", "gone"}
    /\ time \in {"ahead", "due", "over"}
    /\ edits \in 0..MaxEdits /\ faults \in 0..MaxFaults

\* Every grant was given under an approval.
Granted ==
    /\ decisions \in Seq(Decisions) /\ Len(decisions) <= MaxDecisions
    /\ grants \in Seq(Nat)
    /\ \A g \in 1..Len(grants) :
          grants[g] \in 1..Len(decisions) /\ decisions[grants[g]] = "approved"

IInv ==
    /\ Owner
    /\ Granted
    /\ attempts \in [Grants -> Logs]
    /\ signals \subseteq 1..Len(grants)
    /\ runner \in [Runners -> Places]
    /\ \A w \in Runners : RunnerOK(w)

\* All a runner needs to know of a step of another: grants and attempts stay.
LEMMA OthersKeep ==
    ASSUME NEW w \in Runners, RunnerOK(w), runner \in [Runners -> Places],
           runner'[w] = runner[w],
           Len(grants) \in Nat, Len(grants') \in Nat, Len(grants) <= Len(grants'),
           \A g \in Grants, n \in Numbers :
              attempts[g][n] # None => attempts'[g][n] = attempts[g][n]
    PROVE  RunnerOK(w)'
<1>1. runner[w].batch \in Seq(Entries)
  BY DEF Places
<1>2. ASSUME NEW i \in 1..Len(runner[w].batch)
      PROVE  Valid(runner[w].batch[i])'
  <2>1. PICK e \in Entries : e = runner[w].batch[i]
    BY <1>1
  <2>2. Valid(e) /\ e.grant \in Grants /\ e.count \in 0..MaxAttempts /\ e.grant \in Nat
    BY <2>1 DEF RunnerOK, Entries, Grants
  <2>3. \A n \in 1..e.count : n \in Numbers
    BY <2>2, ConstantFacts DEF Numbers
  <2>4. e.grant <= Len(grants')
    BY <2>2 DEF Valid
  <2>5. \A n \in 1..e.count : attempts'[e.grant][n] = attempts[e.grant][n]
    BY <2>2, <2>3 DEF Valid
  <2>6. runner'[w].batch[i] = e
    BY <2>1
  <2> QED
    BY <2>2, <2>4, <2>5, <2>6 DEF Valid, Final
<1> QED
  BY <1>2 DEF RunnerOK

\* A step of runner w that leaves the log and the grants to others.
LEMMA OthersMove ==
    ASSUME IInv, NEW w \in Runners, NEW place, runner' = [runner EXCEPT ![w] = place],
           UNCHANGED <<grants, attempts>>, place \in Places, RunnerOK(w)'
    PROVE  runner' \in [Runners -> Places] /\ \A v \in Runners : RunnerOK(v)'
<1>1. ASSUME NEW v \in Runners, v # w
      PROVE  RunnerOK(v)'
  <2>1. runner'[v] = runner[v] /\ RunnerOK(v) /\ Len(grants) \in Nat
    BY <1>1 DEF IInv, Granted
  <2> QED
    BY <2>1, OthersKeep DEF IInv
<1> QED
  BY <1>1 DEF IInv

LEMMA IdlePlace == Idle \in Places /\ Idle.pc = "idle" /\ Len(Idle.batch) = 0
<1> QED
  BY DEF Idle, Places, Stages

\* A runner that begins with a batch, or with what is left of it.
LEMMA BatchPlace ==
    ASSUME NEW b \in Seq(Entries)
    PROVE  LET place == [Idle EXCEPT !.pc = "activation", !.batch = b]
           IN  place \in Places /\ place.pc = "activation" /\ place.batch = b
<1> DEFINE place == [Idle EXCEPT !.pc = "activation", !.batch = b]
<1>1. Idle \in Places
  BY IdlePlace
<1>2. place.pc = "activation" /\ place.batch = b
  BY <1>1 DEF Places
<1>3. place \in Places
  BY <1>1 DEF Places, Stages
<1> QED
  BY <1>2, <1>3

-----------------------------------------------------------------------------
(* The owner, time and the source: only the places of the runners are shared *)

LEMMA InitInv == Init => IInv
<1> SUFFICES ASSUME Init
             PROVE  IInv
  OBVIOUS
<1>1. 0 \in 0..MaxEdits /\ 0 \in 0..MaxFaults
  BY ConstantFacts
<1>2. Owner
  BY <1>1 DEF Init, Owner
<1>3. Granted
  BY ConstantFacts DEF Init, Granted
<1>4. [n \in Numbers |-> None] \in Logs
  BY DEF Logs, WellFormed
<1>5. attempts \in [Grants -> Logs]
  BY <1>4 DEF Init
<1>6. \A w \in Runners : runner[w] = Idle
  BY DEF Init
<1>7. \A w \in Runners : RunnerOK(w)
  BY <1>6, ConstantFacts DEF Idle, RunnerOK
<1>8. runner \in [Runners -> Places]
  BY IdlePlace DEF Init
<1> QED
  BY <1>2, <1>3, <1>5, <1>7, <1>8 DEF Init, IInv

LEMMA DecideStep ==
    ASSUME IInv, NEW d \in Decisions, Decide(d)
    PROVE  IInv'
<1>1. decisions' = Append(decisions, d) /\ Len(decisions) < MaxDecisions
  BY DEF Decide, SaveDecision, Tip, IInv, Granted
<1>2. decisions \in Seq(Decisions) /\ Len(decisions) \in Nat
  BY DEF IInv, Granted
<1>3. /\ decisions' \in Seq(Decisions) /\ Len(decisions') = Len(decisions) + 1
      /\ \A n \in 1..Len(decisions) : decisions'[n] = decisions[n]
  BY <1>1, <1>2
<1>4. UNCHANGED <<source, time, grants, attempts, signals, runner, edits, faults>>
  BY DEF Decide
<1>5. Granted'
  <2>1. Len(decisions') <= MaxDecisions
    BY <1>1, <1>2, <1>3, ConstantFacts
  <2>2. ASSUME NEW g \in 1..Len(grants)
        PROVE  grants[g] \in 1..Len(decisions') /\ decisions'[grants[g]] = "approved"
    <3>1. grants[g] \in 1..Len(decisions) /\ decisions[grants[g]] = "approved"
      BY DEF IInv, Granted
    <3> QED
      BY <1>2, <1>3, <3>1
  <2> QED
    BY <1>3, <1>4, <2>1, <2>2 DEF IInv, Granted
<1> QED
  BY <1>4, <1>5 DEF IInv, Owner, RunnerOK, Valid

LEMMA AuthorizeStep ==
    ASSUME IInv, Authorize
    PROVE  IInv'
<1>1. grants' = Append(grants, Len(decisions)) /\ Len(decisions) > 0
      /\ decisions[Len(decisions)] = "approved"
  BY DEF Authorize, FindOrCreateAuthorization, Approved, Tip
<1>2. grants \in Seq(Nat) /\ Len(decisions) \in Nat /\ Len(grants) \in Nat
  BY DEF IInv, Granted
<1>3. /\ grants' \in Seq(Nat) /\ Len(grants') = Len(grants) + 1
      /\ grants'[Len(grants) + 1] = Len(decisions)
      /\ \A g \in 1..Len(grants) : grants'[g] = grants[g]
  BY <1>1, <1>2
<1>4. UNCHANGED <<source, decisions, time, attempts, signals, runner, edits, faults>>
  BY DEF Authorize
<1>5. Granted'
  <2>1. ASSUME NEW g \in 1..Len(grants')
        PROVE  grants'[g] \in 1..Len(decisions) /\ decisions[grants'[g]] = "approved"
    <3>1. CASE g \in 1..Len(grants)
      BY <1>3, <3>1 DEF IInv, Granted
    <3>2. CASE g = Len(grants) + 1
      BY <1>1, <1>2, <1>3, <3>2
    <3> QED
      BY <1>2, <1>3, <3>1, <3>2
  <2> QED
    BY <1>3, <1>4, <2>1 DEF IInv, Granted
<1>6. ASSUME NEW w \in Runners
      PROVE  RunnerOK(w)'
  BY <1>2, <1>3, <1>4, OthersKeep DEF IInv
<1>7. signals' \subseteq 1..Len(grants')
  BY <1>2, <1>3, <1>4 DEF IInv
<1> QED
  BY <1>4, <1>5, <1>6, <1>7 DEF IInv, Owner

LEMMA WorldStep ==
    ASSUME IInv, Edit \/ TimePasses
    PROVE  IInv'
<1>1. UNCHANGED <<decisions, grants, attempts, signals, runner>>
  BY DEF Edit, TimePasses
<1>2. Owner'
  <2>1. CASE Edit
    <3>1. edits' \in 0..MaxEdits
      BY <2>1, ConstantFacts DEF Edit, IInv, Owner
    <3> QED
      BY <2>1, <3>1 DEF Edit, IInv, Owner
  <2>2. CASE TimePasses
    BY <2>2 DEF TimePasses, IInv, Owner
  <2> QED
    BY <2>1, <2>2
<1> QED
  BY <1>1, <1>2 DEF IInv, Granted, RunnerOK, Valid

-----------------------------------------------------------------------------
(* The runners *)

LEMMA FaultFacts ==
    ASSUME IInv, Fault
    PROVE  faults' \in 0..MaxFaults
<1> QED
  BY ConstantFacts DEF IInv, Owner, Fault

\* A runner that goes back to waiting.
LEMMA RestStep ==
    ASSUME IInv, NEW w \in Runners, Rest(w)
    PROVE  runner' = [runner EXCEPT ![w] = Idle] /\ Idle \in Places /\ RunnerOK(w)'
<1>1. runner'[w] = Idle
  BY DEF Rest, IInv
<1> QED
  BY <1>1, IdlePlace, ConstantFacts DEF Rest, RunnerOK, Idle

LEMMA DieStep ==
    ASSUME IInv, NEW w \in Runners, Die(w)
    PROVE  IInv'
<1>1. UNCHANGED <<source, decisions, time, grants, attempts, signals, edits>>
  BY DEF Die
<1>2. runner' \in [Runners -> Places] /\ \A v \in Runners : RunnerOK(v)'
  BY <1>1, RestStep, OthersMove DEF Die
<1>3. faults' \in 0..MaxFaults
  BY FaultFacts DEF Die
<1> QED
  BY <1>1, <1>2, <1>3 DEF IInv, Owner, Granted

\* A grant that is due was counted right.
LEMMA DueFacts ==
    ASSUME IInv, NEW g \in Grants, Due(g)
    PROVE  [grant |-> g, count |-> Count(g)] \in Entries /\ Valid([grant |-> g, count |-> Count(g)])
<1>1. attempts[g] \in Logs
  BY DEF IInv
<1>2. Count(g) \in 0..MaxAttempts /\ {n \in Numbers : attempts[g][n] # None} = 1..Count(g)
  BY <1>1, CountedAttempts DEF Logs, Count
<1>3. \A n \in 1..Count(g) : n \in Numbers /\ attempts[g][n] # None
  BY <1>2
<1>4. \A n \in 1..Count(g) : ~Final(attempts[g][n], n)
  BY <1>3 DEF Due
<1>5. PICK c \in 0..MaxAttempts : c = Count(g)
  BY <1>2
<1>6. g <= Len(grants) /\ c < MaxAttempts
  BY <1>5 DEF Due
<1>7. [grant |-> g, count |-> c] \in Entries
  BY DEF Entries
<1>8. Valid([grant |-> g, count |-> c])
  BY <1>3, <1>4, <1>5, <1>6 DEF Valid
<1> QED
  BY <1>5, <1>7, <1>8

LEMMA FindDueStep ==
    ASSUME IInv, NEW w \in Runners, FindDue(w)
    PROVE  IInv'
<1> DEFINE due == {g \in Grants : Due(g)}
<1> DEFINE size == IF Cardinality(due) < Limit THEN Cardinality(due) ELSE Limit
<1>1. IsFiniteSet(due)
  <2>1. IsFiniteSet(Grants)
    BY FS_Interval, ConstantFacts DEF Grants
  <2>2. due \in SUBSET Grants
    OBVIOUS
  <2> QED
    BY <2>1, <2>2, FS_Subset
<1>2. Cardinality(due) \in Nat /\ due # {}
  BY <1>1, FS_CardinalityType DEF FindDue
<1>3. Cardinality(due) # 0
  BY <1>1, <1>2, FS_EmptySet
<1>4. PICK s \in Nat : s = size /\ s # 0 /\ s <= Limit
  <2>1. PICK c \in Nat : c = Cardinality(due)
    BY <1>2
  <2>2. c # 0
    BY <1>3, <2>1
  <2> HIDE DEF due
  <2> QED
    BY <2>1, <2>2, ConstantFacts
<1>5. PICK batch \in [1..s -> due] :
         runner' = [runner EXCEPT ![w] =
                      [Idle EXCEPT !.pc = "activation",
                                   !.batch = [i \in 1..s |->
                                       [grant |-> batch[i], count |-> Count(batch[i])]]]]
  BY <1>4 DEF FindDue
<1> DEFINE entry(i) == [grant |-> batch[i], count |-> Count(batch[i])]
<1>6. \A i \in 1..s : entry(i) \in Entries /\ Valid(entry(i))
  <2> SUFFICES ASSUME NEW i \in 1..s
               PROVE  entry(i) \in Entries /\ Valid(entry(i))
    OBVIOUS
  <2>1. batch[i] \in Grants /\ Due(batch[i])
    BY <1>5
  <2> QED
    BY <2>1, DueFacts
<1>7. PICK b : b = [i \in 1..s |-> entry(i)]
  OBVIOUS
<1>8. /\ b \in Seq(Entries) /\ Len(b) = s /\ b # <<>>
      /\ \A i \in 1..Len(b) : Valid(b[i])
  <2>1. \A i \in 1..s : b[i] \in Entries /\ Valid(b[i])
    BY <1>6, <1>7
  <2>2. b \in [1..s -> Entries]
    BY <1>6, <1>7
  <2> HIDE DEF due, size, entry
  <2>3. b \in Seq(Entries) /\ Len(b) = s
    BY <1>4, <2>2
  <2> QED
    BY <1>4, <2>1, <2>3
<1>9. UNCHANGED <<source, decisions, time, grants, attempts, signals, edits, faults>>
  BY DEF FindDue
<1>10. PICK place : place = [Idle EXCEPT !.pc = "activation", !.batch = b]
  OBVIOUS
<1>11. runner' = [runner EXCEPT ![w] = place]
  BY <1>5, <1>7, <1>10
<1> HIDE DEF due, size, entry
<1>12. place \in Places /\ place.pc = "activation" /\ place.batch = b
  BY <1>8, <1>10, BatchPlace
<1>13. runner'[w] = place
  BY <1>11 DEF IInv
<1>14. RunnerOK(w)'
  BY <1>4, <1>8, <1>9, <1>12, <1>13 DEF RunnerOK, Valid
<1>15. runner' \in [Runners -> Places] /\ \A v \in Runners : RunnerOK(v)'
  BY <1>9, <1>11, <1>12, <1>14, OthersMove
<1> QED
  BY <1>9, <1>15 DEF IInv, Owner, Granted

\* A step that moves a runner on and leaves it its batch.
LEMMA GoOn ==
    ASSUME IInv, NEW w \in Runners, NEW pc \in Stages, NEW latest, NEW outcome,
           runner[w].pc # "idle", pc = "save" => outcome # None,
           latest \in Nat \union {None}, outcome \in Outcomes \union {None},
           UNCHANGED <<grants, attempts>>,
           runner' = [runner EXCEPT ![w].pc = pc, ![w].latest = latest, ![w].outcome = outcome]
    PROVE  runner' \in [Runners -> Places] /\ \A v \in Runners : RunnerOK(v)'
<1>1. PICK place : place = [runner[w] EXCEPT !.pc = pc, !.latest = latest, !.outcome = outcome]
  OBVIOUS
<1>2. runner[w] \in Places /\ RunnerOK(w)
  BY DEF IInv
<1>3. /\ place \in Places /\ place.batch = runner[w].batch
      /\ place.pc = pc /\ place.outcome = outcome
  BY <1>1, <1>2 DEF Places
<1>4. runner' = [runner EXCEPT ![w] = place]
  BY <1>1, <1>2 DEF Places, IInv
<1>5. runner'[w] = place
  BY <1>4 DEF IInv
<1>6. RunnerOK(w)'
  BY <1>2, <1>3, <1>5 DEF RunnerOK, Valid
<1> QED
  BY <1>3, <1>4, <1>6, OthersMove

LEMMA LoadActivationStep ==
    ASSUME IInv, NEW w \in Runners, LoadActivation(w)
    PROVE  IInv'
<1>1. UNCHANGED <<source, decisions, time, grants, attempts, signals, edits>>
  BY DEF LoadActivation
<1>2. PICK latest \in Nat \union {None} :
         runner' = [runner EXCEPT ![w].pc = "source", ![w].latest = latest]
  <2>1. Tip \in Nat
    BY DEF Tip, IInv, Granted
  <2> QED
    BY <2>1 DEF LoadActivation
<1>3. runner[w] \in Places /\ runner[w].pc = "activation"
  BY DEF IInv, LoadActivation
<1>4. runner' = [runner EXCEPT ![w].pc = "source", ![w].latest = latest,
                               ![w].outcome = runner[w].outcome]
  BY <1>2, <1>3 DEF IInv, Places
<1>5. runner' \in [Runners -> Places] /\ \A v \in Runners : RunnerOK(v)'
  BY <1>1, <1>3, <1>4, GoOn DEF Places, Stages
<1>6. faults' \in 0..MaxFaults
  BY FaultFacts DEF LoadActivation, IInv, Owner
<1> QED
  BY <1>1, <1>5, <1>6 DEF IInv, Owner, Granted

LEMMA LoadSourceStep ==
    ASSUME IInv, NEW w \in Runners, LoadSource(w)
    PROVE  IInv'
<1>1. UNCHANGED <<source, decisions, time, grants, attempts, signals, edits>>
  BY DEF LoadSource
<1>2. PICK outcome \in Outcomes \union {None} :
         runner' = [runner EXCEPT ![w].pc = IF outcome = None THEN "deliver" ELSE "save",
                                  ![w].outcome = outcome, ![w].latest = None]
  <2>1. Judge(runner[w].latest, runner[w].batch[1].grant, source) \in Outcomes \union {None}
    BY DEF Judge, Outcomes
  <2>2. "unread" \in Outcomes
    BY DEF Outcomes
  <2> QED
    BY <2>1, <2>2 DEF LoadSource
<1>3. PICK pc \in Stages : pc = IF outcome = None THEN "deliver" ELSE "save"
  BY DEF Stages
<1>4. runner' = [runner EXCEPT ![w].pc = pc, ![w].latest = None, ![w].outcome = outcome]
  BY <1>2, <1>3 DEF IInv, Places
<1>5. runner[w].pc # "idle" /\ (pc = "save" => outcome # None)
  BY <1>3 DEF LoadSource
<1>6. runner' \in [Runners -> Places] /\ \A v \in Runners : RunnerOK(v)'
  BY <1>1, <1>4, <1>5, GoOn
<1>7. faults' \in 0..MaxFaults
  BY FaultFacts DEF LoadSource, IInv, Owner
<1> QED
  BY <1>1, <1>6, <1>7 DEF IInv, Owner, Granted

\* The entry a runner works on.
LEMMA FirstEntry ==
    ASSUME IInv, NEW w \in Runners, runner[w].pc # "idle"
    PROVE  /\ runner[w].batch \in Seq(Entries) /\ Len(runner[w].batch) \in Nat \ {0}
           /\ runner[w].batch[1] \in Entries /\ Valid(runner[w].batch[1])
<1>1. runner[w] \in Places /\ RunnerOK(w)
  BY DEF IInv
<1>2. runner[w].batch \in Seq(Entries) /\ runner[w].batch # <<>>
  BY <1>1 DEF Places, RunnerOK
<1>3. Len(runner[w].batch) \in Nat \ {0} /\ 1 \in 1..Len(runner[w].batch)
  BY <1>2
<1> QED
  BY <1>1, <1>2, <1>3 DEF RunnerOK

LEMMA DeliverStep ==
    ASSUME IInv, NEW w \in Runners, Deliver(w)
    PROVE  IInv'
<1>1. UNCHANGED <<source, decisions, time, grants, attempts, edits>>
  BY DEF Deliver
<1>2. runner[w].pc = "deliver"
  BY DEF Deliver
<1>3. PICK outcome \in {"delivered", "failed"} :
         runner' = [runner EXCEPT ![w].pc = "save", ![w].outcome = outcome]
  BY DEF Deliver
<1>4. outcome \in Outcomes /\ outcome # None
  BY ConstantFacts DEF Outcomes
<1>5. runner[w] \in Places
  BY DEF IInv
<1>6. runner' = [runner EXCEPT ![w].pc = "save", ![w].latest = runner[w].latest,
                               ![w].outcome = outcome]
  BY <1>3, <1>5 DEF IInv, Places
<1>7. runner' \in [Runners -> Places] /\ \A v \in Runners : RunnerOK(v)'
  BY <1>1, <1>2, <1>4, <1>5, <1>6, GoOn DEF Places, Stages
<1>8. runner[w].batch[1].grant \in 1..Len(grants)
  BY <1>2, FirstEntry DEF Entries, Valid, Grants, IInv, Granted
<1>9. signals' \subseteq 1..Len(grants)
  BY <1>8 DEF Deliver, IInv
<1>10. faults' \in 0..MaxFaults
  BY FaultFacts DEF Deliver, IInv, Owner
<1> QED
  BY <1>1, <1>7, <1>9, <1>10 DEF IInv, Owner, Granted

\* The next of its batch, or back to waiting.
LEMMA NextGrantFacts ==
    ASSUME IInv, NEW w \in Runners, runner[w].pc # "idle", NextGrant(w)
    PROVE  \E place \in Places :
              /\ runner' = [runner EXCEPT ![w] = place]
              /\ place.pc \in {"idle", "activation"}
              /\ place.pc = "idle" \/ place.batch # <<>>
              /\ Len(place.batch) <= Limit
              /\ \A i \in 1..Len(place.batch) : Valid(place.batch[i])
<1>1. /\ runner[w].batch \in Seq(Entries) /\ Len(runner[w].batch) \in Nat \ {0}
      /\ Len(runner[w].batch) <= Limit
      /\ \A i \in 1..Len(runner[w].batch) : Valid(runner[w].batch[i])
  BY FirstEntry DEF IInv, RunnerOK
<1>2. CASE Len(runner[w].batch) = 1
  <2>1. Rest(w)
    BY <1>2 DEF NextGrant
  <2>2. runner' = [runner EXCEPT ![w] = Idle]
    BY <2>1 DEF Rest
  <2>3. Len(Idle.batch) <= Limit /\ \A i \in 1..Len(Idle.batch) : Valid(Idle.batch[i])
    BY IdlePlace, ConstantFacts
  <2> QED
    BY <2>2, <2>3, IdlePlace
<1>3. CASE Len(runner[w].batch) # 1
  <2>1. PICK b : b = Tail(runner[w].batch)
    OBVIOUS
  <2>2. /\ b \in Seq(Entries) /\ Len(b) = Len(runner[w].batch) - 1
        /\ \A i \in 1..Len(b) : b[i] = runner[w].batch[i + 1]
    BY <1>1, <2>1
  <2>3. PICK k \in Nat : k = Len(runner[w].batch) /\ k # 0 /\ k # 1 /\ k <= Limit
    BY <1>1, <1>3
  <2>4. Len(b) = k - 1 /\ Len(b) <= Limit /\ b # <<>>
    <3>1. Len(b) = k - 1
      BY <2>2, <2>3
    <3>2. k - 1 <= Limit /\ k - 1 # 0
      BY <2>3, ConstantFacts
    <3> QED
      BY <2>2, <3>1, <3>2
  <2>5. \A i \in 1..(k - 1) : Valid(runner[w].batch[i + 1])
    <3> SUFFICES ASSUME NEW i \in 1..(k - 1)
                 PROVE  Valid(runner[w].batch[i + 1])
      OBVIOUS
    <3>1. i + 1 \in 1..k
      BY <2>3
    <3> QED
      BY <1>1, <2>3, <3>1
  <2>6. \A i \in 1..Len(b) : Valid(b[i])
    BY <2>2, <2>4, <2>5
  <2>7. PICK place : place = [Idle EXCEPT !.pc = "activation", !.batch = b]
    OBVIOUS
  <2>8. runner' = [runner EXCEPT ![w] = place]
    BY <1>3, <2>1, <2>7 DEF NextGrant
  <2>9. place \in Places /\ place.batch = b /\ place.pc = "activation"
    BY <2>2, <2>7, BatchPlace
  <2> QED
    BY <2>4, <2>6, <2>8, <2>9
<1> QED
  BY <1>2, <1>3

\* An attempt that is recorded takes the first free place of the log, behind
\* attempts that decided nothing, or repeats the one that is there.
LEMMA AttemptFacts ==
    ASSUME IInv, NEW e \in Entries, Valid(e), NEW outcome \in Outcomes,
           NEW o \in Recorded(attempts[e.grant][e.count + 1], outcome),
           attempts' = [attempts EXCEPT ![e.grant][e.count + 1] = o]
    PROVE  /\ attempts' \in [Grants -> Logs]
           /\ \A g \in Grants, n \in Numbers :
                 attempts[g][n] # None => attempts'[g][n] = attempts[g][n]
<1>1. PICK g \in Grants, c \in 0..MaxAttempts : e.grant = g /\ e.count = c
  BY DEF Entries
<1>2. PICK n \in Numbers : n = c + 1
  BY <1>1, ConstantFacts DEF Valid, Numbers
<1>3. PICK log \in Logs : log = attempts[g]
  BY <1>1 DEF IInv
<1>4. log \in [Numbers -> Outcomes \union {None}] /\ WellFormed(log)
  BY <1>3 DEF Logs
<1>5. o = outcome /\ log[n] \in {None, o}
  BY <1>1, <1>2, <1>3 DEF Recorded
<1>6. \A m \in 1..(n - 1) : log[m] # None /\ ~Final(log[m], m)
  BY <1>1, <1>2, <1>3 DEF Valid
<1>7. PICK new : new = [log EXCEPT ![n] = o]
  OBVIOUS
<1>8. new \in [Numbers -> Outcomes \union {None}] /\ new[n] = o
      /\ \A m \in Numbers : m # n => new[m] = log[m]
  BY <1>4, <1>5, <1>7
<1>9. MaxAttempts \in Nat /\ n \in Nat
  BY ConstantFacts DEF Numbers
<1>10. WellFormed(new)
  <2> SUFFICES ASSUME NEW m \in Numbers, new[m] # None, NEW k \in 1..(m - 1)
               PROVE  new[k] # None /\ ~Final(new[k], k)
    BY DEF WellFormed
  <2>1. m \in Nat /\ k \in Numbers /\ k < m
    BY <1>9 DEF Numbers
  <2>2. CASE m = n
    BY <1>6, <1>8, <2>1, <2>2
  <2>3. CASE m # n
    <3>1. log[m] # None
      BY <1>8, <2>3
    <3>2. log[k] # None /\ ~Final(log[k], k)
      BY <1>4, <3>1 DEF WellFormed
    <3>3. k = n => new[k] = log[k]
      BY <1>5, <1>8, <3>2
    <3> QED
      BY <1>8, <2>1, <3>2, <3>3
  <2> QED
    BY <2>2, <2>3
<1>11. attempts' = [attempts EXCEPT ![g] = new]
  BY <1>1, <1>2, <1>3, <1>7 DEF IInv
<1>12. attempts' \in [Grants -> Logs]
  BY <1>8, <1>10, <1>11 DEF IInv, Logs
<1>13. attempts'[g] = new /\ \A h \in Grants : h # g => attempts'[h] = attempts[h]
  BY <1>11 DEF IInv
<1>14. \A m \in Numbers : log[m] # None => new[m] = log[m]
  BY <1>5, <1>8
<1> QED
  BY <1>3, <1>12, <1>13, <1>14

LEMMA SaveAttemptStep ==
    ASSUME IInv, NEW w \in Runners, SaveAttempt(w)
    PROVE  IInv'
<1>1. UNCHANGED <<source, decisions, time, grants, signals, edits>>
  BY DEF SaveAttempt
<1>2. runner[w].pc = "save" /\ RunnerOK(w) /\ runner[w] \in Places
  BY DEF SaveAttempt, IInv
<1>3. runner[w].outcome \in Outcomes
  BY <1>2 DEF RunnerOK, Places
<1>4. PICK e \in Entries : e = runner[w].batch[1] /\ Valid(e)
  BY <1>2, FirstEntry
<1>5. CASE Rest(w) /\ UNCHANGED attempts /\ faults' \in 0..MaxFaults
  <2>1. runner' \in [Runners -> Places] /\ \A v \in Runners : RunnerOK(v)'
    BY <1>1, <1>5, RestStep, OthersMove
  <2> QED
    BY <1>1, <1>5, <2>1 DEF IInv, Owner, Granted
<1>6. CASE /\ \E o \in Recorded(attempts[e.grant][e.count + 1], runner[w].outcome) :
                attempts' = [attempts EXCEPT ![e.grant][e.count + 1] = o]
           /\ NextGrant(w)
           /\ UNCHANGED faults
  <2>1. attempts' \in [Grants -> Logs]
        /\ \A g \in Grants, n \in Numbers :
              attempts[g][n] # None => attempts'[g][n] = attempts[g][n]
    BY <1>3, <1>4, <1>6, AttemptFacts
  <2>2. PICK place \in Places :
              /\ runner' = [runner EXCEPT ![w] = place]
              /\ place.pc \in {"idle", "activation"}
              /\ place.pc = "idle" \/ place.batch # <<>>
              /\ Len(place.batch) <= Limit
              /\ \A i \in 1..Len(place.batch) : Valid(place.batch[i])
    BY <1>2, <1>6, NextGrantFacts
  <2>3. Len(grants) \in Nat /\ grants' = grants
    BY <1>1 DEF IInv, Granted
  <2>4. ASSUME NEW v \in Runners, v # w
        PROVE  RunnerOK(v)'
    <3>1. runner'[v] = runner[v] /\ RunnerOK(v)
      BY <2>2, <2>4 DEF IInv
    <3> QED
      BY <2>1, <2>3, <3>1, OthersKeep DEF IInv
  <2>5. ASSUME NEW i \in 1..Len(place.batch)
        PROVE  Valid(place.batch[i])'
    <3>1. place.batch \in Seq(Entries)
      BY <2>2 DEF Places
    <3>2. PICK d \in Entries : d = place.batch[i]
      BY <3>1
    <3>3. Valid(d) /\ d.grant \in Grants /\ d.count \in 0..MaxAttempts
      BY <2>2, <3>2 DEF Entries
    <3>4. \A n \in 1..d.count : n \in Numbers
      BY <3>3, ConstantFacts DEF Numbers
    <3>5. \A n \in 1..d.count : attempts'[d.grant][n] = attempts[d.grant][n]
      BY <2>1, <3>3, <3>4 DEF Valid
    <3> QED
      BY <2>3, <3>2, <3>3, <3>5 DEF Valid, Final
  <2>6. runner'[w] = place
    BY <2>2 DEF IInv
  <2>7. RunnerOK(w)'
    BY <2>2, <2>5, <2>6 DEF RunnerOK
  <2>8. runner' \in [Runners -> Places]
    BY <2>2 DEF IInv
  <2>9. \A v \in Runners : RunnerOK(v)'
    BY <2>4, <2>7
  <2> QED
    BY <1>1, <1>6, <2>1, <2>8, <2>9 DEF IInv, Owner, Granted
<1>7. faults' = faults => faults' \in 0..MaxFaults
  BY DEF IInv, Owner
<1>8. Fault => faults' \in 0..MaxFaults
  BY FaultFacts
<1> QED
  BY <1>4, <1>5, <1>6, <1>7, <1>8 DEF SaveAttempt, AttemptNumber

-----------------------------------------------------------------------------
LEMMA StepInduction == IInv /\ [Next]_vars => IInv'
<1> SUFFICES ASSUME IInv, [Next]_vars
             PROVE  IInv'
  OBVIOUS
<1>1. CASE UNCHANGED vars
  BY <1>1 DEF vars, IInv, Owner, Granted, RunnerOK, Valid
<1>2. CASE Next
  BY <1>2, DecideStep, AuthorizeStep, FindDueStep, LoadActivationStep, LoadSourceStep,
     DeliverStep, SaveAttemptStep, DieStep, WorldStep DEF Next, RunStep
<1> QED
  BY <1>1, <1>2

\* Whatever other runners wrote meanwhile, the attempts a runner has counted are
\* there when it numbers its own, and none of them settled the grant
\* (runDueReminderDeliveries, SaveReminderDeliveryAttempt).
THEOREM Invariance == Spec => []IInv
<1> QED
  BY InitInv, StepInduction, PTL DEF Spec

\* Two runners that attempt one grant, at any speed, leave one log: numbered
\* without gaps, with one verdict, after which nothing is attempted
\* (uq_workflow_reminder_delivery_attempt, SaveReminderDeliveryAttempt).
THEOREM TypeCorrect == Spec => []TypeOK
<1>1. IInv => TypeOK
  BY DEF IInv, Owner, Granted, RunnerOK, Places, Stages, Logs, TypeOK, Tip
<1> QED
  BY <1>1, Invariance, PTL

-----------------------------------------------------------------------------
(* A superseded grant *)

\* The approval has been replaced or revoked, the signal is not in the inbox, and
\* whoever read the decision since read another one.
Silent(g) ==
    /\ g <= Len(grants) /\ g \notin signals
    /\ Len(decisions) > grants[g]
    /\ \A w \in Runners :
          /\ runner[w].pc = "source" /\ runner[w].batch[1].grant = g =>
                runner[w].latest = None \/ runner[w].latest # grants[g]
          /\ runner[w].pc = "deliver" => runner[w].batch[1].grant # g

LEMMA SilentFrom ==
    ASSUME IInv, NEW g \in Grants, Superseded(g)
    PROVE  Silent(g)
<1> QED
  BY DEF Superseded, Silent, Tip

\* A step that leaves the runners alone.
LEMMA SilentOwner ==
    ASSUME IInv, NEW g \in Grants, Silent(g),
           UNCHANGED <<signals, runner>>,
           \/ UNCHANGED <<decisions, grants>>
           \/ \E d \in Decisions : Decide(d)
           \/ Authorize
    PROVE  Silent(g)'
<1>1. Len(decisions) \in Nat /\ decisions \in Seq(Decisions) /\ grants \in Seq(Nat)
      /\ Len(grants) \in Nat /\ g \in 1..Len(grants) /\ grants[g] \in Nat
  BY DEF IInv, Granted, Silent, Grants
<1>2. Len(decisions') >= Len(decisions) /\ Len(decisions') \in Nat
  BY <1>1 DEF Decide, SaveDecision, Authorize
<1>3. Len(grants') >= Len(grants) /\ Len(grants') \in Nat /\ grants'[g] = grants[g]
  BY <1>1 DEF Decide, Authorize, FindOrCreateAuthorization
<1> QED
  BY <1>1, <1>2, <1>3 DEF Silent

\* A step of a runner that is not at one of the two stages with g afterwards.
LEMMA SilentRunner ==
    ASSUME IInv, NEW g \in Grants, Silent(g), NEW w \in Runners, NEW place,
           runner' = [runner EXCEPT ![w] = place],
           UNCHANGED <<decisions, grants, signals>>,
           place.pc = "source" /\ place.batch[1].grant = g =>
              place.latest = None \/ place.latest # grants[g],
           place.pc = "deliver" => place.batch[1].grant # g
    PROVE  Silent(g)'
<1>1. runner'[w] = place /\ \A v \in Runners : v # w => runner'[v] = runner[v]
  BY DEF IInv
<1> QED
  BY <1>1 DEF Silent

\* The delivery of another grant, and what changes no more than the log.
LEMMA SilentSteps ==
    ASSUME IInv, NEW g \in Grants, Silent(g), NEW w \in Runners,
           FindDue(w) \/ RunStep(w) \/ Die(w)
    PROVE  Silent(g)'
<1>1. UNCHANGED <<decisions, grants>>
  BY DEF FindDue, RunStep, LoadActivation, LoadSource, Deliver, SaveAttempt, Die
<1>2. runner[w] \in Places /\ runner \in [Runners -> Places]
  BY DEF IInv
<1>3. Idle.pc = "idle"
  BY IdlePlace
<1>4. CASE FindDue(w)
  <2>1. PICK b : runner' = [runner EXCEPT ![w] =
                               [Idle EXCEPT !.pc = "activation", !.batch = b]]
    BY <1>4 DEF FindDue
  <2>2. [Idle EXCEPT !.pc = "activation", !.batch = b].pc = "activation"
    BY IdlePlace DEF Places
  <2> QED
    BY <1>1, <1>4, <2>1, <2>2, SilentRunner DEF FindDue
<1>5. CASE LoadActivation(w)
  <2>1. PICK latest \in {Len(decisions), None} :
           runner' = [runner EXCEPT ![w] = [runner[w] EXCEPT !.pc = "source", !.latest = latest]]
    BY <1>2, <1>5 DEF LoadActivation, Tip
  <2>2. Len(decisions) # grants[g]
    BY DEF Silent, IInv, Granted, Grants
  <2>3. [runner[w] EXCEPT !.pc = "source", !.latest = latest].latest = latest
        /\ [runner[w] EXCEPT !.pc = "source", !.latest = latest].pc = "source"
    BY <1>2 DEF Places
  <2> QED
    BY <1>1, <1>5, <2>1, <2>2, <2>3, SilentRunner DEF LoadActivation
<1>6. CASE LoadSource(w)
  <2>1. PICK outcome \in {Judge(runner[w].latest, runner[w].batch[1].grant, source), "unread"} :
           runner' = [runner EXCEPT ![w].pc = IF outcome = None THEN "deliver" ELSE "save",
                                    ![w].outcome = outcome, ![w].latest = None]
    BY <1>6 DEF LoadSource
  <2>2. PICK place : place = [runner[w] EXCEPT !.pc = IF outcome = None THEN "deliver" ELSE "save",
                                               !.outcome = outcome, !.latest = None]
    OBVIOUS
  <2>3. runner' = [runner EXCEPT ![w] = place]
    BY <1>2, <2>1, <2>2
  <2>4. /\ place.pc = IF outcome = None THEN "deliver" ELSE "save"
        /\ place.batch = runner[w].batch
    BY <1>2, <2>2 DEF Places
  <2>5. "unread" # None /\ "revoked" # None
    BY ConstantFacts DEF Outcomes
  <2>6. runner[w].batch[1].grant = g => outcome # None
    BY <1>6, <2>1, <2>5 DEF Judge, Silent, LoadSource
  <2> QED
    BY <1>1, <1>6, <2>3, <2>4, <2>6, SilentRunner DEF LoadSource
<1>7. CASE Deliver(w)
  <2>1. runner[w].batch[1].grant # g
    BY <1>7 DEF Deliver, Silent
  <2>2. signals' \subseteq signals \union {runner[w].batch[1].grant}
    BY <1>7 DEF Deliver
  <2>3. g \notin signals'
    BY <2>1, <2>2 DEF Silent
  <2>4. runner'[w].pc = "save" /\ \A v \in Runners : v # w => runner'[v] = runner[v]
    BY <1>2, <1>7 DEF Deliver, Places
  <2> QED
    BY <1>1, <2>3, <2>4 DEF Silent
<1>8. CASE SaveAttempt(w) \/ Die(w)
  <2>1. UNCHANGED signals
    BY <1>8 DEF SaveAttempt, Die
  <2>2. CASE Rest(w)
    BY <1>1, <1>3, <2>1, <2>2, SilentRunner DEF Rest
  <2>3. CASE SaveAttempt(w) /\ NextGrant(w)
    <3>1. PICK place \in Places : runner' = [runner EXCEPT ![w] = place]
                                  /\ place.pc \in {"idle", "activation"}
      BY <2>3, NextGrantFacts DEF SaveAttempt
    <3> QED
      BY <1>1, <2>1, <3>1, SilentRunner
  <2> QED
    BY <1>8, <2>2, <2>3 DEF SaveAttempt, Die
<1> QED
  BY <1>4, <1>5, <1>6, <1>7, <1>8 DEF RunStep

LEMMA SilentStays ==
    ASSUME NEW g \in Grants
    PROVE  IInv /\ Silent(g) /\ [Next]_vars => Silent(g)'
<1> SUFFICES ASSUME IInv, Silent(g), [Next]_vars
             PROVE  Silent(g)'
  OBVIOUS
<1>1. CASE UNCHANGED vars
  BY <1>1 DEF vars, Silent
<1>2. CASE Edit \/ TimePasses
  BY <1>2, SilentOwner DEF Edit, TimePasses
<1>3. CASE Authorize \/ \E d \in Decisions : Decide(d)
  <2>1. UNCHANGED <<signals, runner>>
    BY <1>3 DEF Authorize, Decide
  <2> QED
    BY <1>3, <2>1, SilentOwner
<1> QED
  BY <1>1, <1>2, <1>3, SilentSteps DEF Next

\* A grant whose approval was revoked or replaced, when no runner holds an
\* earlier read of it, never reaches the inbox again, whoever retries it
\* (runDueReminderDeliveries, "revoked, replaced, or became unavailable").
THEOREM SupersededIsSilent == Spec => SupersededStaysSilent
<1>1. ASSUME NEW g \in Grants
      PROVE  Spec => [](Superseded(g) => [](g \notin signals))
  <2>1. IInv /\ Superseded(g) => Silent(g)
    BY SilentFrom
  <2>2. IInv /\ Silent(g) /\ [Next]_vars => Silent(g)'
    BY SilentStays
  <2>3. Silent(g) => g \notin signals
    BY DEF Silent
  <2> QED
    BY <2>1, <2>2, <2>3, Invariance, PTL DEF Spec
<1> QED
  BY <1>1 DEF SupersededStaysSilent
=============================================================================
