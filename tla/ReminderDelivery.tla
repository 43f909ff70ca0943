-------------------------- MODULE ReminderDelivery --------------------------
(***************************************************************************)
(* The reminder of one checklist item.  Its owner decides on a prepared   *)
(* reminder and grants its delivery; runners take due grants, read the     *)
(* owner's decision and the source again, put a signal into the inbox and  *)
(* append an attempt to the grant's log.  The log is the only thing that   *)
(* keeps two runners, or a runner and its successor, apart.                *)
(***************************************************************************)
EXTENDS Integers, Sequences, FiniteSets

CONSTANTS
    Runners,        \* schedulers and run requests
    None,
    MaxAttempts,    \* ReminderDeliveryMaxAttempts
    Limit,          \* the most grants one run takes
    MaxDecisions,   \* bound: decisions of the owner
    MaxEdits,       \* bound: changes of the source
    MaxFaults       \* bound: failing reads, writes and sinks, deaths

VARIABLES
    source,     \* the item, against what was prepared
    decisions,  \* the chain of decisions on the prepared reminder
    time,       \* of the reminder
    grants,     \* the delivery authorizations: the decision each was given under
    attempts,   \* the log of each grant, by attempt number
    signals,    \* the grants whose signal is in the inbox
    runner,     \* where each runner is
    edits, faults

vars == <<source, decisions, time, grants, attempts, signals, runner, edits, faults>>

\* Declined: rejected, or to be clarified.
Decisions == {"approved", "declined", "revoked"}
Outcomes == {"delivered", "revoked", "changed", "unread", "failed"}

ASSUME ReminderAssumption ==
    /\ MaxAttempts \in Nat \ {0} /\ Limit \in Nat \ {0}
    /\ MaxDecisions \in Nat /\ MaxEdits \in Nat /\ MaxFaults \in Nat
    /\ None \notin Outcomes

Idle == [pc |-> "idle", batch |-> <<>>, latest |-> None, outcome |-> None]
Grants == 1..MaxDecisions
Numbers == 1..MaxAttempts

Tip == Len(decisions)
Approved == Tip > 0 /\ decisions[Tip] = "approved"
Fault == faults < MaxFaults /\ faults' = faults + 1
Rest(w) == runner' = [runner EXCEPT ![w] = Idle]

-----------------------------------------------------------------------------
(* The owner *)

\* SaveReminderActivationDecision: the caller has to name the end of the chain.
SaveDecision(d) ==
    /\ d = "revoked" => Approved
    /\ decisions' = Append(decisions, d)

\* DecideReminderActivationForOwner.  The transaction of its save checks again all
\* that was read before it, so that only its own reads matter.  A preparation
\* takes decisions for a quarter of an hour and an approval is good for ten
\* minutes: each ends at any time, and since the owner need not act at all, ends
\* nothing but what might have happened.
Decide(d) ==
    /\ source = "prepared"
    /\ Tip < MaxDecisions
    /\ SaveDecision(d)
    /\ UNCHANGED <<source, time, grants, attempts, signals, runner, edits, faults>>

\* FindOrCreateReminderDeliveryAuthorization: an approval is used for one grant.
\* So is the caller's key: a call that is repeated finds its grant, and another
\* call with the key is refused.
FindOrCreateAuthorization ==
    /\ \A g \in 1..Len(grants) : grants[g] # Tip
    /\ grants' = Append(grants, Tip)

\* AuthorizeReminderDeliveryForOwner; its transaction too checks again all but the
\* times: the approval and the source hold still.
Authorize ==
    /\ Approved
    /\ source = "prepared"
    /\ time # "over"
    /\ FindOrCreateAuthorization
    /\ UNCHANGED <<source, decisions, time, attempts, signals, runner, edits, faults>>

-----------------------------------------------------------------------------
(* The runners *)

Count(g) == Cardinality({n \in Numbers : attempts[g][n] # None})

\* The status of an attempt: the last retryable one is a dead letter.
Final(outcome, n) ==
    \/ outcome \in {"delivered", "revoked", "changed"}
    \/ outcome \in {"unread", "failed"} /\ n >= MaxAttempts

Due(g) ==
    /\ g <= Len(grants)
    /\ time = "due"
    /\ \A n \in Numbers : ~Final(attempts[g][n], n)
    /\ Count(g) < MaxAttempts

\* FindDueReminderDeliveryAuthorizations: one statement.  Grants of one reminder
\* come in the order of their random ids.
FindDue(w) ==
    LET due == {g \in Grants : Due(g)}
        size == IF Cardinality(due) < Limit THEN Cardinality(due) ELSE Limit
    IN /\ runner[w].pc = "idle"
       /\ due # {}
       /\ \E batch \in [1..size -> due] :
             /\ \A i, j \in 1..size : i # j => batch[i] # batch[j]
             /\ runner' = [runner EXCEPT ![w] =
                   [Idle EXCEPT !.pc = "activation",
                                !.batch = [i \in 1..size |->
                                             [grant |-> batch[i], count |-> Count(batch[i])]]]]
       /\ UNCHANGED <<source, decisions, time, grants, attempts, signals, edits, faults>>

\* LoadReminderActivationRequestForOwner.
LoadActivation(w) ==
    /\ runner[w].pc = "activation"
    /\ \/ /\ runner' = [runner EXCEPT ![w].pc = "source", ![w].latest = Tip]
          /\ UNCHANGED faults
       \/ /\ Fault
          /\ runner' = [runner EXCEPT ![w].pc = "source", ![w].latest = None]
    /\ UNCHANGED <<source, decisions, time, grants, attempts, signals, edits>>

\* Mutant: any approval will do, not just the one the grant was given under.
Judge_AnyApproval(latest, g, item) ==
    IF latest = None THEN "unread"
    ELSE IF decisions[latest] # "approved" \/ item = "gone" THEN "revoked"
    ELSE IF item = "changed" THEN "changed"
    ELSE None

\* What the two reads say: a verdict, or None for a delivery.
Judge(latest, g, item) ==
    IF latest = None THEN "unread"
    ELSE IF latest # grants[g] \/ item = "gone" THEN "revoked"
    ELSE IF item = "changed" THEN "changed"
    ELSE None

\* LoadReminderActivationSourceForOwner, and the decision on both reads.
LoadSource(w) ==
    LET judged(outcome) ==
            runner' = [runner EXCEPT ![w].pc = IF outcome = None THEN "deliver" ELSE "save",
                                     ![w].outcome = outcome,
                                     ![w].latest = None]
    IN /\ runner[w].pc = "source"
       /\ \/ /\ judged(Judge(runner[w].latest, runner[w].batch[1].grant, source))
             /\ UNCHANGED faults
          \/ /\ judged("unread")
             /\ Fault
       /\ UNCHANGED <<source, decisions, time, grants, attempts, signals, edits>>

\* DeliverInternalReminder: the signal is recorded once under the grant's id.
\* The sink may fail before it, or lose the answer after it.
Deliver(w) ==
    LET g == runner[w].batch[1].grant
        answered(outcome) == runner' = [runner EXCEPT ![w].pc = "save",
                                                      ![w].outcome = outcome]
    IN /\ runner[w].pc = "deliver"
       /\ \/ /\ signals' = signals \union {g}
             /\ answered("delivered")
             /\ UNCHANGED faults
          \/ /\ signals' \in {signals, signals \union {g}}
             /\ answered("failed")
             /\ Fault
       /\ UNCHANGED <<source, decisions, time, grants, attempts, edits>>

NextGrant(w) ==
    IF Len(runner[w].batch) = 1 THEN Rest(w)
    ELSE runner' = [runner EXCEPT ![w] =
             [Idle EXCEPT !.pc = "activation", !.batch = Tail(runner[w].batch)]]

\* Mutant: the number of attempts made is the number of the next.
AttemptNumber_OffByOne(entry) == IF entry.count = 0 THEN 1 ELSE entry.count
AttemptNumber(entry) == entry.count + 1

\* Mutant: the log keeps the latest attempt of a number.
Recorded_Overwrites(old, outcome) == {outcome}

\* The attempt of a number once it is saved; none if it says something else.
Recorded(old, outcome) == IF old \in {None, outcome} THEN {outcome} ELSE {}

\* SaveReminderDeliveryAttempt: another runner may have taken the number; if it
\* found the same, the run goes on, otherwise the run ends with an error.
SaveAttempt(w) ==
    LET entry == runner[w].batch[1]
        n == AttemptNumber(entry)
        stored == Recorded(attempts[entry.grant][n], runner[w].outcome)
    IN /\ runner[w].pc = "save"
       /\ \/ /\ \E o \in stored : attempts' = [attempts EXCEPT ![entry.grant][n] = o]
             /\ NextGrant(w)
             /\ UNCHANGED faults
          \/ /\ stored = {}
             /\ Rest(w)
             /\ UNCHANGED <<attempts, faults>>
          \/ /\ Fault
             /\ Rest(w)
             /\ UNCHANGED attempts
       /\ UNCHANGED <<source, decisions, time, grants, signals, edits>>

\* The process dies.
Die(w) ==
    /\ runner[w].pc # "idle"
    /\ Fault
    /\ Rest(w)
    /\ UNCHANGED <<source, decisions, time, grants, attempts, signals, edits>>

-----------------------------------------------------------------------------
(* Time and the source *)

\* Workers and operators change the item, or change it back.
Edit ==
    /\ edits < MaxEdits
    /\ edits' = edits + 1
    /\ source' \in {"prepared", "changed", "gone"} \ {source}
    /\ UNCHANGED <<decisions, time, grants, attempts, signals, runner, faults>>

TimePasses ==
    /\ \/ time = "ahead" /\ time' = "due"
       \/ time = "due" /\ time' = "over"
    /\ UNCHANGED <<source, decisions, grants, attempts, signals, runner, edits, faults>>

-----------------------------------------------------------------------------
Init ==
    /\ source = "prepared"
    /\ decisions = <<>>
    /\ time \in {"ahead", "due"}
    /\ grants = <<>>
    /\ attempts = [g \in Grants |-> [n \in Numbers |-> None]]
    /\ signals = {}
    /\ runner = [w \in Runners |-> Idle]
    /\ edits = 0 /\ faults = 0

RunStep(w) == LoadActivation(w) \/ LoadSource(w) \/ Deliver(w) \/ SaveAttempt(w)

Next ==
    \/ \E d \in Decisions : Decide(d)
    \/ Authorize
    \/ \E w \in Runners : FindDue(w) \/ RunStep(w) \/ Die(w)
    \/ Edit \/ TimePasses

Spec == Init /\ [][Next]_vars

\* Runs are started again and again, and go on.
FairSpec ==
    /\ Spec
    /\ \A w \in Runners : WF_vars(FindDue(w)) /\ WF_vars(RunStep(w))

-----------------------------------------------------------------------------
(* Properties *)

\* A log has no gaps, and nothing follows its final attempt.
WellFormed(log) ==
    \A n \in Numbers : log[n] # None =>
        \A m \in 1..(n - 1) : log[m] # None /\ ~Final(log[m], m)

\* The types.  Two runners that attempt one grant, at any speed, leave one log:
\* numbered without gaps, with one verdict, after which nothing is attempted
\* (uq_workflow_reminder_delivery_attempt, SaveReminderDeliveryAttempt).
TypeOK ==
    /\ source \in {"prepared", "changed", "gone"}
    /\ decisions \in Seq(Decisions) /\ Tip <= MaxDecisions
    /\ time \in {"ahead", "due", "over"}
    /\ \A g \in 1..Len(grants) : decisions[grants[g]] = "approved"
    /\ attempts \in [Grants -> {log \in [Numbers -> Outcomes \union {None}] : WellFormed(log)}]
    /\ signals \subseteq 1..Len(grants)
    /\ \A w \in Runners :
          /\ runner[w].pc \in {"idle", "activation", "source", "deliver", "save"}
          /\ runner[w].outcome \in Outcomes \union {None}
          /\ Len(runner[w].batch) <= Limit
    /\ edits \in 0..MaxEdits /\ faults \in 0..MaxFaults

\* A grant whose approval was revoked or replaced, when no runner holds an
\* earlier read of it, never reaches the inbox again, whoever retries it
\* (runDueReminderDeliveries, "revoked, replaced, or became unavailable").
Superseded(g) ==
    /\ g <= Len(grants) /\ g \notin signals
    /\ Tip > grants[g]
    /\ \A w \in Runners : runner[w].pc \in {"source", "deliver"} => runner[w].batch[1].grant # g
SupersededStaysSilent == \A g \in Grants : [](Superseded(g) => [](g \notin signals))

\* A due grant gets its verdict, whatever fails, dies or collides on the way, in
\* the time it is due.
DueIsSettled == \A g \in Grants : Due(g) ~> ~Due(g)
=============================================================================
