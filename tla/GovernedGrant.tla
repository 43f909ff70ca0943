---------------------------- MODULE GovernedGrant ----------------------------
(***************************************************************************)
(* What executionauth promises its callers: one idempotency key carries    *)
(* one final decision, and one caller at most claims it, on policy         *)
(* evidence that was in force all at once while the claiming call ran.     *)
(***************************************************************************)
EXTENDS PolicyEvidence

VARIABLES
    policy,     \* the revision of each source in force
    decision,   \* the decision of each key
    holder,     \* the caller that claimed each key
    snapshot,   \* the policy each claiming call looked at
    confirmed   \* the live evidence it has seen allow since

vars == <<policy, decision, holder, snapshot, confirmed>>

Init ==
    /\ policy = [s \in Sources |-> 0]
    /\ decision = [k \in Keys |-> None]
    /\ holder = [k \in Keys |-> None]
    /\ snapshot = [c \in Callers |-> None]
    /\ confirmed = [c \in Callers |-> {}]

Change(s) ==
    /\ policy[s] < MaxVersion[s]
    /\ policy' = [policy EXCEPT ![s] = @ + 1]
    /\ UNCHANGED <<decision, holder, snapshot, confirmed>>

Decide(k) ==
    /\ decision[k] = None
    /\ decision'[k] # None
    /\ \A j \in Keys \ {k} : decision'[j] = decision[j]
    /\ UNCHANGED <<policy, holder, snapshot, confirmed>>

Look(c) ==
    /\ snapshot[c] = None
    /\ snapshot' = [snapshot EXCEPT ![c] = policy]
    /\ UNCHANGED <<policy, decision, holder, confirmed>>

Confirm(c, s) ==
    /\ snapshot[c] # None
    /\ ~Bars(s, policy[s])
    /\ confirmed' = [confirmed EXCEPT ![c] = @ \union {s}]
    /\ UNCHANGED <<policy, decision, holder, snapshot>>

\* The evidence of the decision was in force in one moment of the call.
InForceAt(b, e, p) ==
    \A s \in Consulted(b) \intersect Pinned : e[s] = p[s] /\ ~Bars(s, p[s])

Claim(c) ==
    LET k == KeyOf[c]
        b == BodyOf[c]
    IN /\ snapshot[c] # None
       /\ decision[k] # None
       /\ decision[k].body = b
       /\ decision[k].outcome = "authorized"
       /\ InForceAt(b, decision[k].evidence, snapshot[c])
       /\ Warranted(b, decision[k].evidence)
       /\ Consulted(b) \intersect Live \subseteq confirmed[c]
       /\ holder[k] = None
       /\ holder' = [holder EXCEPT ![k] = c]
       /\ snapshot' = [snapshot EXCEPT ![c] = None]
       /\ confirmed' = [confirmed EXCEPT ![c] = {}]
       /\ UNCHANGED <<policy, decision>>

Leave(c) ==
    /\ snapshot' = [snapshot EXCEPT ![c] = None]
    /\ confirmed' = [confirmed EXCEPT ![c] = {}]
    /\ UNCHANGED <<policy, decision, holder>>

Next ==
    \/ \E s \in Sources : Change(s)
    \/ \E k \in Keys : Decide(k)
    \/ \E c \in Callers : Look(c) \/ Claim(c) \/ Leave(c)
    \/ \E c \in Callers, s \in Live : Confirm(c, s)

Spec == Init /\ [][Next]_vars
=============================================================================
