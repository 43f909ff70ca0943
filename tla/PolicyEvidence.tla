--------------------------- MODULE PolicyEvidence ---------------------------
(***************************************************************************)
(* The evidence that executionauth judges a request by, and what a request *)
(* may be authorised on.  Shared by the abstract grant and the service.    *)
(***************************************************************************)
EXTENDS Integers, FiniteSets

CONSTANTS
    Callers,    \* requests in flight, in any process
    Keys,       \* (owner identity, idempotency key) pairs
    KeyOf,      \* the key of each caller's request
    BodyOf,     \* what the request digest covers, for each caller
    Contract,   \* what each body asks for and which evidence judges it
    Verdict,    \* what each version of a source says: "allows", "asks", "denies"
    MaxVersion, \* the last version of each source
    None        \* no decision, no holder, no snapshot

Sources == {"stop", "selection", "preflight", "constitution", "agent",
            "approval", "mandate"}

\* Evidence whose exact revision a decision records and is held to.
Pinned == {"preflight", "constitution", "agent", "mandate"}

\* Evidence that must only still allow: its revision is not recorded.
Live == Sources \ Pinned

Bodies == {BodyOf[c] : c \in Callers}
Consulted(b) == Contract[b].consults
Policies == [Sources -> Nat]

ASSUME ContractAssumption ==
    /\ KeyOf \in [Callers -> Keys]
    /\ \A b \in Bodies :
          /\ Contract[b].consults \subseteq Sources
          /\ {"stop", "constitution"} \subseteq Contract[b].consults
          /\ Contract[b].autonomy \in 0..10
          /\ Contract[b].consequential \in BOOLEAN
          /\ Contract[b].framework \in BOOLEAN
    /\ MaxVersion \in [Sources -> Nat]
    /\ \A s \in Sources : \A v \in 0..MaxVersion[s] :
          /\ Verdict[s][v] \in {"allows", "asks", "denies"}
          /\ s \in Live => Verdict[s][v] # "asks"

\* What a key's decision may be, and None, which is neither that, nor a caller,
\* nor a policy.
Outcomes == {"undecided", "denied", "requires_approval", "authorized"}
Receipts == [body : Bodies, outcome : Outcomes,
             evidence : [Sources -> Nat \union {None}]]

ASSUME NoneAssumption ==
    None \notin Callers \union Nat \union Policies \union Receipts

-----------------------------------------------------------------------------

\* A revision an execution may not rest on.
Bars(s, v) == IF s = "constitution" THEN Verdict[s][v] = "denies"
                                    ELSE Verdict[s][v] # "allows"

MandateAuthorizes(b, e) ==
    "mandate" \in Consulted(b) /\ ~Bars("mandate", e["mandate"])

\* Somebody with the right to has agreed to what this body asks for.
Warranted(b, e) ==
    LET approved == "approval" \in Consulted(b)
        mandated == MandateAuthorizes(b, e)
        asked == Verdict["constitution"][e["constitution"]] = "asks"
    IN /\ Contract[b].autonomy >= 6
       /\ Contract[b].autonomy \in {7, 10} => mandated
       /\ Contract[b].autonomy = 6 => approved
       /\ Contract[b].framework => approved
       /\ (asked \/ Contract[b].consequential) => approved \/ mandated
=============================================================================
