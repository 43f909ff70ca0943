---------------------- MODULE MCExecutionAuthorization ----------------------
(* Small instances of ExecutionAuthorization for TLC.                      *)
EXTENDS ExecutionAuthorization, Sequences, TLC

CONSTANTS c1, c2, c3, k1, write, other

MCKeyOf == [c \in Callers |-> k1]
MCBodyOf == (c1 :> write) @@ (c2 :> write) @@ (c3 :> other)
MCMaxCalls == (c1 :> 2) @@ (c2 :> 1) @@ (c3 :> 1)
Versions(s) == CASE s = "stop" -> <<"allows", "denies", "allows">>
                 [] s = "constitution" -> <<"asks", "denies">>
                 [] s = "mandate" -> <<"allows", "allows">>
                 [] s = "approval" -> <<"allows", "denies">>
                 [] OTHER -> <<"allows">>
MCVerdict == [s \in Sources |-> [v \in 0..2 |-> IF v < Len(Versions(s)) THEN Versions(s)[v + 1] ELSE "denies"]]
MCMaxVersion == [s \in Sources |-> Len(Versions(s)) - 1]
MCContract ==
    (write :> [consults |-> {"stop", "constitution", "mandate"},
               autonomy |-> 7, consequential |-> TRUE, framework |-> FALSE])
    @@ (other :> [consults |-> {"stop", "constitution", "approval"},
               autonomy |-> 6, consequential |-> TRUE, framework |-> FALSE])
=============================================================================
