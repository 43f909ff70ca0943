-------------------------- MODULE MCOperationLedger --------------------------
(* Small instances of OperationLedger for TLC.                             *)
EXTENDS OperationLedger, TLC

CONSTANTS note, invoice, h1, h2, mail

MCTypeOf == [item \in Items |-> mail]
MCRisk == [item \in Items |-> IF item = invoice THEN "high" ELSE "low"]
=============================================================================
