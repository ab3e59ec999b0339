------------------------------ MODULE MCNodeView ------------------------------
(* An instance of NodeView for TLC.                                        *)
EXTENDS NodeView, TLC

CONSTANTS x, y

\* A variable with a property, which is a variable too.
VariableWithProperty == [n \in {x, y} |-> IF n = x THEN {y} ELSE {}]
=============================================================================
