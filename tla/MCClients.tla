------------------------------ MODULE MCClients ------------------------------
(* Instances of Clients for TLC.                                           *)
EXTENDS Clients, TLC

\* Two certificate pairs and two connections, so that an id is in use in both
\* relations, and a layout.
RowidsOfClients == [r \in IdRelations |-> IF r = "Layout" THEN 1 ELSE 2]
=============================================================================
