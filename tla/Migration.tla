------------------------------ MODULE Migration ------------------------------
(***************************************************************************)
(* The constructor of SQLStorageManager on a database file that several    *)
(* programs may open at once, of older and of newer builds.  A migration   *)
(* is one statement and storing how far they got is another; each commits  *)
(* on its own.  Storage begins where this ends.                             *)
(***************************************************************************)
EXTENDS Integers

CONSTANTS
    Processes,      \* the programs that may have the file open
    Builds          \* how many migrations the builds of the program have

ASSUME MigrationAssumption == Builds \subseteq Nat

VARIABLES
    executed,       \* the migrations whose statement was committed
    version,        \* PRAGMA user_version
    pc,             \* where each program is: see Places
    build,          \* the number of migrations it knows
    next            \* its migration_version

file == <<executed, version>>
vars == <<executed, version, pc, build, next>>

\* "get": before user_version is read; "execute": at the loop; "set": a migration
\* is committed and user_version is not; "open": the storage is in use.
Places == {"closed", "get", "execute", "set", "open"}

-----------------------------------------------------------------------------
(* The constructor and migrate()                                            *)

OpenDatabase(p) ==
    /\ pc[p] = "closed"
    /\ pc' = [pc EXCEPT ![p] = "get"]
    /\ \E n \in Builds : build' = [build EXCEPT ![p] = n]
    /\ UNCHANGED <<file, next>>

GetVersion(p) ==
    /\ pc[p] = "get"
    /\ pc' = [pc EXCEPT ![p] = "execute"]
    /\ next' = [next EXCEPT ![p] = version]
    /\ UNCHANGED <<file, build>>

\* Faulty variant: CREATE TABLE IF NOT EXISTS.
ExecuteIfMissing(p) ==
    /\ pc[p] = "execute"
    /\ next[p] < build[p]
    /\ executed' = executed \cup {next[p]}
    /\ pc' = [pc EXCEPT ![p] = "set"]
    /\ UNCHANGED <<version, build, next>>

\* A migration creates a table or a trigger, once.
Execute(p) ==
    /\ pc[p] = "execute"
    /\ next[p] < build[p]
    /\ next[p] \notin executed
    /\ executed' = executed \cup {next[p]}
    /\ pc' = [pc EXCEPT ![p] = "set"]
    /\ UNCHANGED <<version, build, next>>

\* It exists already: the statement fails, and terminate() ends the program.
ExecuteFails(p) ==
    /\ pc[p] = "execute"
    /\ next[p] < build[p]
    /\ next[p] \in executed
    /\ pc' = [pc EXCEPT ![p] = "closed"]
    /\ UNCHANGED <<file, build, next>>

\* Faulty variant: the program of an older build counts from what it knows.
SetVersionOfBuild(p) ==
    /\ pc[p] = "set"
    /\ version' = build[p]
    /\ next' = [next EXCEPT ![p] = @ + 1]
    /\ pc' = [pc EXCEPT ![p] = "execute"]
    /\ UNCHANGED <<executed, build>>

SetVersion(p) ==
    /\ pc[p] = "set"
    /\ version' = next[p] + 1
    /\ next' = [next EXCEPT ![p] = @ + 1]
    /\ pc' = [pc EXCEPT ![p] = "execute"]
    /\ UNCHANGED <<executed, build>>

\* Faulty variant: off by one.
FinishOneEarly(p) ==
    /\ pc[p] = "execute"
    /\ next[p] + 1 >= build[p]
    /\ pc' = [pc EXCEPT ![p] = "open"]
    /\ UNCHANGED <<file, build, next>>

\* No migration is left, which an older build finds also on a newer database.
Finish(p) ==
    /\ pc[p] = "execute"
    /\ next[p] >= build[p]
    /\ pc' = [pc EXCEPT ![p] = "open"]
    /\ UNCHANGED <<file, build, next>>

\* The program is left, killed, or ends itself because a statement failed for
\* another reason: the file is locked for too long, the disk is full.
Ends(p) ==
    /\ pc[p] # "closed"
    /\ pc' = [pc EXCEPT ![p] = "closed"]
    /\ UNCHANGED <<file, build, next>>

-----------------------------------------------------------------------------

\* A file that is not there yet.
MigrationInit ==
    /\ executed = {}
    /\ version = 0
    /\ pc = [p \in Processes |-> "closed"]
    /\ build = [p \in Processes |-> 0]
    /\ next = [p \in Processes |-> 0]

MigrationNext ==
    \E p \in Processes :
        \/ OpenDatabase(p) \/ GetVersion(p)
        \/ Execute(p) \/ ExecuteFails(p) \/ SetVersion(p)
        \/ Finish(p) \/ Ends(p)

MigrationSpec == MigrationInit /\ [][MigrationNext]_vars

-----------------------------------------------------------------------------
(* Properties                                                               *)

MigrationTypeOK ==
    /\ executed \subseteq Nat
    /\ version \in Nat
    /\ pc \in [Processes -> Places]
    /\ build \in [Processes -> Nat]
    /\ next \in [Processes -> Nat]

\* The migrations of a file are executed in their order, each once, and what
\* user_version says is at most one behind, however many programs migrate it at
\* once and wherever they are killed.
ExecutedInOrder ==
    executed \in {0 .. version - 1, 0 .. version}

\* A program that gets to work has all the relations it knows of, also when
\* another one migrated the file while it was starting.
OpenHasItsSchema ==
    \A p \in Processes : pc[p] = "open" => 0 .. build[p] - 1 \subseteq executed

\* No program takes user_version back, not an older build on a newer file and
\* not one that was overtaken.
VersionGrows ==
    [][version' >= version]_vars

\* The comment on user_version in migrate(): it is the first migration that has
\* not been executed.  Violated: a kill after a migration leaves it behind, and
\* from then on every start ends in ExecuteFails.
VersionIsFirstNotExecuted ==
    (\A p \in Processes : pc[p] # "set") => executed = 0 .. version - 1

=============================================================================
