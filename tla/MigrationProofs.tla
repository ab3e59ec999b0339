--------------------------- MODULE MigrationProofs ---------------------------
(***************************************************************************)
(* The migration of a file by any number of programs of any builds.        *)
(***************************************************************************)
EXTENDS Migration, TLAPS

\* Who is between a migration and its version is alone there, and that migration
\* is the last one executed; nobody goes on from more than user_version.
OneMigrates ==
    /\ \A p \in Processes : pc[p] = "set" =>
          /\ next[p] = version
          /\ next[p] < build[p]
          /\ executed = 0 .. version
    /\ \A p, q \in Processes : pc[p] = "set" /\ pc[q] = "set" => p = q
    /\ \A p \in Processes : pc[p] = "execute" => next[p] <= version

\* user_version was at least what a program knows when it opened the file.
OpenIsCovered ==
    \A p \in Processes : pc[p] = "open" => build[p] <= version

MigrationInv == MigrationTypeOK /\ ExecutedInOrder /\ OneMigrates /\ OpenIsCovered

\* The invariant of a file that no program has opened.
LEMMA MigrationBegins == MigrationInit => MigrationInv
<1> SUFFICES ASSUME MigrationInit PROVE MigrationInv
  OBVIOUS
<1>1. MigrationTypeOK
  BY DEF MigrationInit, MigrationTypeOK, Places
<1>2. executed = 0 .. version - 1
  BY DEF MigrationInit
<1>3. OneMigrates /\ OpenIsCovered
  BY DEF MigrationInit, OneMigrates, OpenIsCovered
<1> QED
  BY <1>1, <1>2, <1>3 DEF MigrationInv, ExecutedInOrder

\* One step of any program: user_version does not fall, and the invariant stays.
LEMMA MigrationGoesOn ==
    ASSUME MigrationInv, [MigrationNext]_vars
    PROVE  MigrationInv' /\ version' >= version
<1> USE DEF MigrationInv, file, vars
<1>1. ASSUME NEW p \in Processes, OpenDatabase(p) PROVE MigrationInv' /\ version' >= version
  <2>1. PICK n \in Builds : build' = [build EXCEPT ![p] = n]
    BY <1>1 DEF OpenDatabase
  <2>2. n \in Nat
    BY MigrationAssumption
  <2>3. MigrationTypeOK'
    BY <1>1, <2>1, <2>2 DEF OpenDatabase, MigrationTypeOK, Places
  <2>4. ExecutedInOrder' /\ version' >= version
    BY <1>1 DEF OpenDatabase, MigrationTypeOK, ExecutedInOrder
  <2>5. OneMigrates' /\ OpenIsCovered'
    BY <1>1, <2>1, <2>2 DEF OpenDatabase, MigrationTypeOK, OneMigrates, OpenIsCovered
  <2> QED
    BY <2>3, <2>4, <2>5
<1>2. ASSUME NEW p \in Processes, GetVersion(p) PROVE MigrationInv' /\ version' >= version
  <2>1. MigrationTypeOK'
    BY <1>2 DEF GetVersion, MigrationTypeOK, Places
  <2>2. ExecutedInOrder' /\ version' >= version
    BY <1>2 DEF GetVersion, MigrationTypeOK, ExecutedInOrder
  <2>3. OneMigrates' /\ OpenIsCovered'
    BY <1>2 DEF GetVersion, MigrationTypeOK, OneMigrates, OpenIsCovered
  <2> QED
    BY <2>1, <2>2, <2>3
<1>3. ASSUME NEW p \in Processes, Execute(p) PROVE MigrationInv' /\ version' >= version
  \* The migration that is not there is the one that user_version names.
  <2>1. next[p] = version /\ executed = 0 .. version - 1
    BY <1>3 DEF Execute, MigrationTypeOK, ExecutedInOrder, OneMigrates
  <2>2. executed' = 0 .. version' /\ version' = version
    BY <1>3, <2>1 DEF Execute, MigrationTypeOK
  <2>3. MigrationTypeOK'
    BY <1>3 DEF Execute, MigrationTypeOK, Places
  <2>4. \A q \in Processes : pc[q] # "set"
    BY <2>1 DEF OneMigrates, MigrationTypeOK
  <2>5. OneMigrates'
    BY <1>3, <2>1, <2>2, <2>4 DEF Execute, MigrationTypeOK, OneMigrates
  <2>6. OpenIsCovered'
    BY <1>3 DEF Execute, MigrationTypeOK, OpenIsCovered
  <2> QED
    BY <2>2, <2>3, <2>5, <2>6, SMTT(30) DEF ExecutedInOrder, MigrationTypeOK
<1>4. ASSUME NEW p \in Processes, ExecuteFails(p) PROVE MigrationInv' /\ version' >= version
  <2>1. MigrationTypeOK'
    BY <1>4 DEF ExecuteFails, MigrationTypeOK, Places
  <2>2. ExecutedInOrder' /\ version' >= version
    BY <1>4 DEF ExecuteFails, MigrationTypeOK, ExecutedInOrder
  <2>3. OneMigrates' /\ OpenIsCovered'
    BY <1>4 DEF ExecuteFails, MigrationTypeOK, OneMigrates, OpenIsCovered
  <2> QED
    BY <2>1, <2>2, <2>3
<1>5. ASSUME NEW p \in Processes, SetVersion(p) PROVE MigrationInv' /\ version' >= version
  <2>1. next[p] = version /\ version' = version + 1 /\ executed = 0 .. version
    BY <1>5 DEF SetVersion, OneMigrates
  <2>2. MigrationTypeOK'
    BY <1>5 DEF SetVersion, MigrationTypeOK, Places
  <2>3. executed' = 0 .. version' - 1
    BY <1>5, <2>1 DEF SetVersion, MigrationTypeOK
  <2>4. OneMigrates'
    BY <1>5, <2>1 DEF SetVersion, MigrationTypeOK, OneMigrates
  <2>5. OpenIsCovered'
    BY <1>5, <2>1 DEF SetVersion, MigrationTypeOK, OpenIsCovered
  <2> QED
    BY <2>1, <2>2, <2>3, <2>4, <2>5 DEF ExecutedInOrder, MigrationTypeOK
<1>6. ASSUME NEW p \in Processes, Finish(p) PROVE MigrationInv' /\ version' >= version
  <2>1. MigrationTypeOK'
    BY <1>6 DEF Finish, MigrationTypeOK, Places
  <2>2. ExecutedInOrder' /\ version' >= version
    BY <1>6 DEF Finish, MigrationTypeOK, ExecutedInOrder
  <2>3. OneMigrates' /\ OpenIsCovered'
    BY <1>6 DEF Finish, MigrationTypeOK, OneMigrates, OpenIsCovered
  <2> QED
    BY <2>1, <2>2, <2>3
<1>7. ASSUME NEW p \in Processes, Ends(p) PROVE MigrationInv' /\ version' >= version
  <2>1. MigrationTypeOK'
    BY <1>7 DEF Ends, MigrationTypeOK, Places
  <2>2. ExecutedInOrder' /\ version' >= version
    BY <1>7 DEF Ends, MigrationTypeOK, ExecutedInOrder
  <2>3. OneMigrates' /\ OpenIsCovered'
    BY <1>7 DEF Ends, MigrationTypeOK, OneMigrates, OpenIsCovered
  <2> QED
    BY <2>1, <2>2, <2>3
<1>8. CASE UNCHANGED vars
  BY <1>8 DEF MigrationTypeOK, ExecutedInOrder, OneMigrates, OpenIsCovered
<1> QED
  BY <1>1, <1>2, <1>3, <1>4, <1>5, <1>6, <1>7, <1>8 DEF MigrationNext

THEOREM MigrationIsSound == MigrationSpec => []MigrationInv
<1>1. MigrationInv /\ [MigrationNext]_vars => MigrationInv'
  BY MigrationGoesOn
<1> QED
  BY MigrationBegins, <1>1, PTL DEF MigrationSpec

\* What a file holds is told by its user_version up to one migration, for any
\* number of programs and builds and wherever they end.
THEOREM MigratedInOrder == MigrationSpec => []ExecutedInOrder
<1>1. MigrationInv => ExecutedInOrder
  BY DEF MigrationInv
<1> QED
  BY MigrationIsSound, <1>1, PTL

\* SQLStorageManager's constructor returns only when the file has all the
\* relations that the program knows of.
THEOREM OpenMeansMigrated == MigrationSpec => []OpenHasItsSchema
<1>1. MigrationInv => OpenHasItsSchema
  <2> SUFFICES ASSUME MigrationInv, NEW p \in Processes, pc[p] = "open",
                      NEW i \in 0 .. build[p] - 1
               PROVE  i \in executed
    BY DEF OpenHasItsSchema
  <2>1. build[p] <= version
    BY DEF MigrationInv, OpenIsCovered
  <2>2. i \in 0 .. version - 1
    BY <2>1 DEF MigrationInv, MigrationTypeOK
  <2>3. CASE executed = 0 .. version - 1
    BY <2>2, <2>3
  <2>4. CASE executed = 0 .. version
    BY <2>2, <2>4 DEF MigrationInv, MigrationTypeOK
  <2> QED
    BY <2>3, <2>4 DEF MigrationInv, ExecutedInOrder
<1> QED
  BY MigrationIsSound, <1>1, PTL

\* No step of any program sets user_version to less than it was.
THEOREM VersionNeverFalls == MigrationSpec => VersionGrows
<1>1. MigrationInv /\ [MigrationNext]_vars => [version' >= version]_vars
  BY MigrationGoesOn
<1> QED
  BY MigrationIsSound, <1>1, PTL DEF MigrationSpec, VersionGrows

=============================================================================
