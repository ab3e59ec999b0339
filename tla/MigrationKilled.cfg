\* One program that is killed between a migration and the version.
SPECIFICATION MigrationSpec
CONSTANTS
    Processes = {p1}
    Builds = {2}
INVARIANTS
    VersionIsFirstNotExecuted
