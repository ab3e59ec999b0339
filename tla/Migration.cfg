\* Three programs, of two builds that are two migrations apart.
SPECIFICATION MigrationSpec
CONSTANTS
    Processes = {p1, p2, p3}
    Builds = {1, 3}
INVARIANTS
    ExecutedInOrder
    OpenHasItsSchema
PROPERTIES
    VersionGrows
