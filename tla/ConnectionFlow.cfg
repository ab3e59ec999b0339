\* Three searches, two of which may be late, two endpoints, two certificates.
SPECIFICATION FlowSpec
CONSTANTS
    MaxBuilders = 3
    MaxEndpoints = 2
    MaxCertificates = 2
INVARIANTS
    ConnectHasABuilder
    NewestIsShown
    CurrentIsARow
PROPERTIES
    SearchIsAnswered
\* The program ends when the user exits or an assertion fails.
CHECK_DEADLOCK FALSE
