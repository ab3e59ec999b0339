\* Two domains of two settings, with redefinitions, rows that come and go, and a hidden tab.
SPECIFICATION PageSpec
CONSTANTS
    Keys <- MCKeys
    DomainOf <- MCDomainOf
    Values = {0, 1, 2}
    Ids = {1, 2}
    Tables <- MCTables
    Plans <- MCPlans
INVARIANTS
    SettingsTypeOK
    PageIsUpToDate
    NoRequestIsRefused
    ListenersKnowValues
CHECK_DEADLOCK FALSE
