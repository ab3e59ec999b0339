\* Settings of several types, and every relation a setting can refer to.
SPECIFICATION Spec
CONSTANTS
    SettingNames = {sn1, sn2}
    KvNames = {kv1}
    Scopes = {dom}
    NoScope = NoScope
    NoRef = NoRef
    Kinds = {"Boolean", "Certificate", "ApplicationCertificate", "HistoricServerConnection", "Layout"}
    MaxRowid <- RowidsOfSettings
    MaxCrashes = 0
    MaxDepth = 5
    StaleIds = FALSE
INVARIANTS
    DeletedMeansGone
    ListenersCaughtUp
    TotalPartition
