\* A kill anywhere, and callers with stale ids.
SPECIFICATION Spec
CONSTANTS
    SettingNames = {sn1}
    KvNames = {}
    Scopes = {dom}
    NoScope = NoScope
    NoRef = NoRef
    Kinds = {"String", "HistoricServerConnection"}
    MaxRowid <- RowidsOfOneChain
    MaxCrashes = 1
    MaxDepth = 5
    StaleIds = TRUE
INVARIANTS
    TypeOK
    ReferentialIntegrity
    OneTypePerSetting
    AnnouncedWithItsLists
