\* The configuration widget and two viewers.
SPECIFICATION ClientSpec
CONSTANTS
    SettingNames = {}
    KvNames = {}
    Scopes = {dom}
    ViewScope = dom
    NoScope = NoScope
    NoRef = NoRef
    Kinds = {}
    MaxRowid <- RowidsOfClients
    MaxCrashes = 0
    MaxDepth = 8
    StaleIds = FALSE
    ConfigWidget = cw
    DataViewers = {dv1, dv2}
INVARIANTS
    ModelsInSync
    NestingIsBounded
    ReplacedBeforeDeleted
PROPERTIES
    SlotsKeepTheContract
    RemovesNothingElse
