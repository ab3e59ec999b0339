\* The refinement, without a kill: two certificates and what hangs on them.
SPECIFICATION FairSpec
CONSTANTS
    SettingNames = {sn1}
    KvNames = {kv1}
    Scopes = {dom}
    NoScope = NoScope
    NoRef = NoRef
    Kinds = {"String", "ApplicationCertificate"}
    MaxRowid <- RowidsOfOneChain
    MaxCrashes = 0
    MaxDepth = 5
    StaleIds = TRUE
PROPERTIES
    ImplementsFeed
    DeletionsAreTold
