\* A default layout nested twice, and documents that are restored over it.
SPECIFICATION LayoutSpec
CONSTANTS
    Layouts = {root, l1, l2, l3}
    Root = root
    Wrappers = {w1, w2, w3, w4, w5}
    Panels = {"tree"}
    Documents <- MCDocuments
    Default <- MCDefault
    MaxPending = 1
    None = None
INVARIANTS
    TreeIsSound
    NoIdleLayout
    RestoreIsExact
PROPERTIES
    PanelsSurvive
    ImplementsTree
CHECK_DEADLOCK FALSE
SYMMETRY Identities
