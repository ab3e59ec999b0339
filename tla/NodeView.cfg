\* A variable with a property, the NodeView and the AttributeView.
SPECIFICATION NodeSpec
CONSTANTS
    x = x
    y = y
    Ids = {x, y}
    Variables = {x, y}
    Children <- VariableWithProperty
    Nothing = Nothing
    MaxSubscriptions = 2
    MaxRows = 2
INVARIANTS
    RowsKeepTheirSubscriptions
    RowFoundOnceAdded
    CacheIsFresh
    OneAttributeSubscription
PROPERTIES
    DisplayCatchesUp
\* The program ends with a fault.
CHECK_DEADLOCK FALSE
