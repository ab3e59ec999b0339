\* Three viewers of one group, and layouts to save and remove.
SPECIFICATION SelectorSpec
CONSTANTS
    Viewers = {v1, v2, v3}
    MaxLayouts = 4
INVARIANT
    RowsFollowStorage
PROPERTIES
    SelectionIsRestored
    SavedIsSelected
    RemoverDoesNotSave
CHECK_DEADLOCK FALSE
