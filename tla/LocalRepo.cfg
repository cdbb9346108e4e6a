SPECIFICATION Spec
CONSTANTS
    Files = {f, g, h}
    Views = {v, w}
    MaxChanges = 3
    MaxCalls = 2
    NotYet = NotYet
    Failed = Failed
INVARIANTS
    TypeOK
    TreeIsDisk
    StateHasItsOwner
    WatchFollows
CHECK_DEADLOCK FALSE
SYMMETRY Symmetry
