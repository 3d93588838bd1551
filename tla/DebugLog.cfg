SPECIFICATION Spec
CONSTANTS
    Newline = nl
    CR = cr
    Stamp = {D}
    Text = {x}
    MaxLine = 3
    MaxLen = 6
CHECK_DEADLOCK FALSE
INVARIANTS TypeOK IncrementsAddUp CollapseExact
