CONSTANTS
    Paths = {p1, p2, p3}
    Jobs = 2
    Attempts = 2
SPECIFICATION McSpec
INVARIANTS TypeOK RefsFirst RecordedRight CycleIsReal
PROPERTIES Returns
CHECK_DEADLOCK FALSE
