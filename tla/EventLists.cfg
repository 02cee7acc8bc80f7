CONSTANTS
    Delays = {0, 3}
    Threads = {t1}
    Nobody = nobody
    MaxUid = 8
SPECIFICATION ListsSpec
INVARIANTS
    UnscheduledExact
    ExpiredExact
    FlagExact
    CalendarEarliest
PROPERTIES
    KeepsPromise
    HeapKept
    Heard
CHECK_DEADLOCK FALSE
