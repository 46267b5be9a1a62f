\* Five places and two values: the buffer wraps, and samples repeat.
CONSTANTS
    Durations <- MCDurations
    Capacity = 5
SPECIFICATION Spec
INVARIANTS TypeOK
PROPERTIES ImplementsWindow
