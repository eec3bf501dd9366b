\* Two supervisors over one frontier.
CONSTANTS
    Supervisors = {s1, s2}
    Shapes = {c1, c2}
    Total = 1
    MaxFaults = 2
    MaxSlow = 1
    GONE = GONE
    NULL = NULL
SPECIFICATION Spec
PROPERTY CorruptNotRetried
CHECK_DEADLOCK FALSE
