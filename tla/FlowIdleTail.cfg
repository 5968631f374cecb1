SPECIFICATION TailSpec
CONSTANTS
    None = None
    Workers = {s1, s2, w3}
    Scheduling = {s1, s2}
    MaxStarts = 2
INVARIANT IdleIsReusable
CHECK_DEADLOCK FALSE
