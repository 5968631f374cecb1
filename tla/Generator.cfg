SPECIFICATION RunSpec
CONSTANTS
    None = None
    Workers = {s1, s2, w3}
    Scheduling = {s1, s2}
    MaxStarts = 2
INVARIANTS FlowsAccounted BusinessAccounted PlanFollowed DrainSound
PROPERTY StepsJustified
CHECK_DEADLOCK FALSE
