SPECIFICATION RunSpec
CONSTANTS
    Cap = 2
    Fields = {f1, f2}
    MaxPublish = 5
INVARIANTS IInv ReportExact
PROPERTY ImplementsQueue
CHECK_DEADLOCK FALSE
