SPECIFICATION Spec
CONSTANT Null = Null
INVARIANTS WorkScheduled NeighboursRight DatagramsAccounted PacketsAccounted
CHECK_DEADLOCK FALSE
