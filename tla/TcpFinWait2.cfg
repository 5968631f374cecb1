SPECIFICATION DeferredSpec
CONSTANT None = None
INVARIANT FinAckedInFinWait2
CHECK_DEADLOCK FALSE
