SPECIFICATION Spec
CONSTANT None = None
INVARIANTS StreamsAgree ListenerExact AcceptSound
PROPERTY EndsJustified
CHECK_DEADLOCK FALSE
