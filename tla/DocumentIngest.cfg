SPECIFICATION Spec
CONSTANT None = None
INVARIANT FallbackReads
CHECK_DEADLOCK FALSE
