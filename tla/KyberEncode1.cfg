SPECIFICATION SweepSpec
INVARIANTS MessageBitAgrees
CHECK_DEADLOCK FALSE
