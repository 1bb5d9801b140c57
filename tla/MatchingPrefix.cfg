SPECIFICATION Spec
CONSTANTS
    Calls <- PrefixCalls
    Pending = Pending
INVARIANT PrefixIsSegmentPrefix
CHECK_DEADLOCK FALSE
