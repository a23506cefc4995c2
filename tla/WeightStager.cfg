SPECIFICATION Spec
CONSTANT N = 3
INVARIANT OneOutstanding
INVARIANT NothingAbandoned
INVARIANT OrderKept
PROPERTY ForwardsReturn
