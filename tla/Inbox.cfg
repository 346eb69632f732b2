SPECIFICATION Spec
CONSTANTS
    BufferSize = 2
    MaxBody = 3
    MaxSent = 3
INVARIANTS
    HandledInOrder
    OnlyOlderLeftovers
