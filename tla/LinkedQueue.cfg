SPECIFICATION Spec
CONSTANTS
    Items = {r1, r2, r3, r4}
    Cells = {a1, a2, a3, a4}
    NULL = NULL
INVARIANT QueueInv
PROPERTY FifoSpec
CHECK_DEADLOCK FALSE
