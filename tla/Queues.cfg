SPECIFICATION Spec
CONSTANTS
    Queues = {q1, q2}
    Orders = {a, b}
    Blank = blank
    Null = null
    PoolSize = 3
    FirstLength = 2
SYMMETRY Symmetry
INVARIANTS NoLeak
PROPERTIES QueuesAreSequences
