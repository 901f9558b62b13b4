SPECIFICATION Spec
CONSTANTS
    Symbols = {a, b, c}
    NumShards = 2
    BufferSize = 2
    MaxOrders = 4
INVARIANTS SymbolIsolation SymbolOrder
