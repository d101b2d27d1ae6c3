CONSTANTS
    e1 = e1
    e2 = e2
    e3 = e3
    Entities <- MCEntities
    Kinds = {"STATE", "COMMAND", "SCHEMA"}
    MaxPending = 2
    MaxAssembly = 2
    MaxTotal = 5
    SizeRange = 64
    MaxFragments = 3
    MaxTx = 5
SYMMETRY Symmetry
SPECIFICATION Spec
INVARIANTS
    WholeMessages
    ReservedIsHeld
PROPERTY NewestLast
