CONSTANTS
    a = a
    b = b
    c = c
    Bridge = bridge
    None = none
    Zero = zero
    Remotes = {a, b, c}
    Scenarios <- MCScenarios
    MaxHops = 4
    MaxPending = 2
SPECIFICATION Spec
INVARIANTS
    TypeOK
    DownstreamDies
    RoutesLeadBack
