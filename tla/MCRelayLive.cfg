CONSTANTS
    a = a
    b = b
    c = c
    Bridge = bridge
    None = none
    Zero = zero
    Remotes = {a, b, c}
    Scenarios <- LiveScenarios
    MaxHops = 4
    MaxPending = 2
SPECIFICATION FairSpec
PROPERTY Heals
