SPECIFICATION FairSpec
CONSTANTS
    Seeds = {d1, d2}
    D0 = d1
    M0 = d2
    MaxCalls = 2
    MaxTampers = 0
    MaxResets = 1
INVARIANTS ResultIsKem QuiescentWhenIdle
PROPERTIES OperationEnds
