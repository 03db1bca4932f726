SPECIFICATION Spec
CONSTANTS
    Seeds = {d1, d2}
    D0 = d1
    M0 = d2
    MaxCalls = 3
    MaxTampers = 1
    MaxResets = 0
INVARIANTS KeyAgreement
