SPECIFICATION FairSpec
CONSTANTS
    N = 12
    Polys = 4
    W = 2
    MaxRejects = 6
INVARIANTS NoOverrun CoefficientsInOrder
PROPERTIES AllDelivered
