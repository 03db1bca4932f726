SPECIFICATION Spec
CONSTANTS
    K = 2
    Inputs <- MCInputs
    Pieces = {1, 136, 167}
    MaxAbsorbs = 2
    MaxSqueezes = 2
    Ks = {2, 3, 4}
    Flips = {0, 700}
INVARIANTS NoOverflow AccumulatorCanonical SameResult CodecsAgree ReductionsAgree SplitsDoNotMatter DecapsulationAgrees VectorsReproduced
CHECK_DEADLOCK FALSE
