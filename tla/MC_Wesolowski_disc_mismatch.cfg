CONSTANTS
    N = 7
    NegB <- MCNegBNone
    DiscBytes <- MCDiscBytes
    LValues <- MCLValuesPrime
    MaxForged = 0
    Seeds <- MCSeeds
    SeedDisc <- MCSeedDisc
    HashPrime <- MCHashPrime
    Targets <- MCTargets
    Levels <- MCLevels
    MaxProofs = 1
SPECIFICATION Spec
INVARIANT Complete
