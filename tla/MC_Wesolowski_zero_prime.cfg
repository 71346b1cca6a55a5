CONSTANTS
    N = 7
    NegB <- MCNegBNone
    DiscBytes <- MCDiscBytesExact
    LValues <- MCLValuesZero
    MaxForged = 1
    Seeds <- MCSeeds
    SeedDisc <- MCSeedDisc
    HashPrime <- MCHashPrime
    Targets <- MCTargets
    Levels <- MCLevels
    MaxProofs = 1
SPECIFICATION Spec
INVARIANT NoVerifierCrash
