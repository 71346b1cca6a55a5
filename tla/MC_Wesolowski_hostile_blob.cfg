CONSTANTS
    N = 7
    NegB <- MCNegBNone
    DiscBytes <- MCDiscBytesExact
    LValues <- MCLValues
    MaxForged = 1
    Seeds <- MCSeeds
    SeedDisc <- MCSeedDisc
    HashPrime <- MCHashPrime
    Targets <- MCTargetsShort
    Levels <- MCLevels
    MaxProofs = 1
SPECIFICATION Spec
INVARIANT HostileBlobRejected
