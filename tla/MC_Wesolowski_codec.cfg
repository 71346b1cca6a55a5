CONSTANTS
    N = 7
    NegB <- MCNegB
    DiscBytes <- MCDiscBytes
    LValues <- MCLValuesPrime
    MaxForged = 1
    Seeds <- MCSeeds
    SeedDisc <- MCSeedDisc
    HashPrime <- MCHashPrime
    Targets <- MCTargets
    Levels <- MCLevels
    MaxProofs = 1
SPECIFICATION Spec
INVARIANT TypeOK
INVARIANT HonestRelation
INVARIANT DiscValid
INVARIANT CompleteWhenIntact
