CONSTANTS
    Nil = Nil
    Keys = {k1}
    Workers = {w1, w2}
    AllowCacheTTL <- MCAllowCacheTTL
    DenyCacheTTL <- MCDenyCacheTTL
    MaxCallTicks <- MCMaxCallTicks
    MaxTime <- MCMaxTime

SPECIFICATION Spec

INVARIANTS
    TypeOK
    StaleAnswerBounded
