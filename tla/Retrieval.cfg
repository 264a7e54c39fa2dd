\* Four chunks of two documents; the limits of config.yaml, scaled to them.
SPECIFICATION Spec
CONSTANTS
    a1 = a1
    a2 = a2
    a3 = a3
    b1 = b1
    p1 = p1
    p2 = p2
    NoParent = none
    Chunks = {a1, a2, a3, b1}
    Matching = {a1, a2}
    Doc <- MCDoc
    Section <- MCSection
    Parent <- MCParent
    RrfK = 60
    Multiplier = 2
    MaxPerDoc = 2
    MinCoverage = 60
    MaxChunksPerDoc = 2
    MaxList = 3
    TopK = 2
    ExpansionTopK = 3
    Threshold = 540
    Margin = 120
    MinImprovement = 180
    MinHits = 2
INVARIANTS SearchIsFair FilterHonoured QualityIsPursued
