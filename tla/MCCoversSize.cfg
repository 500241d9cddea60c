SPECIFICATION Spec
CONSTANTS
    t1 = t1
    t2 = t2
    t3 = t3
    a = a
    b = b
    x = x
    Tracks <- TwoTracks
    Covers <- ThreeCovers
    Keyed <- TwoKeyed
    Sizes <- SomeSizes
INVARIANTS
    SizeAsAsked
