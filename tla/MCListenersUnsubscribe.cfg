SPECIFICATION Spec
CONSTANTS
    o1 = o1
    o2 = o2
    o3 = o3
    Owners <- ThreeOwners
    IdCount = 8
    FirstIds <- ZeroId
    MaxMade = 4
INVARIANTS
    OnlyLiveListeners
