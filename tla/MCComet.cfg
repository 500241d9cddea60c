SPECIFICATION FairSpec
CONSTANTS
    c1 = c1
    c2 = c2
    c3 = c3
    Clients <- ThreeClients
    FaultSets <- NoneOrAll
    MaxResponses = 2
INVARIANTS
    TypeOK
    HeldForAReason
    OneDescriptorEach
    AtMostOneResponse
    NobodyOvertaken
PROPERTIES
    EventuallyAnswered
    FeedSpec
