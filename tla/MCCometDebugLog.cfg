SPECIFICATION Spec
CONSTANTS
    c1 = c1
    c2 = c2
    c3 = c3
    Clients <- TwoClients
    FaultSets <- DebugLogOnly
    MaxResponses = 2
PROPERTIES
    SendsToAllSubscribers
