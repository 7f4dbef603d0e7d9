\* Two producers and three consumers around a queue of two.
SPECIFICATION FairSpec
CONSTANTS
    p1 = p1
    p2 = p2
    c1 = c1
    c2 = c2
    c3 = c3
    Producers <- TwoProducers
    Consumers <- ThreeConsumers
    Capacity = 2
    Items = 3
INVARIANTS
    TypeOK
    ExactlyOnceInOrder
    NoStrandedItem
PROPERTIES
    ImplementsChannel
    PushesReturn
