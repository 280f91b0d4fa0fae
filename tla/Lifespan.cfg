\* Three workers on one vector store, and two faults.
CONSTANTS
    w1 = w1
    w2 = w2
    w3 = w3
    Earlier = Earlier
    Workers = {w1, w2, w3}
    MaxFaults = 2
SPECIFICATION FairSpec
INVARIANTS
    LifespanInv
    FaqCopiesBounded
    ServingWorkersAreWhole
PROPERTIES
    TrafficReturns
