SPECIFICATION Spec
CONSTANTS
    Golden <- MCGolden
    Tools <- MCTools
    Marks <- MCMarks
    Latencies <- MCLatencies
    Earlier <- MCEarlier
    MaxCommands = 2
    Missing = Missing
    Torn = Torn
    Legacy = Legacy
INVARIANTS
    TypeOK
    BaselineLostOnlyWhileReplaced
    PercentilesAreOrdered
    NoAgentNeverPasses
PROPERTIES
    ComparisonIsHonest
    RegressionToleranceHolds
