\* Every shape of request to every endpoint, on an open and on a bearer relay;
\* byte strings over two chunks; texts with every leftover, padding and an
\* invalid character; both kinds of bucket with half-second ticks.
SPECIFICATION RequestsSpec
CONSTANTS
    Absent = Absent  NonText = NonText
    Cores = {"a", "b"}
    SomeBytes = {0, 1, 38, 128, 255}
    SomeChars = {65, 66, 81, 103, 119, 57, 95, 61, 43}
    MaxBytes = 6
    MaxChars = 5
    AccWidth = 16
    Burst = 3
    RefillPerSec = 2
    TicksPerSec = 2
    Skew = 1
    MaxTicks = 5
    MaxDrops = 2
    NoBucket = NoBucket
INVARIANTS
    NoTokenOracle RefusedReachesNothing SlotGuardsItsMailbox
    WindowBound NoStarvation
    RoundTrip EncodesTheBitStream Canonical LargestBundleFits
CHECK_DEADLOCK FALSE
