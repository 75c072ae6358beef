\* Two drains of one device and two tool calls, one of them before it ever parked.
CONSTANTS
    d1 = d1  h1 = h1  h2 = h2  t1 = t1  t2 = t2
    Earlier = Earlier
    MaxEarly = 1
    Nobody = Nobody
    Devices <- OneDevice
    Drains <- TwoDrains
    Tools <- TwoTools
SPECIFICATION Spec
SYMMETRY Symmetry
INVARIANTS TypeOK NoSleepingQuery NeverInlineToParked
