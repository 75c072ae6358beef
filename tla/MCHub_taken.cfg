\* One drain and two tool calls, none of them before the device ever parked.
CONSTANTS
    d1 = d1  h1 = h1  h2 = h2  t1 = t1  t2 = t2
    Earlier = Earlier
    MaxEarly = 0
    Nobody = Nobody
    Devices <- OneDevice
    Drains <- OneDrain
    Tools <- TwoTools
SPECIFICATION FairSpec
PROPERTIES NoQuerySits QuestionSpec
