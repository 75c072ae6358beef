\* One drain and one tool call.
CONSTANTS
    d1 = d1  h1 = h1  h2 = h2  t1 = t1  t2 = t2
    Earlier = Earlier
    MaxEarly = 1
    Nobody = Nobody
    Devices <- OneDevice
    Drains <- OneDrain
    Tools <- OneTool
SPECIFICATION Spec
INVARIANTS QuerySurvives
