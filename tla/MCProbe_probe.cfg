\* Two panes over a gateway that comes and goes.
SPECIFICATION Spec
CONSTANTS
    Windows = {w1, w2}
    Conditions = {"live", "absent", "unreachable"}
    OkFloor = 3
    FailFloor = 2
    MaxProbe = 1
INVARIANTS
    TypeOK
PROPERTIES
    AnswerFresh
    PaneCatchesUp
