\* Two processes, two legacy devices, one of them active, and one paired since,
\* one legacy item, any file contents, one stop, damage or lock error.
CONSTANTS
    p1 = p1  p2 = p2  d1 = d1  d2 = d2  d3 = d3  i1 = i1
    Anyone = Anyone
    NoRow = NoRow
    Processes <- TwoProcesses
    Devices <- ThreeDevices
    Filed <- TwoFiled
    FiledActive <- FirstActive
    Items <- OneItem
    Chat <- ToFirst
    Contents <- AnyContent
    MaxTrouble = 1
    MaxGen = 2
\* A database damaged under processes that serve is not rebuilt before one restarts.
CHECK_DEADLOCK FALSE
SPECIFICATION Spec
INVARIANTS TypeOK AllOrNothing
PROPERTIES NoReversal RejectedCopyKept EveryStartServes IntakeSpec
