\* Two processes start on a directory with good files.
CONSTANTS
    p1 = p1  p2 = p2  d1 = d1  d2 = d2  d3 = d3  i1 = i1
    Anyone = Anyone
    NoRow = NoRow
    Processes <- TwoProcesses
    Devices <- ThreeDevices
    Filed <- TwoFiled
    FiledActive <- TwoFiled
    Items <- OneItem
    Chat <- ToFirst
    Contents <- GoodContent
    MaxTrouble = 1
    MaxGen = 2
CHECK_DEADLOCK FALSE
SPECIFICATION Spec
PROPERTIES OnlyUnreadableQuarantined
