\* A device and a row to import at any time, two devices to pair, two requests.
CONSTANTS
    d1 = d1  d2 = d2  d3 = d3  n1 = n1  n2 = n2
    i1 = i1  i2 = i2  i3 = i3  r1 = r1  r2 = r2  p1 = p1
    NoDevice = NoDevice
    NoInstall = NoInstall
    Devices <- ThreeDevices
    Installs <- TwoInstalls
    Items <- OneItem
    Requests <- TwoRequests
    Producers <- None
    LegacyDevices <- OneImported
    LegacyItems <- OneItem
    Retention = 0
    MaxClock = 0
SPECIFICATION Spec
SYMMETRY Symmetry
INVARIANTS TypeOK OneActivePerInstall NoStrandedRow HolderMayAck DeliveredWasReceived
PROPERTIES MailboxSpec
