\* Fan-outs of artifacts and messages against rotation, acks and the sweep.
CONSTANTS
    d1 = d1  d2 = d2  d3 = d3  n1 = n1  n2 = n2
    i1 = i1  i2 = i2  i3 = i3  r1 = r1  r2 = r2  p1 = p1
    NoDevice = NoDevice
    NoInstall = NoInstall
    Devices <- TwoDevices
    Installs <- TwoInstalls
    Items <- TwoItems
    Requests <- OneRequest
    Producers <- OneProducer
    LegacyDevices <- None
    LegacyItems <- None
    Retention = 0
    MaxClock = 1
SPECIFICATION Spec
SYMMETRY Symmetry
INVARIANTS NoStrandedRow
PROPERTIES MailboxSpec
