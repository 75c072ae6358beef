\* A phone re-paired twice while a row waits for it, one request at a time.
CONSTANTS
    d1 = d1  d2 = d2  d3 = d3  n1 = n1
    i1 = i1  i2 = i2  r1 = r1  r2 = r2
    NoDevice = NoDevice
    NoInstall = NoInstall
    Devices <- ThreeDevices
    Installs <- OneInstall
    Items <- OneItem
    Requests <- OneRequest
    Producers <- None
    LegacyDevices <- None
    LegacyItems <- None
    Retention = 0
    MaxClock = 0
SPECIFICATION LiveSpec
PROPERTIES QueuedRowSettles
