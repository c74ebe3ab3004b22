SPECIFICATION Spec
CONSTANTS
    d1 = d1
    d2 = d2
    Connections = {d1, d2}
    Platform = "linux"
    Pids = {1, 2}
    MaxInt = 2
    MaxIssued = 2
    MaxEntries = 2
    None = None
SYMMETRY Symmetry
INVARIANT DeviceGetsProcess
