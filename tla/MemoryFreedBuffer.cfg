SPECIFICATION Spec
CONSTANTS
    c1 = c1
    c2 = c2
    c3 = c3
    i1 = i1
    i2 = i2
    i3 = i3
    i4 = i4
    Threads = {c1, c2}
    Items = {i1, i2, i3, i4}
    Requests <- MixedRequests
    Vals = {0, 1}
    MaxDispatchSize = 2
    MaxBytesPerDispatch = 4
    ScatterReadThreshold = 1
    None = None
    Failed = Failed
    Written = Written
    Garbage = Garbage
SYMMETRY Symmetry
INVARIANT NoGarbage
