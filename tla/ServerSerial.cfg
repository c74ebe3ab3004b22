SPECIFICATION Spec
CONSTANTS
    Conns = {a, b, c}
    Fds = {3, 4}
    MaxSent = 1
    None = None
INVARIANT CommandsSerial
CHECK_DEADLOCK FALSE
