CONSTANTS
    c1 = c1
    c2 = c2
    t1 = t1
    t2 = t2
    Client = {c1, c2}
    Target = {t1, t2}
    MaxPty = 2
    None = None
SPECIFICATION Spec
PROPERTY LiveTerminalUntouched
CHECK_DEADLOCK FALSE
