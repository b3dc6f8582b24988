CONSTANTS
    Node = {a, b}
    Request = {r1}
    Proc = {p1, p2}
    None = None
SPECIFICATION ConsentSpec
INVARIANT ApprovalOpensTheGate
CHECK_DEADLOCK FALSE
