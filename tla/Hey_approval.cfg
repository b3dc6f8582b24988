CONSTANTS
    c1 = c1
    c2 = c2
    c3 = c3
    Call = {c1, c2, c3}
    Sender = {c1}
    Operator = {c2, c3}
    None = None
SPECIFICATION Spec
INVARIANTS ReportIsHonest HeldWaitsForVerdict ApprovedIsInHand
CHECK_DEADLOCK FALSE
PROPERTIES HeldIsNotLost
