CONSTANTS
    Node = {a, b}
    Request = {r1}
    Proc = {p1, p2}
    None = None
    Null = Null
    Message = {m1}
    Workspace = {w1}
    Agent = {g1}
    Slot = {k1, k2}
    Server = {s1, s2, s3}
    NoFile = NoFile
    Updater = {u1, u2, u3}
    Zid = {1, 2}
    Plugin = {q1, q2}
    Prefix = {x1, x2}
    Count = 4
    Nobody = Nobody
    Listed = {Old}
    Old = Old
    Oracle = {o1}
    Fleet = {f1}
    Marker = Marker
    MaxWrites = 3
    MaxWindows = 2
    MaxLooks = 1
    NoEntry = NoEntry
    Checker = {c1}
    Waker = {1, 2}
    Main = Main
    Plain = Plain
    Tree = {1, 2}
    Cap = 1
    MaxEnds = 1
SPECIFICATION Spec
INVARIANTS TypeOK TrustIsAsGranted VerdictsTakeEffect RouterPromise OneNamedServer UpdatePromise PairingPromise RegistryFollowsPlugins FileSaysWhatWasSaved RestartsAreEarned WakePromise
CONSTRAINT Unexcused
CHECK_DEADLOCK FALSE
