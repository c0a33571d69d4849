CONSTANTS
    None = None
    Document <- MCDocument
    Flat = "flat"
    Refused = {}
    Setting <- MCSetting
    Value <- MCValue
    Table <- MCTable
    Uplink <- MCUplink
    Watched <- MCWatched
    NoVlan = {}
    Token = {t1, t2}
    MIN_WINDOW = 2
    MAX_WINDOW = 2
    Request = {1, 2, 3}
    Fault = {"command", "write", "exit", "power", "clock"}
SPECIFICATION Spec
INVARIANTS
    OnlyProvedIsKept
