CONSTANTS
    NoVid = NoVid
    None = None
    Document <- MCDocument
    Flat = "flat"
    Refused <- MCRefused
    Setting <- MCSetting
    Value <- MCValue
    Table <- MCTable
    Uplink <- MCUplink
    Watched <- MCWatched
    NoVlan <- MCNoVlan
    Token = {t1, t2}
    MIN_WINDOW = 2
    MAX_WINDOW = 3
    Request = {1, 2, 4}
    Fault = {"power"}
SPECIFICATION FairSpec
INVARIANTS
    BeliefIsTheSwitch
    SwitchIsProved
PROPERTIES
    KeepsThePromise
    StartedWindowEnds
