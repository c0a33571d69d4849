SPECIFICATION SumSpec
CHECK_DEADLOCK FALSE
SYMMETRY AnyTask
CONSTANTS
    Nodes = {1, 2}
    Tasks = {a, b}
    Requests <- MCRequests
    Board = "hub"
    Latching = FALSE
    Fault = {"gpio"}
    MaxRequests = 2
    MaxStarts = 2
    Console = {c1}
    RingSize = 2
    ReadSlots = 2
    WriteSlots = 1
    FrameSlots = 1
    CLIENT_TIMEOUT = 2
    MaxRead = 3
    MaxTyped = 2
    MaxSeconds = 5
    Module_no = {1, 2}
    Loader = {l1}
    BOOT_DEVICE_WAIT = 1
    MaxPolls = 1
    Node = {"node1"}
    Vid <- MCVid
    VID_MIN = 1
    VID_MAX = 2
    FLAT_VID = 1
    SPLIT_MANAGEMENT_VID = 1
    SPLIT_NODE_VID = 2
    NoVid = NoVid
    PortOrder <- MCPortOrder
    Proposed <- MCProposed
INVARIANTS
    NodesAreAsStored
    BootsTheModuleAskedFor
PROPERTIES
    PlanReachesTheDocument
    AcceptedLeavesAWayIn
    PowerIsAsPromised
    ConsoleIsFaithful
