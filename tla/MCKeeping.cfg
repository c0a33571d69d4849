SPECIFICATION SumSpec
SYMMETRY Alike
CHECK_DEADLOCK FALSE
CONSTANTS
    KEEP_COPIES = 2
    Seconds = {0, 1, 2, 3}
    MaxFiles = 5
    CopyFault = {"write"}
    NoCopy = NoCopy
    Repairer = {r1, r2}
    MaxBoots = 3
    Editor = {e1, e2}
    Uploaded = {"a"}
    MaxStarts = 3
    p1 = p1
    superuser = superuser
    good = good
    bad = bad
    t1 = t1
    t2 = t2
    own = own
    Peer = {p1}
    User = {superuser}
    Token = {t1, t2}
    Password = {good, bad}
    Request <- MCRequest
    None = None
    max_authentication_attempts = 2
    BAN_LEVELS = 1
    BAN_DURATION = 2
    expire_timeout = 3
    Second = 2
    LastTick = 7
    RootHash = {factory, own}
    Factory = factory
    Caller = {w1, w2}
    NoAnswer = NoAnswer
    MaxStamp = 1
    Person = {w1, w2}
    Text <- MCText
    HostName = {"a", "-"}
    BadName = "-"
    ServerList <- MCServerList
    SourceList <- MCSourceList
    FirstSources <- MCFirstSources
    Document <- MCDocument
    MAX_SERVERS = 1
    MaxWork = 3
    MaxTrouble = 1
    Upgrade = {u1, u2}
    Asked <- MCAsked
    MaxReboots = 2
    Nothing = Nothing
    Directory <- ReleaseDirectories
    Viewer = {v1, v2}
    FRESH = 3
    FRESH_AFTER_ERROR = 2
    MaxClock = 5
    MaxStrays = 1
    FileSystem <- MCFileSystem
    RequestPath <- MCRequestPath
    SDCARD_ROOT <- MCRoot
    UPGRADE_DIR_NAME = "up"
    SMALLEST_PLAUSIBLE_IMAGE = 2
    MaxLinks = 3
    FanOut = {w1, w2}
    SOURCE_DEADLINE = 1
    REFRESH_CLAIM = 2
    MaxParks = 1
    Unset = Unset
    BITS = 4
    MIN_PREFIX = 1
    MAX_PREFIX = 2
    Unreachable = {0, 14, 15}
    AddressDocuments <- MCAddressDocuments
    HandWritten <- MCHandWritten
    BadSearch <- MCBadSearch
    NoValue = NoValue
INVARIANTS
    ServesWhatItKeeps
    GateHolds
    AppliedIsInEffect
    SourcesAreUsable
    ListedIsWhole
    CatalogIsHonest
    TagsAreOrdered
    UpdaterIsSpared
    CardImagesAreOnTheCard
    DocumentSurvivesTheFile
PROPERTIES
    CopiesAreKept
    RepairIsSafe
    SessionsAreKept
    InstallKeepsAWayBack
    AnswersAreKept
