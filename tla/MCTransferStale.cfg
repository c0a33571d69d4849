CONSTANTS
    None = None
    Transfer = {t1, t2}
    Upload = {t1}
    Digest = {t2}
    Peer = {"session"}
CHECK_DEADLOCK FALSE
SPECIFICATION Spec
PROPERTIES
    OutcomeIsItsOwn
