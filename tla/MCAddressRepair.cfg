CONSTANTS
    None = None
    Document <- MCDocument
    Dhcp = "dhcp"
    Refused = {"refused"}
    Token = {t1}
    MIN_WINDOW = 2
    MAX_WINDOW = 2
    Request = {2}
    First <- Readable
    Edits = {}
    Fault = {"hook", "power"}
SPECIFICATION Spec
PROPERTIES
    RepairIsForItsOwnFile
