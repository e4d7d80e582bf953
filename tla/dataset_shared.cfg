CONSTANTS
    Processes = {p1, p2}
    Names = {"events", "images", "images/1"}
    Events = "events"
    Unsafe = "../unsafe"
    Zip = "zip"
    Archives <- MCArchives
    MaxCrashes = 0
    CloseMayFail = TRUE
    NamesMayFail = TRUE
SPECIFICATION Spec
INVARIANTS
    NoArchiveLeft
PROPERTIES
    ReadyForGood
