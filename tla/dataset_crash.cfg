CONSTANTS
    Processes = {p1}
    Names = {"events", "images", "images/1"}
    Events = "events"
    Unsafe = "../unsafe"
    Zip = "zip"
    Archives <- MCArchives
    MaxCrashes = 1
    CloseMayFail = FALSE
    NamesMayFail = FALSE
SPECIFICATION Spec
INVARIANTS
    AvailableIsReady
