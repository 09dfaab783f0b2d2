CONSTANTS
    Passes = {"p", "q"}
    MaxEdits = 1
    MaxVersion = 1
    MaxFaults = 1
    Writers = {1}
    Readers = {2}
SPECIFICATION SyncSpec
INVARIANTS
    SyncTypeOK
    OneKeyPerAccount
    CursorNeverAhead
PROPERTY UploadCatchesUp
