CONSTANTS
    Passes = {"p"}
    Writers = {1, 2}
    Readers = {2}
    MaxEdits = 1
    MaxVersion = 1
    MaxFaults = 0
SPECIFICATION SyncSpec
PROPERTY PullNeverOverwrites
