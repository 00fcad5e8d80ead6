SPECIFICATION Spec
CONSTANTS
    file = file
    text = text
    None = None
    FileUploads <- MCFileUploads
    TextUploads <- MCTextUploads
    Configs <- MCConfigs
    Workers = {w1, w2}
    MaxReceive = 2
    MaxStops = 1
INVARIANTS
    NoJobIsDropped
