\* The same hours, every failure included; the command is run again for ever.
CONSTANTS
    Size = 2
    Attempts = 2
    MaxFaults = 3
SPECIFICATION HCSpec
PROPERTY ResumedDownloadsFinish
CHECK_DEADLOCK FALSE
