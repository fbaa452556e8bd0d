SPECIFICATION Spec
CONSTANTS
    MaxTurn = 2
    MaxConv = 2
    MaxEvents = 4
    MaxText = 1
    MaxAudio = 1
    MaxInbox = 2
    Resumption = TRUE
    CancelPoints <- SendCancel
INVARIANT SpeaksOnClearLine
CHECK_DEADLOCK FALSE
