SPECIFICATION CliSpec
CONSTANTS
    MaxTurn = 2
    MaxConv = 2
    MaxEvents = 5
    MaxText = 1
    MaxAudio = 2
    MaxInbox = 2
    Resumption = TRUE
    CancelPoints <- Awaits
INVARIANTS TypeOK NoReplay AnswerIsComplete LiveTranscriptIsAccepted
    CliSpeaksOnClearLine OkMeansAllDone LosesAtMostLast
CHECK_DEADLOCK FALSE
