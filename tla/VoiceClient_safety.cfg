SPECIFICATION FairSpec
CONSTANTS
    MaxTurn = 3
    MaxConv = 2
    MaxEvents = 3
    MaxText = 1
    MaxAudio = 0
    MaxInbox = 2
    Resumption = TRUE
    CancelPoints <- CleanCancel
INVARIANTS ReadyBeforePrompt IdleLineIsClear AnswersOwnPrompt
PROPERTIES ImplementsVoiceTurns SpokenTurnSettles ConnectSettlesWhenQuiet
CHECK_DEADLOCK FALSE
