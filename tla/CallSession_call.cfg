\* One whole call: answers heard, hang-ups heard out, every call ends.
SPECIFICATION FairSpec
CONSTANTS
    SilenceSeconds = 1
    KeypadGap = 1
    KeypadMax = 2
    PlayedGrace = 1
    UtteranceSeconds = 2
    UtteranceLimit = 3
    UnheardLimit = 2
    StillThere = 1
    RecordingEnabled = TRUE
    EarMemory = 1
    MaxLag = 1
    MaxMoves = 2
INVARIANTS TypeOK AnswersAreHeard HangupIsHeardOut StopHolds
PROPERTIES EveryCallEnds
