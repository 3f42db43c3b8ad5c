\* Keys pressed into an announcement: is every answer heard that was keyed?
SPECIFICATION Spec
CONSTANTS
    SilenceSeconds = 1
    KeypadGap = 1
    KeypadMax = 2
    PlayedGrace = 1
    UtteranceSeconds = 2
    UtteranceLimit = 3
    UnheardLimit = 2
    StillThere = 1
    RecordingEnabled = FALSE
    EarMemory = 1
    MaxLag = 1
    MaxMoves = 2
INVARIANT KeyedAnswersAreHeard
