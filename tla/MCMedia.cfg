\* Files of every type and length around the limits and the chunk boundaries.
CONSTANTS
    CHUNK = 3
    LIMIT <- MCLimits
    MAX_POLLS = 3
    FileSize <- MCFileSizes
SPECIFICATION FairSpec
INVARIANTS
    TypeOK
    MediaIdIsReady
    ChunksCover
    AnswerTellsStage
PROPERTIES
    UploadEnds
    EveryStepCounts
CHECK_DEADLOCK FALSE
