SPECIFICATION FairSpec
CONSTANTS
    ChunkSize = 8
    Margin = 4
    PacketSize = 3
    ImageSize = 45
    ResumeAt <- Boundaries
    RestartAt <- BeforeTail
    Prompt = TRUE
    MaxResumes = 2
    MaxLost = 4
INVARIANT
    ChunksSound
PROPERTIES
    DownloadCompletes
    ResumeServed
CHECK_DEADLOCK FALSE
