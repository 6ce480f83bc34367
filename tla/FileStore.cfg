\* Two workers with a file in common, which may fail, and a download.
SPECIFICATION FairSpec
CONSTANTS
    short = short
    full = full
    long = long
    split = split
    huge = huge
    w1 = w1
    w2 = w2
    File = {short, full, long, split, huge}
    Content <- Bytes
    Worker = {w1, w2}
    Tree <- Commits
    ChunkLen = 3
    ReadLen <- ReadLens
    BucketLen = 9
    WindowLen = 6
    BatchLen = 1
    NoFile = NoFile
    NoLength = NoLength
INVARIANTS
    FinishedIsStored
    DownloadIsExact
    DownloadCompletes
    StoreInv
PROPERTIES
    StoredIsStable
    UploadEnds
CHECK_DEADLOCK FALSE
