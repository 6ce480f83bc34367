\* Both calls, with every way to cut the answer and to end it early.
SPECIFICATION FairSpec
CONSTANTS
    head_ = head_
    main = main
    topic = topic
    late = late
    old = old
    tag = tag
    h1 = h1
    h2 = h2
    Ref = {head_, main, topic, late, old, tag}
    Branch = {main, topic, late, old}
    HeadRef = head_
    Hash = {h1, h2}
    Listing <- Lines
    Objects = 3
    ObjectAt <- Places
    RevisionLimit = 1
    NoHash = NoHash
INVARIANTS
    NothingLost
    FetchIsComplete
    CutDoesNotMatter
    LatestAreBranchesAtHead
PROPERTIES
    FetchEnds
CHECK_DEADLOCK FALSE
