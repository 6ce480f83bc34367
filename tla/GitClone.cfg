\* Four packs, three commits, a channel for one file, two files at a time.
SPECIFICATION FairSpec
CONSTANTS
    r = r
    t = t
    q = q
    e = e
    a = a
    b = b
    c = c
    p = p
    big = big
    small = small
    Object = {r, t, q, e, a, b, c, p}
    Packs <- PackSet
    Roots = {r, q, e}
    Items <- Trees
    BatchSize = 2
    None = None
    Globs <- GlobSets
    Pointer <- Pointers
    Large = {big}
    Capacity = 1
    Buffer = 2
INVARIANTS
    BatchIsMapped
    CloneIsExact
PROPERTIES
    CloneEnds
CHECK_DEADLOCK FALSE
