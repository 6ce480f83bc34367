\* Two callers, two layer sets, two branches of which one is listed at most,
\* two commits, three ids.
SPECIFICATION Spec
CONSTANTS
    Caller = {c1, c2}
    Name = {n1, n2}
    Ref = {1, 2}
    HeadRef = 2
    RevisionLimit = 0
    Commit = {k1, k2}
    MaxLayerId = 3
    None = None
SYMMETRY Symmetry
INVARIANTS
    RefreshIsComplete
    LastLayerIdCovers
CHECK_DEADLOCK FALSE
