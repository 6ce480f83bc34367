\* Two servers, two builds, a site, one build at a time in each server.
SPECIFICATION FairSpec
CONSTANTS
    s1 = s1
    s2 = s2
    x1 = x1
    c1 = c1
    c2 = c2
    m1 = m1
    Server = {s1, s2}
    Build = {1, 2}
    Site = {x1}
    Content = {c1, c2, m1}
    Tree <- Trees
    Modules <- ModuleLists
    Request <- Requests
    ConcurrentBuilds = 1
    None = None
INVARIANTS
    ClaimedOnce
    DeployedIsComplete
    ServedIsDeployed
PROPERTIES
    BuildsEnd
CHECK_DEADLOCK FALSE
