SPECIFICATION Spec
CONSTANTS
    w = w
    p = p
    q = q
    NoKey = NoKey
    Servers <- MCServers
    Watchers <- MCWatchers
    Oversized <- MCOversized
    Failing <- MCFailing
    MaxKeys <- MCMaxKeys
    Rank = 2
INVARIANTS TypeOK NotMyself KnownForAReason
PROPERTIES LockReleased ServerIsFound NeighbourIsReplaced
\* Every process may have ended.
CHECK_DEADLOCK FALSE
