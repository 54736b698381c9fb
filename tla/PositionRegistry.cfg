\* two positions, one rebalance that mints, two loops at a time, crashes and relaunches
SPECIFICATION Spec
CONSTANTS
    Nfts = {n1, n2, n3}
    Later = {n3}
    Pools = {p, q}
    None = None
    Loops = {l1, l2}
    Requests = {r1}
    Unreadable = TRUE
    Drains = FALSE
    Overtaken = FALSE
    LateRecords = FALSE
    n1 = n1  n2 = n2  n3 = n3
    p = p  q = q
    l1 = l1  l2 = l2
    r1 = r1
SYMMETRY AnyOrder
INVARIANT TypeOK
INVARIANT OneLoopPerPool
INVARIANT LiveIsListed
INVARIANT StoppedStaysOff
CHECK_DEADLOCK FALSE
