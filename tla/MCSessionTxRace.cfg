SPECIFICATION Spec
CONSTANTS
    t1 = t1
    t2 = t2
    t3 = t3
    a = a
    b = b
    c = c
    d = d
    e = e
    p1 = p1
    p2 = p2
    p3 = p3
    Txs <- MCTwo
    Jobs <- MCTwoCreate
    Ids <- MCThreeIds
    Numbers <- MCNumbers
    Parties <- MCParties
    Codes = {p1, p2, p3}
    Requests <- MCPairs
    Openings <- MCTaken
    MaxPerNumber = 3
    SweepLimit = 2
    NoCode = NoCode
    NoNumber = NoNumber
    NoId = NoId
    Nobody = Nobody
SYMMETRY PinSymmetry
INVARIANTS Reachable
CHECK_DEADLOCK FALSE
