SPECIFICATION Spec
CONSTANTS
    t1 = t1
    t2 = t2
    t3 = t3
    a = a
    b = b
    c = c
    d = d
    e = e
    p1 = p1
    p2 = p2
    p3 = p3
    Txs <- MCTxs
    Jobs <- MCJobs
    Ids <- MCIds
    Numbers <- MCNumbers
    Parties <- MCParties
    Codes = {p1, p2, p3}
    Requests <- MCRequests
    Openings <- MCOpenings
    MaxPerNumber = 3
    SweepLimit = 2
    NoCode = NoCode
    NoNumber = NoNumber
    NoId = NoId
    Nobody = Nobody
SYMMETRY PinSymmetry
INVARIANTS TypeOK StampedUnlessCrossed DeadlocksKnown
PROPERTIES KeepsLedger
CHECK_DEADLOCK FALSE
