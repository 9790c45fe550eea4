SPECIFICATION Spec
CONSTANTS
    Numbers <- MCNumbers
    Instants <- MCInstants
    Parties = {p1, p2, p3}
    Ids = {s1, s2, s3}
    Codes = {c1, c2, c3}
    NoNumber = NoNumber
    NoCode = NoCode
    Never = Never
    ExtCodeMode = "auto"
    CooldownScope = "party"
    Cooldown = 1
    Retention = 1
    MaxTtl = 1
    MaxPerNumber = 2
    SweepLimit = 1
SYMMETRY Symmetry
INVARIANTS TypeOK Reachable CodesDistinct IdleClock
PROPERTIES CodeCap CodeKept
