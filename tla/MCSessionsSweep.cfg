SPECIFICATION FairSpec
CONSTANTS
    Numbers <- MCNumber
    Instants <- MCInstantsLong
    Parties = {p1, p2}
    Ids = {s1, s2, s3}
    Codes = {c1, c2}
    NoNumber = NoNumber
    NoCode = NoCode
    Never = Never
    ExtCodeMode = "auto"
    CooldownScope = "number"
    Cooldown = 1
    Retention = 1
    MaxTtl = 1
    MaxPerNumber = 2
    SweepLimit = 1
PROPERTIES DueEnds NumberCooldown PartyCooldown
