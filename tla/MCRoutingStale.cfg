SPECIFICATION Spec
CONSTANTS
    s1 = s1
    s2 = s2
    a = a
    b = b
    c = c
    Ids <- MCIds
    Callers <- MCCallers
    PartiesOf <- MCParties
    Capped <- MCCapped
    Instants <- MCInstants
    SparePins = {FALSE}
    LookupTtl = 2
    NegativeTtl = 1
    MaxTtl = 2
    RedisFails = FALSE
    Latency = 1
    NoAnswer = NoAnswer
PROPERTY RefusedAtOnce
