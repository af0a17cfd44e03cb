SPECIFICATION FairSpec
CONSTANTS
    u1 = u1
    o1 = o1
    r1 = r1
    r2 = r2
    r3 = r3
    AdminRole = admin
    Users = {u1}
    Roles = {o1, admin}
    Groups = {}
    Resources = {r1, r2, r3}
    Inputs <- MCInputs
    Sources <- MCSources
    Additions <- MCAdditions
    PageLimit = 2
    NoLoad = NoLoad
INVARIANT TypeOK
INVARIANT LoadIsComplete
INVARIANT LoadedAsExported
PROPERTY KnownAreKept
PROPERTY LoadEnds
