SPECIFICATION FairSpec
CONSTANTS
    t1 = t1
    t2 = t2
    c1 = c1
    c2 = c2
    p1 = p1
    p2 = p2
    Topics = {t1}
    Resources = {r1}
    Perms = {p1, p2}
    Channels = {c1}
    Requests = {h1, h2}
    Settings <- FixedSettings
    Inputs <- AllInputs
    NoPublish = NoPublish
    Unregistered = Unregistered
    NoEntry = NoEntry
    NoRecord = NoRecord
PROPERTY PublishWillBeRetried
