SPECIFICATION FairSpec
CONSTANTS
    Callers = {c1, c2}
    NoCaller = NoCaller
    Margin = 1
    Lifetimes = {2}
    RefreshLifetimes = {3}
    MaxTime = 1
INVARIANT TypeOK
INVARIANT OneAtATime
INVARIANT CachedIsFresh
INVARIANT NoNeedlessRequest
INVARIANT EmptyOnlyByReset
PROPERTY CallsReturn
