SPECIFICATION Spec
CONSTANTS
    t1 = t1
    t2 = t2
    r1 = r1
    r2 = r2
    c1 = c1
    v1 = v1
    bad = bad
    Topics = {t1, t2}
    Resources = {r1, r2}
    Configs = {c1, bad}
    ValidConfigs = {c1}
    Contents = {v1, bad}
    ValidContents = {v1}
    NoFilter = NoFilter
    NoId = NoId
    TopicParts <- UncutTopics
    ResourceParts <- CutParts
    ExportOptions = {}
    ImportOptions <- AllOptions
    Files <- MCFiles
    NoJob = NoJob
INVARIANT ImportIsComplete
INVARIANT ImportedHasTopic
INVARIANT RefusedForTheFile
PROPERTY OnlySelectedChanges
