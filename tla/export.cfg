SPECIFICATION Spec
CONSTANTS
    t1 = t1
    t2 = t2
    r1 = r1
    r2 = r2
    c1 = c1
    v1 = v1
    bad = bad
    Topics = {t1, t2}
    Resources = {r1}
    Configs = {c1}
    ValidConfigs = {c1}
    Contents = {v1}
    ValidContents = {v1}
    NoFilter = NoFilter
    NoId = NoId
    TopicParts <- UncutTopics
    ResourceParts <- UncutResources
    ExportOptions <- BackupOptions
    ImportOptions <- RestoreOptions
    Files <- NoFiles
    NoJob = NoJob
INVARIANT TypeOK
INVARIANT ExportIsExact
INVARIANT ExportIsSelfContained
