SPECIFICATION Spec
CONSTANTS
    t1 = t1
    t2 = t2
    r1 = r1
    c1 = c1
    v1 = v1
    Topics = {t1, t2, t3}
    Resources = {r1}
    Configs = {c1, c2}
    Contents = {v1, v2}
    OldTopics <- MCOldTopics
    OldEntries <- MCOldEntries
INVARIANT TypeOK
INVARIANT MigrationIsComplete
PROPERTY ChangesSurviveRestart
