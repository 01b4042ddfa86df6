CONSTANTS
    None = None
    u1 = u1  e1 = e1  e2 = e2  j1 = j1  j2 = j2  j3 = j3  w1 = w1  w2 = w2  v1 = v1  v2 = v2
    located = located  clean = clean  other = other  m1 = m1  m2 = m2
    EntryIds = {e1, e2}
    JobIds = {j1, j2, j3}
    UploadIds = {u1}
    MediaWorkers = {w1, w2}
    Contents = {located, clean, other}
    WithoutLocation <- Stripped
    FirstContent <- SameContent
    Locations <- SharedAndUser
    STORAGE_JOB_MAX_ATTEMPTS = 2
    Budgets <- Mix
    MigrationIds = {m1, m2}
    Movers = {v1}
SPECIFICATION Spec
CHECK_DEADLOCK FALSE
INVARIANTS PendingHasJob DerivativesMatch RemovedStays OriginalsKept UploadsStay
PROPERTIES SwitchesWhenAllMoved MediaSettles
