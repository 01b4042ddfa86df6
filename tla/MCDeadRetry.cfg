CONSTANTS
    None = None
    i1 = i1  i2 = i2  i3 = i3  b1 = b1  b2 = b2  n1 = n1  n2 = n2
    r1 = r1  r2 = r2  r3 = r3  r4 = r4  d1 = d1  d2 = d2
    Items = {i1, i2, i3}
    Batches = {b1, b2}
    Names = {n1, n2}
    RequestIds = {r1, r2, r3, r4}
    BatchOf <- TwoDrops
    NameOf <- TwoNames
    InSubfolder = {i2}
    Concurrency = 2
    MaxConcurrentUploads = 1
    MaxQueuedUploads = 1
    Folders = {d1, d2}
    Selections <- DeletesAndMoves
    STORAGE_JOB_MAX_ATTEMPTS = 2
    Budgets <- OneFolder
SPECIFICATION Spec
CHECK_DEADLOCK FALSE
INVARIANTS RetryCanWork
