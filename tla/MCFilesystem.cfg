CONSTANTS
    None = None
    r = r  A = A  B = B  D = D  e1 = e1  e2 = e2  m = m  n = n  x = x  y = y
    dr = dr  dA = dA  dB = dB  dN = dN  i1 = i1  i2 = i2  o1 = o1  o2 = o2
    s1 = s1  s2 = s2  w1 = w1  w2 = w2
    FolderIds = {r, A, B, D}
    Root = r
    FolderNames = {m, n}
    MaxFolderDepth = 4
    FileIds = {e1, e2}
    FileNames = {x, y}
    Sizes = {1, 2}
    UserStorage = TRUE
    SeedFolders <- Tree
    SeedFiles <- File
    FolderPolicies = {"inherit"}
    RefuseCycles = TRUE
    Budgets <- Mix
    DirInodes = {dr, dA, dB, dN}
    FileInodes = {i1, i2}
    RootDir = dr
    SeedDisk <- Disk
    OperationIds = {o1, o2}
    Runners = {s1, s2}
    STORAGE_JOB_MAX_ATTEMPTS = 2
    OperationKinds = {"mkdir", "rename", "rmdir", "move", "fileRename"}
    Scanners = {w1, w2}
    KeepNames = TRUE
SPECIFICATION SyncSpec
CHECK_DEADLOCK FALSE
INVARIANTS OperationsAgree MarkedByOperation
PROPERTIES ScanListsFiles ScansEnd
