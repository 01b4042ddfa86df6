CONSTANTS
    None = None
    r = r  A = A  B = B  C = C  D = D  E = E  e1 = e1  m = m  n = n  k = k  x = x
    host = host  u = u  anon = anon  inv = inv  later = later  fnd = fnd  web = web
    FolderIds = {r, A, B, C}
    Root = r
    FolderNames = {m, n}
    MaxFolderDepth = 6
    FileIds = {}
    FileNames = {x}
    Sizes = {1, 2}
    UserStorage = FALSE
    SeedFolders <- Branches
    SeedFiles <- NoFiles
    FolderPolicies = {"inherit", "restricted"}
    RefuseCycles = FALSE
    Budgets <- TwoEdits
    Accounts = {host, u}
    Visitors = {anon}
    Invitations = {inv, later}
    EmailsOf <- Emails
    Founder = host
    Admins = {}
    MountEntries = {fnd, web}
    WebUploads = {web}
    Gallery = Gallery
    Mount = Mount
    Unknown = Unknown
    GrantScopes = {Gallery, Mount, B}
    GrantedRoles = {1, 3}
    SystemRoles = {0, 1}
SPECIFICATION AccessSpec
CHECK_DEADLOCK FALSE
INVARIANT NoFolderInItself
