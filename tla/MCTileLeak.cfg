CONSTANTS
    None = None
    r = r  A = A  B = B  C = C  D = D  E = E  e1 = e1  m = m  n = n  k = k  x = x
    host = host  u = u  anon = anon  inv = inv  later = later  fnd = fnd  web = web
    FolderIds = {r, A, B, C, D, E}
    Root = r
    FolderNames = {m, n, k}
    MaxFolderDepth = 5
    FileIds = {e1}
    FileNames = {x}
    Sizes = {1}
    UserStorage = FALSE
    SeedFolders <- Deep
    SeedFiles <- DeepFile
    FolderPolicies = {"inherit"}
    RefuseCycles = TRUE
    Budgets <- TwoEdits
    Accounts = {host}
    Visitors = {anon}
    Invitations = {}
    EmailsOf <- NoEmails
    Founder = host
    Admins = {}
    MountEntries = {}
    WebUploads = {}
    Gallery = Gallery
    Mount = Mount
    Unknown = Unknown
    GrantScopes = {}
    GrantedRoles = {1, 3}
    SystemRoles = {0, 1}
SPECIFICATION AccessSpec
CHECK_DEADLOCK FALSE
INVARIANT PreviewsNeverLeak
