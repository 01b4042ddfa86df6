SPECIFICATION Spec
CONSTANTS
  g1 = g1  g2 = g2  f1 = f1  f2 = f2  a = a  b = b  d = d  c1 = c1  c2 = c2
  e1 = e1  e2 = e2  e3 = e3
  Galleries = {g1}
  Kind <- OneKind
  Storage <- OneStorage
  Folders = {f1, f2}
  GalleryOf <- OneGalleryOf
  Stems = {a, b, d}
  MaxRenameAttempts = 1
  Contents = {c1, c2}
  Size <- MCSize
  MaxFileSize <- MCMaxFileSize
  EntryIds = {e1, e2, e3}
  IntentIds = {}
  DeleteJobIds = {d1}
  MoveJobIds = {m1, m2}
  OperationIds = {o1}
  Handlers = {}
  Workers = {w1}
  MaxAttempts = 2
  Seeds <- TwoAndOne
  None = None
CHECK_DEADLOCK FALSE
INVARIANT OverMeansSettled
CONSTRAINT Standing FromFirst NothingRemoved MovesOnly
SYMMETRY SymmetricMoves
