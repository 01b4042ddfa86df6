SPECIFICATION Spec
CONSTANTS
  g1 = g1  g2 = g2  f1 = f1  f2 = f2  a = a  b = b  d = d  c1 = c1  c2 = c2
  e1 = e1  e2 = e2  e3 = e3
  Galleries = {g1}
  Kind <- OneKind
  Storage <- OneStorage
  Folders = {f1}
  GalleryOf <- OneGalleryOf
  Stems = {a, b}
  MaxRenameAttempts = 1
  Contents = {c1, c2}
  Size <- MCSize
  MaxFileSize <- MCMaxFileSize
  EntryIds = {e1, e2}
  IntentIds = {i1}
  DeleteJobIds = {d1, d2}
  MoveJobIds = {}
  OperationIds = {}
  Handlers = {h1}
  Workers = {w1}
  MaxAttempts = 2
  Seeds <- OneSeed
  None = None
CHECK_DEADLOCK FALSE
INVARIANT ReadyHasFile
