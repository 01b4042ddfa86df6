SPECIFICATION Spec
CONSTANTS
  g1 = g1  g2 = g2  f1 = f1  f2 = f2  a = a  b = b  d = d  c1 = c1  c2 = c2
  e1 = e1  e2 = e2  e3 = e3
  Galleries = {g1, g2}
  Kind <- OneKind
  Storage <- PathFirst
  Folders = {f1, f2}
  GalleryOf <- TwoGalleryOf
  Stems = {a, b}
  MaxRenameAttempts = 1
  Contents = {c1, c2}
  Size <- MCSize
  MaxFileSize <- MCMaxFileSize
  EntryIds = {e1, e2, e3}
  IntentIds = {}
  DeleteJobIds = {d1, d2}
  MoveJobIds = {m1, m2}
  OperationIds = {o1}
  Handlers = {}
  Workers = {w1}
  MaxAttempts = 2
  Seeds <- TwoOntoOne
  None = None
SYMMETRY SymmetricMoves
CHECK_DEADLOCK FALSE
INVARIANTS ParkedCounted NoItemForgotten ItemsAccounted
CONSTRAINT Standing FromFirst NothingRemoved MovesOnly
