\* A picture or a client's labels for it, and a reindex.
SPECIFICATION Spec
CHECK_DEADLOCK FALSE
CONSTANTS
  p1 = p1  p2 = p2  r1 = r1  r2 = r2  d1 = d1
  i1 = i1  i2 = i2  i3 = i3  i4 = i4  i5 = i5  i6 = i6
  a = a  b = b  root = root  sub = sub
  Rekognition = TRUE
  Post = {p1}  Reindex = {r1}  Delete = {}
  Dir = {root}  Root = root
  Parent <- OneDirParent
  Ancestors <- OneDirAncestors
  File <- CatFiles
  Upload <- CatUploads
  Chunk = {a}
  Body <- OneChunk
  Inode = {i1, i2, i3, i4, i5, i6}
  TarMax = 1
  None = None  Name = Name  Zeros = Zeros  Nothing = Nothing
SYMMETRY Twins
INVARIANTS DerivedLeadHome
