\* An archive that overwrites its own document, in a tree that is reindexed.
SPECIFICATION FairSpec
CHECK_DEADLOCK FALSE
CONSTANTS
  p1 = p1  p2 = p2  r1 = r1  r2 = r2  d1 = d1
  i1 = i1  i2 = i2  i3 = i3  i4 = i4  i5 = i5  i6 = i6
  a = a  b = b  root = root  sub = sub
  Rekognition = FALSE
  Post = {p1}  Reindex = {r1}  Delete = {}
  Dir = {root, sub}  Root = root
  Parent <- TwoDirParent
  Ancestors <- TwoDirAncestors
  File <- ReportFiles
  Upload <- ReportUploads
  Chunk = {a}
  Body <- OneChunk
  Inode = {i1, i2, i3}
  TarMax = 2
  None = None  Name = Name  Zeros = Zeros  Nothing = Nothing
INVARIANTS IndexInv NoLostIndex RowsMatchDisk
PROPERTIES Answered
