\* Two uploads, a delete and a listing, on the disk and on the bucket.
SPECIFICATION Spec
CHECK_DEADLOCK FALSE
CONSTANTS
  p1 = p1  p2 = p2  d1 = d1  l1 = l1
  root = root  sub = sub  cat = cat  catalog = catalog
  Dir = {root, sub}  Root = root
  Parent <- RootOf
  Ancestors <- AncestorsOf
  Post = {p1, p2}  Delete = {d1}  List = {l1}
  File = {cat, catalog}
  Where <- WhereOf
  Upload = {cat, catalog}
  Longer <- LongerOf
  Hidden = {sub}
  None = None  Empty = Empty  Torn = Torn  Old = Old
SYMMETRY Twins
INVARIANTS TypeOK AnsweredIsStored DeleteLasts DeletedWasGone TornByFailure ListsWhatStays ListFailsForGone PipeHasWriter
