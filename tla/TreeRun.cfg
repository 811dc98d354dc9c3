\* Clicks and searches, four in all, over a tree whose files change once.
SPECIFICATION Spec
CHECK_DEADLOCK FALSE
CONSTANTS
  a1 = a1  a2 = a2  a3 = a3  a4 = a4
  root = root  sub = sub  cat = cat  catalog = catalog  s = s  secret = secret
  Dir = {root, sub}  Root = root
  Parent <- ParentOf
  Ancestors <- AncestorsOf
  Ask = {a1, a2, a3, a4}
  File = {cat, catalog, s, secret}
  Where <- WhereOf
  Word = {meow}
  Longer <- LongerOf
  Hidden = {secret}
  None = None  meow = meow
  Changes = 1
SYMMETRY Asks
INVARIANTS TypeOK LitByOneSearch LitReachable OneListing
