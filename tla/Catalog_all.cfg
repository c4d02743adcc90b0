SPECIFICATION Spec
CONSTANTS
  school = school
  shop = shop
  a = a
  b = b
  c = c
  Db = {school, shop}
  Home <- TwoAndOne
  v1 = v1
  v2 = v2
  Value = {v1, v2}
  Empty = v1
  Junk = Junk
  Missing = Missing
  Damaged = Damaged
  NoDb = NoDb
  MaxTables = 2
  Overwrite = FALSE
  StaleShow = FALSE
  Unread = FALSE
  MaxHurt = 1
INVARIANTS ObjectsSound ListedComplete NoOrphans
PROPERTY ImplementsDatabases
