SPECIFICATION Spec
CONSTANTS
  persons = persons
  infos = infos
  Tab = {persons}
  Col = {1, 2}
  Stored = {1, 2}
  MaxRid = 3
  Limit <- ThreeRows
  Decl <- UniqueDecl
  Null = Null
  Omitted = Omitted
  NullUpdates = FALSE
  LateIndex = FALSE
INVARIANTS TypeOK IndexExact ErasesFind
PROPERTY ImplementsRows
CONSTANT Renewals = TRUE
CHECK_DEADLOCK FALSE
