SPECIFICATION Spec
CONSTANTS
  persons = persons
  infos = infos
  Tab = {persons, infos}
  Col = {1, 2}
  Stored = {1, 2}
  MaxRid = 3
  Limit <- OneAndThree
  Decl <- KeysDecl
  Null = Null
  Omitted = Omitted
  NullUpdates = FALSE
  LateIndex = FALSE
PROPERTY ImplementsRows
CONSTANT Renewals = FALSE
CHECK_DEADLOCK FALSE
