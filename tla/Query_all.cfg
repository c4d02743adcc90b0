SPECIFICATION Spec
CONSTANTS
  N = 3
  Col <- Columns
  Value <- Values
  Null = Null
  MaxRid = 3
  Contents <- SomeContents
  Indexings <- AllIndexings
  Statements <- SomeStatements
  Residual = FALSE
  Computed = FALSE
INVARIANTS LoopsSound NothingLost Effect AggregateExact
PROPERTY ImplementsRowsOnce
CHECK_DEADLOCK FALSE
