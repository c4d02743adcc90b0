SPECIFICATION Spec
CONSTANTS
  FieldSize = 676
  Block = 0
  MaxKey = 22
  Touch <- DeepTouch
  MaxPage = 12
  AfterBorrow = FALSE
  Script <- Deep
  Free = Free
  NoRet = NoRet
  NoKey = NoKey
INVARIANTS Shape ChainSorted SeparatorsExact
PROPERTY ImplementsUntilBorrow
CHECK_DEADLOCK FALSE
