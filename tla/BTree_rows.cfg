SPECIFICATION Spec
CONSTANTS
  FieldSize = 4
  Block = 1017
  MaxKey = 9
  Touch <- AllKeys
  MaxPage = 9
  AfterBorrow = TRUE
  Script <- NoScript
  Free = Free
  NoRet = NoRet
  NoKey = NoKey
INVARIANT Shape
PROPERTY ImplementsUntilBorrow
CHECK_DEADLOCK FALSE
