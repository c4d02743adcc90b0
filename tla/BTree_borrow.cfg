SPECIFICATION Spec
CONSTANTS
  FieldSize = 1016
  Block = 0
  MaxKey = 5
  Touch <- AllKeys
  MaxPage = 9
  AfterBorrow = TRUE
  Script <- NoScript
  Free = Free
  NoRet = NoRet
  NoKey = NoKey

PROPERTY ImplementsOrderedSet
CHECK_DEADLOCK FALSE
