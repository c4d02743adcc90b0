SPECIFICATION Spec
CONSTANTS
  PageSize = 102
  Keep = 18
  FreeMin = 8
  Trees <- Rows
  MaxPage = 2
  MaxOv = 4
  MaxItems <- Bound
  Places <- Ends
INVARIANTS Layout ChainsOwned MergeFits SplitMakesRoom
PROPERTY ImplementsItemLists
