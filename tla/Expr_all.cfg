SPECIFICATION Spec
CONSTANTS
  ann = ann
  Ann = Ann
  bob = bob
  blank = blank
  day = day
  ColType <- Tables
  String <- Strings
  Folded <- LowerCase
  Words <- InWords
  DateOf <- Dates
  Like <- Matches
  Datum <- Data
  Null = Null
  NoTab = NoTab
  Conditions <- Plain
  Assigned <- Terms
  Infinity = 1000000000
  NaN = NaN
  MaxText = 24
  Unstorable = FALSE
  Stray = FALSE
  NullUpdates = FALSE
INVARIANTS CacheExact WellTypedRuns WhereAgrees CheckKept
