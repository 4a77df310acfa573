CONSTANTS
  Portfolios = {"old", "new"}
  Symbols = {"A"}
  Entries <- MCEntries
  Added <- MCAdded
  Oldest = "old"
  Newest = "new"
  RecentLimit = 2
  ListLimit = 9
  MaxRows = 2
  MaxChanges = 1
  MaxForms = 1
  MaxAttempts = 2
  MaxFrames = 1
  Captures <- MCCaptures
  Runs <- MCRuns
  Searches <- MCSearches
  Recalls <- MCRecalls
  Texts <- MCTexts
  Contents <- MCContents
SPECIFICATION MCSpec
INVARIANTS HoldingsDerived  Upgraded TablesAgree BestRecalled
PROPERTIES AnswersStored
CHECK_DEADLOCK FALSE
