\* A call as the worker makes it: a complete property, and no scope.
SPECIFICATION Spec
CONSTANTS
  Jobs <- ValuationJobs
  DocTypes <- NoTypes
  Covers <- BlankCovers
  Drafts <- AllDrafts
  Figures <- MoneyFigures
  Instructed <- StatedFigures
  MaxClauses = 2
  MaxSections = 2
  MaxCriticRetries = 2
  MaxHealerRetries = 2
  None = None
INVARIANTS
  SupportedPropertyIsNotRefused
CHECK_DEADLOCK FALSE
