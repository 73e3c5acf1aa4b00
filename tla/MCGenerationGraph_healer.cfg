\* A property with a bundle: the healer rewrites after the scan;
\* no heading and no cover asserts anything.
SPECIFICATION Spec
CONSTANTS
  Jobs <- ScopedJobs
  DocTypes <- NoTypes
  Covers <- BlankCovers
  Drafts <- ContentDrafts
  Figures <- MoneyFigures
  Instructed <- StatedFigures
  MaxClauses = 2
  MaxSections = 2
  MaxCriticRetries = 2
  MaxHealerRetries = 2
  None = None
INVARIANTS
  AssertionsHaveRecords
CHECK_DEADLOCK FALSE
