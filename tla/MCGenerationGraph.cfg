\* Every path, every kind of clause, two retries of each loop.
SPECIFICATION FairSpec
CONSTANTS
  Jobs <- SafetyJobs
  DocTypes <- SafetyTypes
  Covers <- SafetyCovers
  Drafts <- AllDrafts
  Figures <- MoneyFigures
  Instructed <- StatedFigures
  MaxClauses = 2
  MaxSections = 2
  MaxCriticRetries = 2
  MaxHealerRetries = 2
  None = None
INVARIANTS BlockedDeliversNothing DeliveredTypeIsSupported DeliveredContentsAreSourced UnhealedContentsHold UnhealedReportIsWhole RetriesAreBounded
PROPERTIES RunEnds
CHECK_DEADLOCK FALSE
