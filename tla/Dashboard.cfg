\* Polls that overlap while NeuraCache stops, starts and changes at any time.
CONSTANTS
  Slots = {r1, r2}
  Shared = {r2}
  Urls = {"/api/health", "/api/dashboard", "/"}
  MaxVersion = 2
  Replies <- MCReplies
  None = None
SPECIFICATION DashboardSpec
INVARIANTS
  DashboardTypeOK
  ResolvesOnlyWithAllOfIt
PROPERTIES
  EveryRequestIsAnswered
  DashboardCatchesUp
