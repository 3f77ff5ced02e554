SPECIFICATION Spec
CONSTANTS
  Runs <- MCRuns
  MaxFaults = 2
  Contexts = {c1, c2, c3}
  Implementer = impl
  Findings = {f1, f2}
  Cycles = {1}
  Acceptances = {TRUE, FALSE}
  LostAcks = FALSE
  MaxCalls = 2
  MaxReworks = 1
  MaxMoves = 2
  Takers = {"t"}
  IdOrder <- MCIdOrder
  AnyId = "any"
  Items <- MCItems
  Listings <- MCListings
  Overrides <- MCOverrides
  OddFields <- MCOddFields
  MaxEdits = 1
  Repositories <- MCRepositories
  ChangedPaths <- MCChangedPaths
INVARIANTS WorkIsVetted AcceptanceIsWhole EffectsAreCovered  ReviewsConverge PauseIsHonest
PROPERTIES PassedTheGate CallEnds
CHECK_DEADLOCK FALSE
