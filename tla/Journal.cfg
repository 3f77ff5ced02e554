SPECIFICATION Spec
CONSTANTS
  Actors = {a1, a2}
  Categories <- TwoCategories
  Transitions = {"integration-deliver"}
  MaxActs = 1
  MaxFaults = 2
  MaxCrashes = 1
SYMMETRY Symmetry
INVARIANTS ManifestIsSound EffectHasIntent
PROPERTY EvidenceStands
CHECK_DEADLOCK FALSE
