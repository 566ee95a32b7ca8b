CONSTANTS
  Catalog <- MixedCatalog
  QuantityScale = 2
  PointScale = 100
  MaxPrice = 1000
  Scenarios <- MixedScenarios
  Options <- SomeOptions
  MaxChanges = 1

SPECIFICATION DecisionSpec

INVARIANTS
  EngineAccepted
  DamageRejected
  RecommendationRests

PROPERTIES
  ForgettingNeverHelps
  TighteningExcludes

CHECK_DEADLOCK FALSE
