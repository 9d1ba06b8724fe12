\* One check per Reconcile, with a spec, half a spec or none.
SPECIFICATION Spec
CONSTANTS
  Checks = {"user", "group", "readOnlyRootFilesystem", "dropAllCapabilities"}
  Containers <- MCContainers
  Main = "main"
  InitContainers = {"init"}
  Templates <- MCTemplates
  Specs <- MCSpecs
  FieldValues <- MCValues
  RunMode = "sequential"
INVARIANTS TypeOK Isolated RecommendationSurvived SurvivedRecommended FinalTriesRecommendation Reproducible
CHECK_DEADLOCK FALSE
