SPECIFICATION FairSpec
CONSTANTS
  FeatureOrder <- Features
  Trees <- AllTrees
  Selections <- AllSelections
INVARIANTS TypeOK ResultExact ToolSurvives
PROPERTIES StepsSucceed RetriesMend
CHECK_DEADLOCK FALSE
