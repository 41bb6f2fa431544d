CONSTANTS
  Words <- MCWords
  Configs <- MCAnyConfigs
SPECIFICATION Spec
INVARIANT AppliesEachLine
\* load_service_config returns at the end of the file.
CHECK_DEADLOCK FALSE
