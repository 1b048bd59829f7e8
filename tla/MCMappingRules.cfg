CONSTANTS Labels <- MCLabels
          Values <- MCValues
          Regexes <- MCRegexes
          Rules <- MCRules
          Severities <- MCSeverities
          Names <- MCNames
          StateConfigs <- MCStateConfigs
          MaxRules = 3
SPECIFICATION Spec
INVARIANTS TypeOK FirstMatchDecides CheckResultsAreUsable OppositesCover
\* One alert is mapped.
CHECK_DEADLOCK FALSE
