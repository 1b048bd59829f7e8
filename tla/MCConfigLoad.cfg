CONSTANTS Severities <- MCSeverities
          Names <- MCNames
          MaxAlerts = 3
          Files <- MCFiles
          Secrets <- MCSecrets
          RuleNames <- MCRuleNames
SPECIFICATION MCSpec
INVARIANTS LoadTypeOK LookupsNeverMiss WorstIsMostSevere LoadsExactlyRight
            AuthHolds HeartbeatSound
\* A config is loaded once, and MaxAlerts alerts are scored.
CHECK_DEADLOCK FALSE
