\* Four alerts are two payloads of two: the one shows the fallback, the other not.
CONSTANTS crit = crit warn = warn unkn = unkn gone1 = gone1 gone2 = gone2
          down = down unre = unre solo = solo
          norule = norule badrule = badrule noname = noname
          s1 = s1 s2 = s2 h1 = h1
          Alerts <- MCAlerts
          Targets <- MCTargets
          CheckTypeOf <- MCCheckTypeOf
          Firing <- MCFiring
          Fate <- MCFate
          TargetOf <- MCTargetOf
          CodeOf <- MCCodeOf
          SummaryFails <- MCSummaryFails
          EnabledIn = {TRUE}
          MaxAlerts = 4
          MaxPayloads = 2
SPECIFICATION Spec
INVARIANTS FallbackIsUniform
\* The handler stops after MaxPayloads payloads.
CHECK_DEADLOCK FALSE
