\* Four alerts in one payload or two, with merging on or off in each.
CONSTANTS crit = crit warn = warn unkn = unkn gone1 = gone1 gone2 = gone2
          down = down unre = unre solo = solo
          norule = norule badrule = badrule noname = noname
          s1 = s1 s2 = s2 h1 = h1
          Alerts <- MCAlerts
          Targets <- MCTargets
          CheckTypeOf <- MCCheckTypeOf
          Firing <- MCFiring
          Fate <- MCFate
          TargetOf <- MCTargetOf
          CodeOf <- MCCodeOf
          SummaryFails <- MCSummaryFails
          EnabledIn = {TRUE, FALSE}
          MaxAlerts = 4
          MaxPayloads = 2
SPECIFICATION Spec
INVARIANTS TypeOK NothingDropped OneResultPerTarget ShowsWorstFiring FirstSeenOrder
           LastAlertWins LedgerBalances
\* The handler stops after MaxPayloads payloads.
CHECK_DEADLOCK FALSE
