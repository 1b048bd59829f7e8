\* The watch loop, a POST /-/reload handler and one request; three changes.
CONSTANTS p1 = p1 q1 = q1
          Posts = {p1}
          Requests = {q1}
          Budgets = {1}
          TlsChoices = {TRUE}
          WriteSlack = 3
          MaxRev = 3
SPECIFICATION FairSpec
INVARIANTS TypeOK ServedConfigLoads OneGeneration LoneReloadRepairs
PROPERTIES TriggeredLoads
