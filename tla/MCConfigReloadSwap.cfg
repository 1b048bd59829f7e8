\* The watch loop alone; one change is enough.
CONSTANTS p1 = p1 q1 = q1
          Posts = {}
          Requests = {}
          Budgets = {1}
          TlsChoices = {TRUE}
          WriteSlack = 3
          MaxRev = 1
SPECIFICATION FairSpec
PROPERTIES WatchedChangesLoad
