\* One POST /-/reload next to the watch loop.
CONSTANTS p1 = p1 q1 = q1
          Posts = {p1}
          Requests = {}
          Budgets = {1}
          TlsChoices = {TRUE}
          WriteSlack = 3
          MaxRev = 2
SPECIFICATION Spec
INVARIANTS TakesEffect
