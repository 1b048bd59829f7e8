\* In units of 10 s: from one attempt of 10 s to one of 80 s.
CONSTANTS p1 = p1 q1 = q1
          Posts = {}
          Requests = {q1}
          Budgets = {1, 8}
          TlsChoices = {TRUE, FALSE}
          WriteSlack = 3
          MaxRev = 1
SPECIFICATION Spec
INVARIANTS WriteTimeoutClears
