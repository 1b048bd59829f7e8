\* Latency 1 stays within the margin, (2 * 2 + 1) * 1 < 6; latency 4 overruns
\* it by so much that the deadline does cut submissions.  An outage of 10 is the
\* longest that two pauses of 5 bridge.
CONSTANTS Retries = 2
          Timeout = 2
          RetryBackoff = 5
          Margin = 6
          Latencies = {0, 1, 4}
          Outages = {4, 10}
SPECIFICATION OutageSpec
INVARIANTS TypeOK AckMeansApplied BudgetNeverCuts HandlerReleased
PROPERTIES ImplementsContract SubmitReturns OutageBridged
\* Submit returns and the wire empties: the system stops.
CHECK_DEADLOCK FALSE
