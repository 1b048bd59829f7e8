\* The idle wait lies between the intervals.
CONSTANTS Intervals = {1, 5}
          Hosts = {"h1", "h2"}
          IdleInterval = 4
          MaxSubmit = 2
SPECIFICATION FairSpec
INVARIANTS TypeOK BeatsFollowReload BeatsKeepComing
PROPERTIES HeartbeatGoesOn ReturnsOnCancel
