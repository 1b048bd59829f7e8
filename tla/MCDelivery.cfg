\* Two calls in flight; firing, resolved, firing again; one end of the process.
CONSTANTS s1 = s1 s2 = s2
          NoSlot = NoSlot
          Slots = {s1, s2}
          Retries = 1
          Firing = {0, 2}
          MaxRev = 2
          MaxRestarts = 1
SPECIFICATION FairSpec
INVARIANTS TypeOK AckedIsSettled
PROPERTIES StepBackIsStray FiringIsShown ImplementsAtLeastOnce
