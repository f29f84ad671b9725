SPECIFICATION KernelSpec
CONSTANTS
  BlockingTimeouts <- MCNoTimeout
  Blocking = {TRUE}
  Launchers = {"plain"}
  Launches = 1
  TrialBound = 1
  MaxElapsed = 2
INVARIANT NegativeDisablesTimeout
