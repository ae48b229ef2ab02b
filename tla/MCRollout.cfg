\* What README.md:135-139 says of a deployment, against what nginx knows.
SPECIFICATION RolloutSpec
CONSTANTS
  Container = {k1, k2, k3, k4, k5, k6}
  NoContainer = NoContainer
  MaxDeploys = 2
INVARIANTS AlwaysServed
CHECK_DEADLOCK FALSE
