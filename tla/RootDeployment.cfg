\* Two executions that may overlap in every way, each with one build more than it has actions.
CONSTANTS
  Execs = {e1, e2}
  Sources = {s1, s2}
  Images = {i1}
  None = none
  Unread = unread
  Attempts = 4
  MaxFaults = 2
SPECIFICATION Spec
SYMMETRY Symmetry
CHECK_DEADLOCK FALSE
INVARIANT NoClaimLost
INVARIANT AcceptanceFollowsOwnership
INVARIANT DeploymentsReal
PROPERTY CheckpointsExtend
