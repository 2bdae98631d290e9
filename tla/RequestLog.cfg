SPECIFICATION Spec
CONSTANTS
  Requests = {r1, r2}
  Clients = {alice, anonymous}
  Estimates = {2}
  Actuals = {1, 3}
  Nothing = Nothing
  MaxFailures = 1
INVARIANTS LogFollowsMoney ReportsAddUp
CHECK_DEADLOCK FALSE
