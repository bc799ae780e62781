SPECIFICATION BillingSpec
CONSTANTS
  Callers = {c1, c2}
  Keyed = {c1}
  Admins = {a1, a2}
  Limit = 1
  Estimate = 3
  Capped = {0, 5}
  Amounts = {5}
  Costs = {4}
  Increases = {}
  Decreases = {2}
  MaxOps = 4
  MaxPeriods = 1
  Exporters = {x1}
  Platforms = {stripe, orb}
  Idempotent = {orb}
  Rounded = {stripe, orb}
  Cent = 8
  Deployments = {{stripe, orb}, {stripe}}
SYMMETRY Symmetry
CHECK_DEADLOCK FALSE
INVARIANTS TypeOK TopUpKept DriftExplained RateLimited AdmissionCovered ExportedOnce
PROPERTY RevokedStaysOut
