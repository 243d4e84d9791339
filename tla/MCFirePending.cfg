\* A run stopped early has published what it finished when the power fails.
SPECIFICATION FireSpec
CONSTANTS
  fp = fp  fq = fq  fi = fi  fj = fj
  Process = {fp, fq}
  Demand <- MCDemand
  Wants <- MCWants
  Sectors = 1
  MaxGenerations = 1
  MaxLosses = 1
INVARIANT PendingReadable
CHECK_DEADLOCK FALSE
