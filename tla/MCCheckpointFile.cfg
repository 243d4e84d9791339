\* Two processes save to one path while a third reads it; and what is saved
\* of a session whose clients make, spend and release objects; two FIRE
\* sessions over the same directories; and two runs of adjoint transport over one
\* continuation file.
SPECIFICATION MCSpec
CONSTANTS
  Writer = {w1, w2}
  Reader = {r}
  Pieces = 2
  MaxImages = 3
  ChartKey = {k1, k2}
  Programs <- MCPrograms
  fp = fp  fq = fq  fi = fi  fj = fj
  Process = {fp, fq}
  Demand <- MCDemand
  Wants <- MCWants
  Sectors = 1
  MaxGenerations = 1
  MaxLosses = 1
  r1 = r1  r2 = r2
  Runner = {r1, r2}
  Problems <- MCProblems
  Ticks = 4
  MaxStops = 2
SYMMETRY Symmetry
INVARIANTS PathWhole ReaderGetsOneImage AcknowledgedKept RestoresWhole ResumeContinues
PROPERTIES LeftByTheDead RetiredWhenDurable
CHECK_DEADLOCK FALSE
