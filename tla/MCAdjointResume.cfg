SPECIFICATION MCAdjointSpec
CONSTANTS Runner = {r1, r2} r1=r1 r2=r2
Problems <- MCProblems
Ticks = 4
MaxStops = 2
INVARIANTS SameFuture
CHECK_DEADLOCK FALSE
