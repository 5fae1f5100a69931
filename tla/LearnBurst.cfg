SPECIFICATION Spec
CONSTANTS
    Lane = {l1, l2}
    Ip = {i1}
    PerIp = 3
    Budget = 100
    MaxCost = 1
    MaxCalls = 9
    Stale = FALSE
INVARIANT
    OvershootIsARequestOrTwo
CHECK_DEADLOCK FALSE
