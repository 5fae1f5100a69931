SPECIFICATION MCSpec
CONSTANTS
    Space <- ShippedSpace
INVARIANT
    ClosedFormEvaluates
