SPECIFICATION MCSpec
CONSTANTS
    Space <- ShippedSpace
INVARIANTS
    ShippedExact
    ShippedOrdered
