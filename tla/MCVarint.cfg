SPECIFICATION Spec
CONSTANT Numbers <- MCNumbers
INVARIANT VarintRoundTrips
CHECK_DEADLOCK FALSE
