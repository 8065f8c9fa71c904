\* Four rows with two stamps, five events, a graph of up to eight nodes, and the configurations
\* over five links of which some are not valid all the time.
CONSTANTS
  RowIds = {1, 2, 3, 4}
  Stamps = {1, 2}
  Limits = {1, 2}
  MaxFlips = 1
  MaxEvents = 5
  MaxRows = 5
  MaxAttempts = 2
  NodeCap = 5
  EdgeCap = 4
  NodeLimits = {1, 3, 5}
  EdgeLimits = {1, 3, 4}
  Services <- MCServices
  Declarable <- MCLinks
  Focus = "f"
  Instants = {0, 1}
  Intervals <- MCIntervals
SPECIFICATION Spec
INVARIANT PagesAreExact
INVARIANT PollsAreComplete
INVARIANT GraphIsHonest
INVARIANT TopologyIsReachability
CHECK_DEADLOCK FALSE
