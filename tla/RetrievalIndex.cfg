\* Either the server and an MCP process, with three models of which two have the same dimension,
\* or the legacy process with two requests at a time.
CONSTANTS
  Fleets <- MCFleets
  Docs = {"d1", "d2"}
  Bodies = {"b1", "b2"}
  Terms = {"x", "y", "z"}
  TextOf <- MCTextOf
  Titles <- MCTitles
  Models = {"m1", "m2", "m3"}
  Dim <- MCDim
  Collections = {"c1", "c2"}
  Configs <- MCConfigs
  Jobs = {1, 2}
  MaxBoots = 3
  MaxWrites = 3
SPECIFICATION Spec
INVARIANT StatisticsAreExact
INVARIANT SearchStaysInSpace
CHECK_DEADLOCK FALSE
