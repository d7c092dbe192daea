CONSTANTS
  p1 = p1
  p2 = p2
  p3 = p3
  Products <- MCProducts
  Top <- MCTop
  Pair <- MCPair
  Links <- MCLinks
  NavTargets <- MCNavTargets
  MaxActs = 3
  MaxHist = 1
SPECIFICATION FairSpec
INVARIANTS AddressTellsSelection ListFollowsFilterBar
PROPERTIES InstancesStayTogether BarEnds
CHECK_DEADLOCK FALSE
