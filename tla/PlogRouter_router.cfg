\* Tasks open, subscribe, publish to each other and close in any order.
CONSTANTS
  source = source
  relay = relay
  sink = sink
  None = None
  Clients = {source, relay, sink}
  Topics = {1}
  Filters = {1}
  NoFilter = 0
  Matches <- MCMatches
  MaxMsgs <- MCMaxMsgs
  MaxFilters <- MCMaxFilters
SPECIFICATION FairSpec
INVARIANTS TypeOK PointersValid ResponsesPair InOrder ReachesAll
PROPERTIES StuckBehindStuck
\* Everyone may have closed, or wait for a task that has.
CHECK_DEADLOCK FALSE
