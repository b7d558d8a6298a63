\* One rule, two requests, nothing fails.
CONSTANTS
  Rule = {rule}
  Collector = {c1, c2}
  CollectFaults = FALSE
  MaxCollectFailures = 0
  NoRule = NoRule
SPECIFICATION CollectSpec
INVARIANTS
  RuleInOneRun
