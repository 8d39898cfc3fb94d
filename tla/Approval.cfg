SPECIFICATION Spec
CONSTANTS
  Requests = {r1, r2, r3}
  Providers = {"feishu", "dingtalk", "wechat"}
  MaxFaults = 1
SYMMETRY RequestSymmetry
INVARIANTS TicketSound DecisionsExplained
PROPERTIES DecisionFinal
CHECK_DEADLOCK FALSE
