SPECIFICATION Spec
CONSTANTS
  Pods = {p1, p2}
  MaxWork = 1
  StaleAfter = 1
  Timeout = 1
  Skew = 1
PROPERTIES TrustedSumIsRecent
