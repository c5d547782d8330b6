SPECIFICATION Spec
CONSTANTS
  Pods = {p1, p2}
  MaxWork = 2
  MaxCost = 1
PROPERTIES LeastBusyIsRemoved
