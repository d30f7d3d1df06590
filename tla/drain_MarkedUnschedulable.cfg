SPECIFICATION Spec
CONSTANTS
  agent0 = agent0
  agent1 = agent1
  pod1 = pod1
  pod2 = pod2
  Nodes = {agent0, agent1}
  Pods = {pod1, pod2}
  Elsewhere = Elsewhere
  Unassigned = Unassigned
  CordonMaxRetries = 2
  MaxTouches = 2
CHECK_DEADLOCK FALSE
INVARIANTS
  MarkedUnschedulable
