CONSTANTS
  Vcpus = {v, w}
  Agents = {a, b}
  Busy = {w}
  NCpus = 2
  Idle = Idle
  Nobody = Nobody
  Homes = {0}
  MaxParties = 3
SPECIFICATION Spec
INVARIANTS SwitchAsserts OneCpu HeldIsSaved AwaitedStops NoVcpuLost NoWorkUnnoticed AffinityKept MoverAtWork UrgentCounted EventSeen PollSeen
SYMMETRY AgentSymmetry
