CONSTANTS
  Vcpus = {v, w}
  Agents = {a}
  Busy = {w}
  NCpus = 2
  Idle = Idle
  Nobody = Nobody
  Homes = {0}
  MaxParties = 3
SPECIFICATION Spec
INVARIANT NoBug
