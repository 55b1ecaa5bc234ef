SPECIFICATION Spec
INVARIANTS
  OneClient
  OneService
  NoLostWakeup
  NoLostThread
PROPERTIES
  QueuedCallReturns
CONSTANTS
  c1 = c1
  c2 = c2
  c3 = c3
  q1 = q1
  q2 = q2
  atomic = atomic
  None = None
  Callers <- ThreeCallers
  Services <- MixedServices
  Atomic <- AtomicServices
  Threads = 2
CHECK_DEADLOCK FALSE
