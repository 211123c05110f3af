SPECIFICATION Spec
CONSTANTS
  Threads = {t1, t2}
  Objects = {o1, o2, o3}
  None = None
  MaxHeld = 2
  MaxLocks = 2
SYMMETRY Symmetric
INVARIANTS CountsAreExact NoUnloadWhileUsed LockKeepsFactory
