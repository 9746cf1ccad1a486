CONSTANTS
  k1 = k1  k2 = k2  k3 = k3  k4 = k4
  p1 = p1  p2 = p2  p3 = p3  p4 = p4  p5 = p5
  l1 = l1  l2 = l2
  None = None
  Keys = {k1, k2, k3, k4}
  Patterns = {p1, p2, p3, p4, p5}
  Wide = {}
  Loose = {p5}
  Fenced = {}
  Leases = {l1, l2}
  Capacities = {1, 3}
  BucketOf <- MCBucketOf
  MemoOf <- MCMemoOf
  First <- MCFirst
  Rooted = {k2, k3, k4}
  MaxEpoch = 1
  MaxInserts = 4
SYMMETRY Symmetric
SPECIFICATION Spec
INVARIANTS LendsItsPattern ChainsHoldEntries
PROPERTIES ImplementsPlanCache
