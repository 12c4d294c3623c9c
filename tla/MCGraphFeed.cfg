SPECIFICATION Spec
CONSTANTS
  s1 = s1
  s2 = s2
  pod = pod
  svc = svc
  k1 = k1
  k2 = k2
  nsA = nsA
  nsB = nsB
  NoStream = NoStream
  Objects = {pod, svc}
  Kinds = {k1, k2}
  KindOf <- TwoKinds
  Namespaces = {nsA, nsB}
  NsOf <- OneNs
  Streams = {s1, s2}
  MaxVer = 2
  MaxInflight = 1
  WireCap = 2
  MaxFaults = 2
CHECK_DEADLOCK FALSE
INVARIANTS TypeOK NoLostChange ScreenIsBuilt PatchesApply
PROPERTY KeepsPromise
SYMMETRY StreamSymmetry
CONSTRAINT Budget
