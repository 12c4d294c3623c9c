SPECIFICATION LiveSpec
CONSTANTS
  s1 = s1
  s2 = s2
  pod = pod
  svc = svc
  k1 = k1
  k2 = k2
  nsA = nsA
  nsB = nsB
  NoStream = NoStream
  Objects = {pod}
  Kinds = {k1}
  KindOf <- OneKind
  Namespaces = {nsA}
  NsOf <- PodNs
  Streams = {s1, s2}
  MaxVer = 1
  MaxInflight = 1
  WireCap = 1
  MaxFaults = 2
CHECK_DEADLOCK FALSE
PROPERTIES CatchesUp HandlerEnds
