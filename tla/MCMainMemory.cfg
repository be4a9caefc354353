SPECIFICATION Spec
CONSTANTS
  t1 = t1  t2 = t2
  Tables = {t1, t2}
  Keys = {k1, k2}
  Values = {v1, v2}
  Timestamps = {1}
  NumFrames = 2
  MaxCounter = 5
  NoPage = NoPage
  k1 = k1  k2 = k2  v1 = v1  v2 = v2
INVARIANTS
  TypeOK
  OneOwnerPerFrame
  FrameHoldsPageKey
  FullMeansNoVictim
  DistinctCounters
PROPERTIES
  ImplementsWriteBuffer
SYMMETRY Symmetry
