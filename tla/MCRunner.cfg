SPECIFICATION FairSpec
CONSTANTS
  Scripts = {s1, s2}
  Workers = {w1, w2}
  NoScript = NoScript
  Quanta = {0, 2}
  MaxLines = 3
INVARIANTS
  TypeOK
  OnePlacePerScript
  NoLostWakeup
  QuantumIsRespected
PROPERTIES
  LinesRunInOrder
  EveryScriptEnds
