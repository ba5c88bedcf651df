CONSTANTS
  m1 = m1
  m2 = m2
  m3 = m3
  Message <- Three
  Poison <- OnePoison
  BatchSize = 2
  MqttBound <- Disturbed
SPECIFICATION MqttFairSpec
INVARIANTS MqttTypeOK ConnectionLosesNothing RescueSaves
PROPERTY Reconnects
CHECK_DEADLOCK FALSE
