SPECIFICATION Spec
CONSTANTS
  Numbers <- PortNumbers
  Busy = {80, 4464, 40000}
  Ephemeral = {40000, 50000}
  NoPort = NoPort
  NoNumber = NoNumber
INVARIANTS EndsWithItsReason ListensAsAsked
PROPERTY EarlySignalEnds
CHECK_DEADLOCK FALSE
