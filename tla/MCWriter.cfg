\* The system may stop: the writer returned and no packet is left to send.
SPECIFICATION Spec
CHECK_DEADLOCK FALSE
CONSTANTS
  BatchMax = 2
  MaxPackets = 7
INVARIANTS TypeOK InOrder SendWakesWriter
PROPERTIES LossNeedsFullBatch QueuedIsWritten
