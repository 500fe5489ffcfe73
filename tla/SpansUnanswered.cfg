SPECIFICATION ExporterSpec
CONSTANTS
  MaxBatch = 2  MaxQueue = 3  MaxSpans = 6
CHECK_DEADLOCK FALSE
INVARIANT
  FailuresStayQueued
