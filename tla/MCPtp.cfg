SPECIFICATION MCSpec
CONSTANTS
  c1 = c1
  c2 = c2
  Callers = {c1, c2}
  NSEC_PER_SEC = 3
  U32 = 16
  RA_PTP_ADJ_TIME_MAX_OFFSET = 3
  RA_EVENT_OUT_MAX_PERIOD = 3
  RA_PTP_DRIFT_CORRECTION_MAX_PPB = 5
  RA_PTP_DRIFT_CORRECTION_PPB_VALUE_MASK = 7
  Deltas <- MCDeltas
  Times = {5}
  Periods = {0, 2, 4, 9, 19}
  Drifts <- MCDrifts
  TimestampWords = 4
  RA_PTP_EXTTS_TIMESTAMP_WORDLEN = 16
  FifoWords = 6
  MaxClock = 6
  MaxCalls = 2
  MaxEvents = 3
  Uint32 = 4
  Uint64 = 256
  sampleRate = 1
  nanoSecondsPerSecond = 16
  subSamplesPerSample = 8
  subSamplesDeviationThreshold = 2
  Samples = {1, 2, 3, 4, 5}
  Phases <- MCPhases
INVARIANTS
  PairIsOneEvents
  SettingsInForce
  OffsetWithinCreep
PROPERTIES
  AdjtimeAddsDelta
  PulseIsNoticed
CHECK_DEADLOCK FALSE
