CONSTANTS
  W = 4
  R = 2
  SECOND = 3
  NTP_FRAC = 2
  ClockRates <- MC_ClockRates
  PayloadTypes = {0}
  Ssrcs = {1}
  ArrivalPts <- MC_ArrivalPts
  SyncTimes <- MC_SyncTimes
  NtpStamps <- MC_NtpStamps
  MaxCalls = 5
  t1 = t1
  t2 = t2
  Threads <- MC_Threads
  NoOwner = NoOwner
SPECIFICATION StatsSpec
INVARIANTS StatsTypeOK StatsRowsReproducible StatsRowsFromSnapshot
PROPERTIES StatsRowsWritten
CHECK_DEADLOCK FALSE
