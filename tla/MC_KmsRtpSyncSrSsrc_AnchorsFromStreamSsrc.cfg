CONSTANTS
  W = 4
  R = 2
  SECOND = 3
  NTP_FRAC = 2
  ClockRates <- MC_ClockRates
  PayloadTypes = {0}
  Ssrcs = {1}
  SrSsrcs = {1, 2}
  ArrivalPts <- MC_ArrivalPts
  SyncTimes <- MC_SyncTimes
  NtpStamps <- MC_NtpStamps
  MaxCalls = 4
SPECIFICATION SrSpec
PROPERTY AnchorsFromStreamSsrc
CHECK_DEADLOCK FALSE
