CONSTANTS
  W = 4
  R = 2
  SECOND = 3
  NTP_FRAC = 2
  ClockRates <- MC_ClockRates
  PayloadTypes = {0, 1}
  Ssrcs = {0, 1}
  ArrivalPts <- MC_ArrivalPts
  SyncTimes <- MC_SyncTimes
  NtpStamps <- MC_NtpStamps
  MaxCalls = 5
SPECIFICATION Spec
INVARIANTS TypeOK SortedInv
PROPERTIES PtsArithmetic SortedOrder
CHECK_DEADLOCK FALSE
