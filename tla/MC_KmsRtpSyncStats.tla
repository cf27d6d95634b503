------------------------- MODULE MC_KmsRtpSyncStats -------------------------
(* Two streaming threads on 4-bit clocks and 2-bit RTP timestamps: enough  *)
(* for a configure, an SR, an RTP buffer whose row is still unwritten, and *)
(* a second SR from another thread before the row is written.              *)
EXTENDS KmsRtpSyncStats

CONSTANTS t1, t2

MC_Threads == {t1, t2}
MC_ClockRates == {-1, 1}
MC_ArrivalPts == {5}
MC_SyncTimes == {4}
MC_NtpStamps == {0, 4}
=============================================================================
