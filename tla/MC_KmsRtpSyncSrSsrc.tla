------------------------- MODULE MC_KmsRtpSyncSrSsrc -------------------------
(* One media SSRC, Sender Reports of that SSRC and of another one.         *)
EXTENDS KmsRtpSyncSrSsrc

MC_ClockRates == {1}
MC_ArrivalPts == {5}
MC_SyncTimes == {4}
MC_NtpStamps == {0, 4}
=============================================================================
