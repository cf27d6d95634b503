----------------------- MODULE MC_KmsRtpSynchronizer -----------------------
(* One synchronizer with 4-bit clock times and 2-bit RTP timestamps: the   *)
(* word holds four RTP wraps, and the input sets put the anchors next to   *)
(* 0 and G_MAXUINT64 so that every saturation branch can be reached.       *)
EXTENDS KmsRtpSynchronizer

MC_ClockRates == {-1, 1, 2}
MC_ArrivalPts == {0, 5, 2^W - 1}
MC_SyncTimes == {4, 2^W - 2}
MC_NtpStamps == {0, 4, 2^W - 1}
=============================================================================
