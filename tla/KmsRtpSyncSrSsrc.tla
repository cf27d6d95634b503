-------------------------- MODULE KmsRtpSyncSrSsrc --------------------------
(***************************************************************************)
(* The synchronizer with the SSRC of each RTCP Sender Report               *)
(* (kmsrtpsynchronizer.c, process_rtcp_packet).  The code reads the SR's   *)
(* SSRC (gst_rtcp_packet_sr_get_sender_info) and only logs it; this module *)
(* passes it into the SR step and records, as history, which SSRC the base *)
(* anchor and the last-SR anchor came from.  Everything else is the core   *)
(* model unchanged.                                                        *)
(***************************************************************************)
EXTENDS KmsRtpSynchronizer

CONSTANT SrSsrcs   \* SSRCs carried by the Sender Reports fed to the instance

VARIABLES
  base_sr_ssrc,   \* history: SSRC of the SR that set base_ntp_time (0 = none)
  last_sr_ssrc    \* history: SSRC of the SR that set last_rtcp_* (0 = none)

srVars == <<base_sr_ssrc, last_sr_ssrc>>
srAllVars == <<vars, srVars>>

SrTypeOK ==
  /\ TypeOK
  /\ base_sr_ssrc \in SrSsrcs \cup {0} /\ last_sr_ssrc \in SrSsrcs \cup {0}

SrInit == Init /\ base_sr_ssrc = 0 /\ last_sr_ssrc = 0

(* process_rtcp_packet on an SR of SSRC s: the SSRC is read with the       *)
(* sender info and logged, then the anchors are updated as in the core,    *)
(* whatever s is.                                                          *)
RtcpSenderReportFrom(s, ntp, rtcpTs, dts) ==
  /\ RtcpSenderReport(ntp, rtcpTs, dts)
  /\ base_sr_ssrc' = IF base_initiated THEN base_sr_ssrc ELSE s
  /\ last_sr_ssrc' = s

SrNext ==
  \/ \E s \in SrSsrcs, ntp \in NtpStamps, rtcpTs \in RtpTimestamps,
        dts \in SyncTimes :
       RtcpSenderReportFrom(s, ntp, rtcpTs, dts)
  \/ /\ \/ \E p \in PayloadTypes, cr \in ClockRates : SetPtClockRate(p, cr)
        \/ \E kind \in {"unmappable", "empty", "RR"} : RtcpIgnored(kind)
        \/ RtpUnmappable
        \/ \E s \in Ssrcs, p \in PayloadTypes : RtpRejected(s, p)
        \/ \E s \in Ssrcs, p \in PayloadTypes, ts \in RtpTimestamps,
              ptsOrig \in ArrivalPts :
             RtpAccepted(s, p, ts, ptsOrig)
     /\ UNCHANGED srVars

SrSpec == SrInit /\ [][SrNext]_srAllVars

-----------------------------------------------------------------------------
(* process_rtp_buffer_mapped, synchronized regime: a PTS computed from the *)
(* Sender Report anchors uses only reports of the stream's own SSRC (the   *)
(* one the instance learned and locks), as an SR "carries the NTP/RTP      *)
(* correlation for one SSRC".                                              *)
AnchorsFromStreamSsrc ==
  [][NewOutput /\ out'.path = "sync" =>
       base_sr_ssrc = ssrc' /\ last_sr_ssrc = ssrc']_srAllVars

=============================================================================
