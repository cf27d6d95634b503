------------------------- MODULE KmsRtpSynchronizer -------------------------
(***************************************************************************)
(* The per-stream RTP synchronizer of kms-core                             *)
(* (kmsrtpsynchronizer.c): one KmsRtpSynchronizer instance, its private    *)
(* state, and the three public operations set_pt_clock_rate,               *)
(* process_rtcp_buffer and process_rtp_buffer_writable.                    *)
(*                                                                         *)
(* Every operation does all its reads and writes of the private state      *)
(* while holding the instance GRecMutex, so each one is a single atomic    *)
(* step here.  The parts that run outside the lock (the clock_rate <= 0    *)
(* parameter check, the NTP conversion, the stats write) touch no shared   *)
(* state of this module.                                                   *)
(*                                                                         *)
(* 64-bit GstClockTime values and 32-bit RTP timestamps keep their         *)
(* wrap-around: they are words of W and R bits, W = 64 and R = 32 in the   *)
(* code, small in the model.  GST_CLOCK_TIME_NONE is the all-ones word,    *)
(* exactly as in the code, so it can collide with a saturated value.       *)
(***************************************************************************)
EXTENDS Integers

CONSTANTS
  W,            \* bits of a GstClockTime (64)
  R,            \* bits of an RTP timestamp (32)
  SECOND,       \* GST_SECOND: nanoseconds per second
  NTP_FRAC,     \* fractional bits of the NTP fixed-point time (32)
  ClockRates,   \* clock rates a caller may pass to set_pt_clock_rate
  PayloadTypes, \* payload types carried by packets / passed by callers
  Ssrcs,        \* SSRCs carried by RTP packets (0 included: it is legal)
  ArrivalPts,   \* PTS an RTP buffer carries before processing
  SyncTimes,    \* DTS of an RTCP buffer: the sync time of its arrival
  NtpStamps,    \* NTP fixed-point timestamps carried by Sender Reports
  MaxCalls      \* bound on the number of operations of a behaviour

ASSUME WidthAssumption ==
  /\ R \in Nat \ {0}
  /\ W \in Nat
  /\ R < W
  \* the arithmetic facts about these powers of two the proofs rely on
  /\ 2^R \in Nat \ {0, 1}
  /\ 2^W \in Nat
  /\ 2^W > 2^R

ASSUME InputAssumption ==
  /\ SECOND \in Nat \ {0}
  /\ NTP_FRAC \in Nat
  /\ 2^NTP_FRAC \in Nat \ {0}
  /\ ClockRates \subseteq Int
  /\ PayloadTypes \subseteq Nat
  /\ Ssrcs \subseteq Nat
  /\ ArrivalPts \subseteq 0..(2^W - 1)
  /\ SyncTimes \subseteq 0..(2^W - 1)
  /\ NtpStamps \subseteq 0..(2^W - 1)
  /\ MaxCalls \in Nat

-----------------------------------------------------------------------------
(* Words and the library helpers the code calls.                           *)

MOD == 2^W
MAXU == MOD - 1             \* G_MAXUINT64
NONE == MAXU                \* GST_CLOCK_TIME_NONE
Word == 0..MAXU
RMOD == 2^R
RtpTimestamps == 0..(RMOD - 1)

IsValid(t) == t # NONE      \* GST_CLOCK_TIME_IS_VALID

(* gst_util_uint64_scale(_int)(v, num, den): v * num / den truncated,      *)
(* G_MAXUINT64 when the quotient does not fit in 64 bits.                  *)
Scale(v, num, den) ==
  IF (v * num) \div den > MAXU THEN MAXU ELSE (v * num) \div den

(* The 32-bit difference ts - low bits of ext, read as a signed int32.     *)
SignedDiff(ts, ext) ==
  LET d == (ts - ext) % RMOD IN IF d < RMOD \div 2 THEN d ELSE d - RMOD

(* gst_rtp_buffer_ext_timestamp (&ext, ts): the new extended timestamp,    *)
(* which the call also stores in ext.  The first call zero-extends ts;     *)
(* later ones move ext by the signed 32-bit difference, modulo 2^64.       *)
ExtTimestamp(ext, ts) ==
  IF ext = NONE THEN ts ELSE (ext + SignedDiff(ts, ext)) % MOD

(* NTP fixed-point to nanoseconds: ntp_ts * GST_SECOND / 2^32.             *)
NtpToTime(ntp) == Scale(ntp, SECOND, 2^NTP_FRAC)

(* kms_rtp_synchronizer_rtp_diff_full: move pts by the time between the    *)
(* extended timestamps ext and base, saturating at 0 and G_MAXUINT64 and   *)
(* honouring the wrap flags of an earlier NTP adjustment.                  *)
RtpDiffFull(pts, ext, base, rate, wrappedDown, wrappedUp) ==
  LET d == Scale(IF ext > base THEN ext - base ELSE base - ext, SECOND, rate)
  IN  IF ext > base THEN
        IF wrappedUp THEN MAXU
        ELSE IF wrappedDown /\ d < MAXU - pts THEN 0
        ELSE IF ~wrappedDown /\ d > MAXU - pts THEN MAXU
        ELSE (pts + d) % MOD
      ELSE IF ext < base THEN
        IF wrappedDown THEN 0
        ELSE IF wrappedUp /\ d < pts THEN MAXU
        ELSE IF ~wrappedUp /\ d > pts THEN 0
        ELSE (pts - d) % MOD
      ELSE IF wrappedDown THEN 0
      ELSE IF wrappedUp THEN MAXU
      ELSE pts

-----------------------------------------------------------------------------
VARIABLES
  feeded_sorted,
  ssrc, pt, clock_rate,
  base_initiated, base_ntp_time, base_sync_time,
  base_interpolate_initiated, base_interpolate_ext_ts, base_interpolate_pts,
  rtp_ext_ts, last_rtcp_ext_ts, last_rtcp_ntp_time,
  fs_last_rtp_ext_ts, fs_last_pts,
  \* What the caller observes: the return value of the last call and the
  \* last RTP buffer that got a PTS (its call number, extended timestamp,
  \* PTS before the sorted-mode fix, PTS written, and the path taken).
  ret, out,
  \* Bookkeeping of the model: number of calls, SSRC of the first RTP buffer.
  ncalls, first_ssrc

syncVars == <<feeded_sorted, ssrc, pt, clock_rate,
              base_initiated, base_ntp_time, base_sync_time,
              base_interpolate_initiated, base_interpolate_ext_ts,
              base_interpolate_pts, rtp_ext_ts, last_rtcp_ext_ts,
              last_rtcp_ntp_time, fs_last_rtp_ext_ts, fs_last_pts>>
vars == <<syncVars, ret, out, ncalls, first_ssrc>>

Rets == {"ok", "invalid_data", "unexpected_error"}
Paths == {"none", "dup", "orig", "interp", "sync"}
NoSsrc == -1

TypeOK ==
  /\ feeded_sorted \in BOOLEAN
  /\ ssrc \in Ssrcs \cup {0}
  /\ pt \in PayloadTypes \cup {0}
  /\ clock_rate \in {cr \in ClockRates : cr > 0} \cup {0}
  /\ base_initiated \in BOOLEAN
  /\ base_interpolate_initiated \in BOOLEAN
  /\ {base_ntp_time, base_sync_time, base_interpolate_ext_ts,
      base_interpolate_pts, rtp_ext_ts, last_rtcp_ext_ts,
      last_rtcp_ntp_time, fs_last_rtp_ext_ts, fs_last_pts} \subseteq Word
  /\ ret \in Rets
  /\ out \in [seq : Nat, ext : Word, raw : Word, pts : Word, path : Paths]
  /\ ncalls \in Nat
  /\ first_ssrc \in Ssrcs \cup {NoSsrc}

-----------------------------------------------------------------------------
(* kms_rtp_synchronizer_new (feeded_sorted, stats_name) with               *)
(* kms_rtp_synchronizer_init: every timestamp NONE, every flag and id 0.   *)
Init ==
  /\ feeded_sorted \in BOOLEAN
  /\ ssrc = 0 /\ pt = 0 /\ clock_rate = 0
  /\ base_initiated = FALSE
  /\ base_ntp_time = NONE /\ base_sync_time = NONE
  /\ base_interpolate_initiated = FALSE
  /\ base_interpolate_ext_ts = NONE /\ base_interpolate_pts = NONE
  /\ rtp_ext_ts = NONE /\ last_rtcp_ext_ts = NONE /\ last_rtcp_ntp_time = NONE
  /\ fs_last_rtp_ext_ts = NONE /\ fs_last_pts = NONE
  /\ ret = "ok"
  /\ out = [seq |-> 0, ext |-> NONE, raw |-> NONE, pts |-> NONE, path |-> "none"]
  /\ ncalls = 0
  /\ first_ssrc = NoSsrc

Call == ncalls < MaxCalls /\ ncalls' = ncalls + 1

(* Mutant of SetPtClockRate: the clock_rate <= 0 check is missing.        *)
SetPtClockRateUnchecked(p, cr) ==
  /\ Call
  /\ IF clock_rate = 0
       THEN /\ pt' = p /\ clock_rate' = cr
            /\ ret' = "ok"
       ELSE /\ UNCHANGED <<pt, clock_rate>>
            /\ ret' = "invalid_data"
  /\ UNCHANGED <<feeded_sorted, ssrc, base_initiated, base_ntp_time,
                 base_sync_time, base_interpolate_initiated,
                 base_interpolate_ext_ts, base_interpolate_pts, rtp_ext_ts,
                 last_rtcp_ext_ts, last_rtcp_ntp_time, fs_last_rtp_ext_ts,
                 fs_last_pts, out, first_ssrc>>

(* kms_rtp_synchronizer_set_pt_clock_rate (pt, clock_rate): only the first *)
(* call with a positive clock rate succeeds.                               *)
SetPtClockRate(p, cr) ==
  /\ Call
  /\ IF cr > 0 /\ clock_rate = 0
       THEN /\ pt' = p /\ clock_rate' = cr
            /\ ret' = "ok"
       ELSE /\ UNCHANGED <<pt, clock_rate>>
            /\ ret' = "invalid_data"
  /\ UNCHANGED <<feeded_sorted, ssrc, base_initiated, base_ntp_time,
                 base_sync_time, base_interpolate_initiated,
                 base_interpolate_ext_ts, base_interpolate_pts, rtp_ext_ts,
                 last_rtcp_ext_ts, last_rtcp_ntp_time, fs_last_rtp_ext_ts,
                 fs_last_pts, out, first_ssrc>>

(* kms_rtp_synchronizer_process_rtcp_buffer on a buffer that cannot be    *)
(* mapped as RTCP (an error), that is empty, or whose first packet is not  *)
(* a Sender Report (kms_rtp_synchronizer_process_rtcp_packet returns at    *)
(* once): nothing changes.                                                 *)
RtcpIgnored(kind) ==
  /\ Call
  /\ ret' = IF kind = "unmappable" THEN "unexpected_error" ELSE "ok"
  /\ UNCHANGED <<syncVars, out, first_ssrc>>

(* kms_rtp_synchronizer_process_rtcp_buffer whose first packet is an SR:   *)
(* the first SR ever anchors base_ntp_time and base_sync_time (the DTS of  *)
(* the buffer); every SR feeds its RTP timestamp through the extended-     *)
(* timestamp tracker and records its NTP time.                             *)
RtcpSenderReport(ntp, rtcpTs, dts) ==
  LET ntpTime == NtpToTime(ntp) IN
  /\ Call
  /\ ret' = "ok"
  /\ IF ~base_initiated
       THEN /\ base_initiated' = TRUE
            /\ base_ntp_time' = ntpTime
            /\ base_sync_time' = dts
       ELSE UNCHANGED <<base_initiated, base_ntp_time, base_sync_time>>
  /\ rtp_ext_ts' = ExtTimestamp(rtp_ext_ts, rtcpTs)
  /\ last_rtcp_ext_ts' = rtp_ext_ts'
  /\ last_rtcp_ntp_time' = ntpTime
  /\ UNCHANGED <<feeded_sorted, ssrc, pt, clock_rate,
                 base_interpolate_initiated, base_interpolate_ext_ts,
                 base_interpolate_pts, fs_last_rtp_ext_ts, fs_last_pts,
                 out, first_ssrc>>

-----------------------------------------------------------------------------
(* Mutant of SyncPts: the NTP step flags a wrap when the sum reaches      *)
(* exactly G_MAXUINT64 (>= for >).                                         *)
SyncPtsOffByOne(ext) ==
  LET up   == last_rtcp_ntp_time > base_ntp_time
      down == last_rtcp_ntp_time < base_ntp_time
      diff == IF up THEN last_rtcp_ntp_time - base_ntp_time
                    ELSE base_ntp_time - last_rtcp_ntp_time
      p1   == IF up THEN (base_sync_time + diff) % MOD
              ELSE IF down THEN (base_sync_time - diff) % MOD
              ELSE base_sync_time
  IN  RtpDiffFull(p1, ext, last_rtcp_ext_ts, clock_rate,
                  down /\ base_sync_time < diff,
                  up /\ diff >= MAXU - base_sync_time)

(* The PTS of a packet with extended timestamp ext once an SR has been     *)
(* seen: base_sync_time moved by the NTP offset of an SR (NTP time srNtp,  *)
(* extended RTP timestamp srExt) from the first, with wrap flags, then by  *)
(* the RTP offset from that SR at clock rate rate.                         *)
SyncPtsFrom(ext, srNtp, srExt, rate) ==
  LET up   == srNtp > base_ntp_time
      down == srNtp < base_ntp_time
      diff == IF up THEN srNtp - base_ntp_time ELSE base_ntp_time - srNtp
      p1   == IF up THEN (base_sync_time + diff) % MOD
              ELSE IF down THEN (base_sync_time - diff) % MOD
              ELSE base_sync_time
  IN  RtpDiffFull(p1, ext, srExt, rate,
                  down /\ base_sync_time < diff,
                  up /\ diff > MAXU - base_sync_time)

(* The code computes it from the last SR and the configured clock rate.    *)
SyncPts(ext) == SyncPtsFrom(ext, last_rtcp_ntp_time, last_rtcp_ext_ts, clock_rate)

(* The RTP buffer is rejected: SSRC mismatch, or unknown PT / no clock     *)
(* rate.  The SSRC is learned first, so a rejected first packet still      *)
(* fixes it.  The buffer's PTS is left alone.                              *)
RtpRejected(s, p) ==
  /\ Call
  /\ first_ssrc' = IF first_ssrc = NoSsrc THEN s ELSE first_ssrc
  /\ \/ ssrc # 0 /\ s # ssrc
     \/ (ssrc = 0 \/ s = ssrc) /\ (p # pt \/ clock_rate <= 0)
  /\ ssrc' = IF ssrc = 0 THEN s ELSE ssrc
  /\ ret' = "invalid_data"
  /\ UNCHANGED <<feeded_sorted, pt, clock_rate, base_initiated, base_ntp_time,
                 base_sync_time, base_interpolate_initiated,
                 base_interpolate_ext_ts, base_interpolate_pts, rtp_ext_ts,
                 last_rtcp_ext_ts, last_rtcp_ntp_time, fs_last_rtp_ext_ts,
                 fs_last_pts, out>>

(* The PTS computed for an accepted buffer before the sorted-mode fix:    *)
(* synchronized regime, the first buffer before any SR (keeps its own PTS  *)
(* and becomes the interpolation anchor), or interpolation from it.        *)
ComputedPts(ext, ptsOrig) ==
  IF base_initiated THEN SyncPts(ext)
  ELSE IF ~base_interpolate_initiated THEN ptsOrig
  ELSE RtpDiffFull(base_interpolate_pts, ext, base_interpolate_ext_ts,
                   clock_rate, FALSE, FALSE)

(* Sorted-mode duplicate: a buffer with the last extended timestamp gets  *)
(* the last PTS, when there is a valid one; otherwise it keeps its own.    *)
DupPtsFromBuffer(ptsOrig) == ptsOrig   \* mutant: the last PTS is not copied
DupPts(ptsOrig) == IF IsValid(fs_last_pts) THEN fs_last_pts ELSE ptsOrig

(* Sorted-mode post-fix: a PTS below the valid last PTS is raised to it.   *)
SortedFixMissing(raw) == raw   \* mutant: the clamp is not applied
SortedFix(raw) ==
  IF IsValid(fs_last_pts) /\ raw < fs_last_pts THEN fs_last_pts ELSE raw

(* The RTP buffer is accepted (kms_rtp_synchronizer_process_rtp_buffer_    *)
(* mapped past its checks): extend its timestamp, apply the sorted-mode    *)
(* pre-check, compute the PTS in the interpolation or synchronized regime, *)
(* then clamp it to the last one in sorted mode.                           *)
RtpAccepted(s, p, ts, ptsOrig) ==
  LET ext     == ExtTimestamp(rtp_ext_ts, ts)
      regress == feeded_sorted /\ IsValid(fs_last_rtp_ext_ts)
                   /\ ext < fs_last_rtp_ext_ts
      dup     == feeded_sorted /\ ~regress /\ ext = fs_last_rtp_ext_ts
      sorted  == feeded_sorted /\ ~regress
      first   == ~base_initiated /\ ~base_interpolate_initiated
      raw     == ComputedPts(ext, ptsOrig)
      fixed   == IF sorted THEN SortedFix(raw) ELSE raw
  IN
  /\ Call
  /\ first_ssrc' = IF first_ssrc = NoSsrc THEN s ELSE first_ssrc
  /\ (ssrc = 0 \/ s = ssrc) /\ p = pt /\ clock_rate > 0
  /\ ssrc' = IF ssrc = 0 THEN s ELSE ssrc
  /\ rtp_ext_ts' = ext
  /\ feeded_sorted' = (feeded_sorted /\ ~regress)
  /\ ret' = IF regress THEN "invalid_data" ELSE "ok"
  /\ IF dup
       THEN /\ out' = [seq |-> ncalls', ext |-> ext, raw |-> ptsOrig,
                       pts |-> DupPts(ptsOrig),
                       path |-> "dup"]
            /\ UNCHANGED <<base_interpolate_initiated, base_interpolate_ext_ts,
                           base_interpolate_pts, fs_last_rtp_ext_ts,
                           fs_last_pts>>
       ELSE /\ out' = [seq |-> ncalls', ext |-> ext, raw |-> raw,
                       pts |-> fixed,
                       path |-> IF base_initiated THEN "sync"
                                ELSE IF first THEN "orig" ELSE "interp"]
            /\ IF first
                 THEN /\ base_interpolate_initiated' = TRUE
                      /\ base_interpolate_ext_ts' = ext
                      /\ base_interpolate_pts' = ptsOrig
                 ELSE UNCHANGED <<base_interpolate_initiated,
                                  base_interpolate_ext_ts, base_interpolate_pts>>
            /\ IF sorted
                 THEN fs_last_rtp_ext_ts' = ext /\ fs_last_pts' = fixed
                 ELSE UNCHANGED <<fs_last_rtp_ext_ts, fs_last_pts>>
  /\ UNCHANGED <<pt, clock_rate, base_initiated, base_ntp_time,
                 base_sync_time, last_rtcp_ext_ts, last_rtcp_ntp_time>>

(* kms_rtp_synchronizer_process_rtp_buffer_writable on a buffer that      *)
(* cannot be mapped as RTP: an error, nothing changes.                     *)
RtpUnmappable ==
  /\ Call
  /\ ret' = "unexpected_error"
  /\ UNCHANGED <<syncVars, out, first_ssrc>>

-----------------------------------------------------------------------------
Next ==
  \/ \E p \in PayloadTypes, cr \in ClockRates : SetPtClockRate(p, cr)
  \/ \E kind \in {"unmappable", "empty", "RR"} : RtcpIgnored(kind)
  \/ \E ntp \in NtpStamps, rtcpTs \in RtpTimestamps, dts \in SyncTimes :
       RtcpSenderReport(ntp, rtcpTs, dts)
  \/ RtpUnmappable
  \/ \E s \in Ssrcs, p \in PayloadTypes : RtpRejected(s, p)
  \/ \E s \in Ssrcs, p \in PayloadTypes, ts \in RtpTimestamps,
        ptsOrig \in ArrivalPts :
       RtpAccepted(s, p, ts, ptsOrig)

Spec == Init /\ [][Next]_vars

-----------------------------------------------------------------------------
(* Reference arithmetic: what the PTS would be in unbounded integers.      *)

RtpOffset(ext, base, rate) ==
  IF ext >= base THEN Scale(ext - base, SECOND, rate)
                 ELSE -Scale(base - ext, SECOND, rate)
SyncExact(ext) ==
  base_sync_time + (last_rtcp_ntp_time - base_ntp_time)
    + RtpOffset(ext, last_rtcp_ext_ts, clock_rate)
InterpExact(ext) ==
  base_interpolate_pts + RtpOffset(ext, base_interpolate_ext_ts, clock_rate)
Clamp(x) == IF x < 0 THEN 0 ELSE IF x > MAXU THEN MAXU ELSE x

(* Sorted mode: the last PTS and extended timestamp the instance holds,   *)
(* when valid, are those of the last buffer that got a PTS.  This is the   *)
(* strengthening that makes SortedOrder provable.                          *)
SortedInv ==
  feeded_sorted /\ IsValid(fs_last_pts)
    => out.pts = fs_last_pts /\ out.ext = fs_last_rtp_ext_ts

(* A step in which an RTP buffer got a PTS written.                        *)
NewOutput == out'.seq # out.seq

(* process_rtp_buffer, PTS arithmetic (rtp_diff_full and the NTP step): in *)
(* the interpolation regime the PTS is the exact offset from the           *)
(* interpolation anchor, saturated to [0, G_MAXUINT64]; in the             *)
(* synchronized regime, whenever base_sync_time + NTP offset + RTP offset  *)
(* fits in a word, the PTS is exactly that value: the wrap flags carried   *)
(* from the NTP step to the RTP step never corrupt an in-range result.     *)
PtsArithmetic ==
  [][NewOutput =>
       /\ out'.path = "interp" => out'.raw = Clamp(InterpExact(out'.ext))
       /\ (out'.path = "sync" /\ SyncExact(out'.ext) \in Word)
            => out'.raw = SyncExact(out'.ext)]_vars

(* Spec 3 and 4.3: PTS arithmetic saturates and never silently wraps: in   *)
(* the synchronized regime the PTS is the exact value clamped to           *)
(* [0, G_MAXUINT64].                                                       *)
SyncPtsSaturates ==
  [][NewOutput /\ out'.path = "sync"
       => out'.raw = Clamp(SyncExact(out'.ext))]_vars

(* Sorted mode (process_rtp_buffer, pre-check and post-fix): while the    *)
(* instance stays sorted and holds a valid last extended timestamp and     *)
(* last PTS, a buffer never gets a smaller PTS than the previous buffer,   *)
(* and a buffer with the previous buffer's extended timestamp gets exactly *)
(* its PTS.                                                                *)
SortedOrder ==
  [][NewOutput /\ feeded_sorted'
       /\ IsValid(fs_last_rtp_ext_ts) /\ IsValid(fs_last_pts) =>
       /\ out'.pts >= out.pts
       /\ out'.ext = out.ext => out'.pts = out.pts]_vars

(* Spec 3 and 8.2: before any demotion, the PTS written in sorted mode     *)
(* form a non-decreasing sequence: after a buffer whose extended          *)
(* timestamp and PTS are valid clock times, the next PTS is not smaller.   *)
SortedMonotonic ==
  [][NewOutput /\ feeded_sorted' /\ out.seq > 0
       /\ IsValid(out.ext) /\ IsValid(out.pts)
       => out'.pts >= out.pts]_vars

(* Spec 3 and 8.5: the SSRC is learned from the first RTP packet and every *)
(* buffer accepted later carries that SSRC.                                *)
SsrcLocked ==
  [][NewOutput => ssrc' = first_ssrc]_vars

=============================================================================
