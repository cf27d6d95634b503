--------------------- MODULE KmsRtpSynchronizerProofs ----------------------
(***************************************************************************)
(* Proofs about the synchronizer model, for every width W > R >= 1, every  *)
(* scale constant and every set of inputs allowed by the assumptions.     *)
(***************************************************************************)
EXTENDS KmsRtpSynchronizer, TLAPS

-----------------------------------------------------------------------------
(* Facts about words.                                                      *)

LEMMA WordFacts ==
  /\ MOD \in Nat /\ RMOD \in Nat \ {0, 1} /\ MOD > RMOD
  /\ MAXU \in Nat /\ NONE \in Word
  /\ RtpTimestamps \subseteq Word
  BY WidthAssumption DEF MOD, MAXU, NONE, Word, RMOD, RtpTimestamps

LEMMA ModWord ==
  ASSUME NEW x \in Int
  PROVE  x % MOD \in Word
  BY WordFacts DEF Word, MAXU

(* gst_util_uint64_scale never leaves the word.                            *)
LEMMA ScaleWord ==
  ASSUME NEW v \in Nat, NEW n \in Nat, NEW d \in Nat \ {0}
  PROVE  Scale(v, n, d) \in Word
  <1>1. (v * n) \div d \in Nat
    OBVIOUS
  <1>2. QED
    BY <1>1, WordFacts DEF Scale, Word

(* The extended-timestamp tracker never leaves the word.                   *)
LEMMA ExtTimestampWord ==
  ASSUME NEW e \in Word, NEW t \in RtpTimestamps
  PROVE  ExtTimestamp(e, t) \in Word
  <1>1. SignedDiff(t, e) \in Int
    BY WordFacts DEF SignedDiff, Word, RtpTimestamps
  <1>2. QED
    BY <1>1, ModWord, WordFacts DEF ExtTimestamp, Word, RtpTimestamps

(* rtp_diff_full never leaves the word, whatever the wrap flags.           *)
LEMMA RtpDiffFullWord ==
  ASSUME NEW p \in Word, NEW e \in Word, NEW b \in Word,
         NEW r \in Nat \ {0}, NEW wd \in BOOLEAN, NEW wu \in BOOLEAN
  PROVE  RtpDiffFull(p, e, b, r, wd, wu) \in Word
  <1> DEFINE d == Scale(IF e > b THEN e - b ELSE b - e, SECOND, r)
  <1>1. d \in Word
    <2>1. (IF e > b THEN e - b ELSE b - e) \in Nat
      BY DEF Word
    <2>2. QED
      BY <2>1, ScaleWord, InputAssumption
  <1>2. (p + d) % MOD \in Word /\ (p - d) % MOD \in Word
    BY <1>1, ModWord DEF Word
  <1>3. 0 \in Word /\ MAXU \in Word
    BY WordFacts DEF Word
  <1>4. QED
    BY <1>1, <1>2, <1>3 DEF RtpDiffFull

-----------------------------------------------------------------------------
(* Type correctness.                                                       *)

LEMMA SyncPtsFromWord ==
  ASSUME TypeOK, NEW e \in Word, NEW n \in Word, NEW x \in Word,
         NEW rate \in Nat \ {0}
  PROVE  SyncPtsFrom(e, n, x, rate) \in Word
  <1> DEFINE up   == n > base_ntp_time
             down == n < base_ntp_time
             diff == IF up THEN n - base_ntp_time ELSE base_ntp_time - n
             p1   == IF up THEN (base_sync_time + diff) % MOD
                     ELSE IF down THEN (base_sync_time - diff) % MOD
                     ELSE base_sync_time
  <1>1. p1 \in Word
    BY ModWord DEF TypeOK, Word
  <1>2. QED
    BY <1>1, RtpDiffFullWord DEF SyncPtsFrom

LEMMA SyncPtsWord ==
  ASSUME TypeOK, clock_rate > 0, NEW e \in Word
  PROVE  SyncPts(e) \in Word
  <1>1. clock_rate \in Nat \ {0}
    BY InputAssumption DEF TypeOK
  <1>2. QED
    BY <1>1, SyncPtsFromWord DEF SyncPts, TypeOK

LEMMA ComputedPtsWord ==
  ASSUME TypeOK, clock_rate \in Nat \ {0}, NEW e \in Word, NEW q \in Word
  PROVE  ComputedPts(e, q) \in Word
  BY SyncPtsWord, RtpDiffFullWord DEF ComputedPts, TypeOK

LEMMA TypeInit == Init => TypeOK
  <1> SUFFICES ASSUME Init PROVE TypeOK
    OBVIOUS
  <1>1. NONE \in Word /\ 0 \in Nat
    BY WordFacts
  <1>2. {base_ntp_time, base_sync_time, base_interpolate_ext_ts,
         base_interpolate_pts, rtp_ext_ts, last_rtcp_ext_ts,
         last_rtcp_ntp_time, fs_last_rtp_ext_ts, fs_last_pts} \subseteq Word
    BY <1>1 DEF Init
  <1>3. out \in [seq : Nat, ext : Word, raw : Word, pts : Word, path : Paths]
    BY <1>1 DEF Init, Paths
  <1>4. QED
    BY <1>2, <1>3 DEF Init, TypeOK, Rets, NoSsrc

LEMMA TypeStep == TypeOK /\ [Next]_vars => TypeOK'
  <1> SUFFICES ASSUME TypeOK, [Next]_vars PROVE TypeOK'
    OBVIOUS
  <1>1. ASSUME NEW p \in PayloadTypes, NEW cr \in ClockRates,
               SetPtClockRate(p, cr)
        PROVE  TypeOK'
    BY <1>1 DEF SetPtClockRate, Call, TypeOK, Rets
  <1>2. ASSUME NEW kind \in {"unmappable", "empty", "RR"}, RtcpIgnored(kind)
        PROVE  TypeOK'
    BY <1>2 DEF RtcpIgnored, Call, TypeOK, Rets, syncVars
  <1>3. ASSUME NEW ntp \in NtpStamps, NEW rtcpTs \in RtpTimestamps,
               NEW dts \in SyncTimes, RtcpSenderReport(ntp, rtcpTs, dts)
        PROVE  TypeOK'
    <2>1. NtpToTime(ntp) \in Word
      BY ScaleWord, InputAssumption DEF NtpToTime
    <2>2. ExtTimestamp(rtp_ext_ts, rtcpTs) \in Word
      BY ExtTimestampWord DEF TypeOK
    <2>3. dts \in Word
      BY InputAssumption DEF Word, MAXU, MOD
    <2>4. /\ base_initiated' \in BOOLEAN
          /\ base_ntp_time' \in Word /\ base_sync_time' \in Word
      BY <1>3, <2>1, <2>3 DEF RtcpSenderReport, TypeOK
    <2>5. /\ rtp_ext_ts' \in Word /\ last_rtcp_ext_ts' \in Word
          /\ last_rtcp_ntp_time' \in Word
      BY <1>3, <2>1, <2>2 DEF RtcpSenderReport
    <2>6. /\ UNCHANGED <<feeded_sorted, ssrc, pt, clock_rate,
                        base_interpolate_initiated, base_interpolate_ext_ts,
                        base_interpolate_pts, fs_last_rtp_ext_ts,
                        fs_last_pts, out, first_ssrc>>
          /\ ret' \in Rets /\ ncalls' \in Nat
      BY <1>3 DEF RtcpSenderReport, Call, TypeOK, Rets
    <2>7. QED
      BY <2>4, <2>5, <2>6 DEF TypeOK
  <1>4. CASE RtpUnmappable
    BY <1>4 DEF RtpUnmappable, Call, TypeOK, Rets, syncVars
  <1>5. ASSUME NEW s \in Ssrcs, NEW p \in PayloadTypes, RtpRejected(s, p)
        PROVE  TypeOK'
    BY <1>5 DEF RtpRejected, Call, TypeOK, Rets, NoSsrc
  <1>6. ASSUME NEW s \in Ssrcs, NEW p \in PayloadTypes,
               NEW ts \in RtpTimestamps, NEW ptsOrig \in ArrivalPts,
               RtpAccepted(s, p, ts, ptsOrig)
        PROVE  TypeOK'
    <2> DEFINE ext == ExtTimestamp(rtp_ext_ts, ts)
               regress == feeded_sorted /\ IsValid(fs_last_rtp_ext_ts)
                            /\ ext < fs_last_rtp_ext_ts
               sorted  == feeded_sorted /\ ~regress
               first   == ~base_initiated /\ ~base_interpolate_initiated
               raw     == ComputedPts(ext, ptsOrig)
               fixed   == IF sorted THEN SortedFix(raw) ELSE raw
    <2>1. clock_rate > 0 /\ clock_rate \in Nat \ {0}
      <3>1. clock_rate > 0
        BY <1>6 DEF RtpAccepted
      <3>2. QED
        BY <3>1, InputAssumption DEF TypeOK
    <2>2. ext \in Word
      BY ExtTimestampWord DEF TypeOK
    <2>3. ptsOrig \in Word
      BY InputAssumption DEF Word, MAXU, MOD
    <2>4. raw \in Word
      BY <2>1, <2>2, <2>3, ComputedPtsWord
    <2>5. fixed \in Word /\ DupPts(ptsOrig) \in Word
      BY <2>3, <2>4 DEF SortedFix, DupPts, TypeOK
    <2>6. ncalls' \in Nat
      BY <1>6 DEF RtpAccepted, Call, TypeOK
    <2>7. /\ feeded_sorted' \in BOOLEAN /\ ssrc' \in Ssrcs \cup {0}
          /\ ret' \in Rets /\ first_ssrc' \in Ssrcs \cup {NoSsrc}
          /\ rtp_ext_ts' \in Word
      BY <1>6, <2>2 DEF RtpAccepted, TypeOK, Rets
    <2>8. UNCHANGED <<pt, clock_rate, base_initiated, base_ntp_time,
                     base_sync_time, last_rtcp_ext_ts, last_rtcp_ntp_time>>
      BY <1>6 DEF RtpAccepted
    <2>9. /\ base_interpolate_initiated' \in BOOLEAN
          /\ base_interpolate_ext_ts' \in Word
          /\ base_interpolate_pts' \in Word
          /\ fs_last_rtp_ext_ts' \in Word /\ fs_last_pts' \in Word
      BY <1>6, <2>2, <2>3, <2>5 DEF RtpAccepted, TypeOK
    <2>10. out' \in [seq : Nat, ext : Word, raw : Word, pts : Word,
                     path : Paths]
      <3> DEFINE dup == feeded_sorted /\ ~regress /\ ext = fs_last_rtp_ext_ts
      <3>1. CASE dup
        <4>1. out' = [seq |-> ncalls', ext |-> ext, raw |-> ptsOrig,
                      pts |-> DupPts(ptsOrig), path |-> "dup"]
          BY <1>6, <3>1 DEF RtpAccepted
        <4>2. QED
          BY <4>1, <2>2, <2>3, <2>5, <2>6 DEF Paths
      <3>2. CASE ~dup
        <4>1. out' = [seq |-> ncalls', ext |-> ext, raw |-> raw,
                      pts |-> fixed,
                      path |-> IF base_initiated THEN "sync"
                               ELSE IF first THEN "orig" ELSE "interp"]
          BY <1>6, <3>2 DEF RtpAccepted
        <4>2. QED
          BY <4>1, <2>2, <2>4, <2>5, <2>6 DEF Paths
      <3>3. QED
        BY <3>1, <3>2
    <2>11. QED
      BY <2>6, <2>7, <2>8, <2>9, <2>10 DEF TypeOK
  <1>7. CASE UNCHANGED vars
    BY <1>7 DEF vars, syncVars, TypeOK
  <1>8. QED
    BY <1>1, <1>2, <1>3, <1>4, <1>5, <1>6, <1>7 DEF Next

(* Every reachable state of the synchronizer is well typed: timestamps    *)
(* stay W-bit words through the saturating arithmetic (TypeOK).           *)
THEOREM TypeCorrect == Spec => []TypeOK
  BY TypeInit, TypeStep, PTL DEF Spec

-----------------------------------------------------------------------------
(* Sorted mode.  SortedInv ties the sorted-mode memory to the last buffer  *)
(* that got a PTS; it is inductive together with TypeOK.                   *)

(* The steps other than an accepted RTP buffer leave the sorted-mode       *)
(* state and the last output alone.                                        *)
LEMMA OtherStepsKeepSorted ==
  ASSUME [Next]_vars,
         ~\E s \in Ssrcs, p \in PayloadTypes, ts \in RtpTimestamps,
             q \in ArrivalPts : RtpAccepted(s, p, ts, q)
  PROVE  UNCHANGED <<feeded_sorted, fs_last_rtp_ext_ts, fs_last_pts, out>>
  <1>1. CASE \E p \in PayloadTypes, cr \in ClockRates : SetPtClockRate(p, cr)
    BY <1>1 DEF SetPtClockRate
  <1>2. CASE \E kind \in {"unmappable", "empty", "RR"} : RtcpIgnored(kind)
    BY <1>2 DEF RtcpIgnored, syncVars
  <1>3. CASE \E ntp \in NtpStamps, rtcpTs \in RtpTimestamps, dts \in SyncTimes :
               RtcpSenderReport(ntp, rtcpTs, dts)
    BY <1>3 DEF RtcpSenderReport
  <1>4. CASE RtpUnmappable
    BY <1>4 DEF RtpUnmappable, syncVars
  <1>5. CASE \E s \in Ssrcs, p \in PayloadTypes : RtpRejected(s, p)
    BY <1>5 DEF RtpRejected
  <1>6. CASE UNCHANGED vars
    BY <1>6 DEF vars, syncVars
  <1>7. QED
    BY <1>1, <1>2, <1>3, <1>4, <1>5, <1>6 DEF Next

(* The sorted-mode pieces of an accepted buffer, named once.               *)
LEMMA AcceptedSorted ==
  ASSUME TypeOK, NEW s \in Ssrcs, NEW p \in PayloadTypes,
         NEW ts \in RtpTimestamps, NEW q \in ArrivalPts,
         RtpAccepted(s, p, ts, q)
  PROVE  LET ext     == ExtTimestamp(rtp_ext_ts, ts)
             regress == feeded_sorted /\ IsValid(fs_last_rtp_ext_ts)
                          /\ ext < fs_last_rtp_ext_ts
             dup     == feeded_sorted /\ ~regress /\ ext = fs_last_rtp_ext_ts
             sorted  == feeded_sorted /\ ~regress
             raw     == ComputedPts(ext, q)
         IN  /\ feeded_sorted' = sorted
             /\ dup => /\ out'.pts = DupPts(q) /\ out'.ext = ext
                       /\ UNCHANGED <<fs_last_rtp_ext_ts, fs_last_pts>>
             /\ ~dup /\ sorted =>
                  /\ out'.pts = SortedFix(raw) /\ out'.ext = ext
                  /\ fs_last_pts' = SortedFix(raw)
                  /\ fs_last_rtp_ext_ts' = ext
             /\ raw \in Word /\ ext \in Word
  <1>1. clock_rate \in Nat \ {0}
    <2>1. clock_rate > 0
      BY DEF RtpAccepted
    <2>2. QED
      BY <2>1, InputAssumption DEF TypeOK
  <1>2. ExtTimestamp(rtp_ext_ts, ts) \in Word
    BY ExtTimestampWord DEF TypeOK
  <1>3. q \in Word
    BY InputAssumption DEF Word, MAXU, MOD
  <1>4. ComputedPts(ExtTimestamp(rtp_ext_ts, ts), q) \in Word
    BY <1>1, <1>2, <1>3, ComputedPtsWord
  <1>5. QED
    BY <1>2, <1>4 DEF RtpAccepted

LEMMA SortedInvariant == Spec => [](TypeOK /\ SortedInv)
  <1>1. Init => SortedInv
    BY DEF Init, SortedInv, IsValid
  <1>2. TypeOK /\ SortedInv /\ [Next]_vars => SortedInv'
    <2> SUFFICES ASSUME TypeOK, SortedInv, [Next]_vars PROVE SortedInv'
      OBVIOUS
    <2>1. ASSUME NEW s \in Ssrcs, NEW p \in PayloadTypes,
                 NEW ts \in RtpTimestamps, NEW q \in ArrivalPts,
                 RtpAccepted(s, p, ts, q)
          PROVE  SortedInv'
      <3> DEFINE ext     == ExtTimestamp(rtp_ext_ts, ts)
                 regress == feeded_sorted /\ IsValid(fs_last_rtp_ext_ts)
                              /\ ext < fs_last_rtp_ext_ts
                 dup     == feeded_sorted /\ ~regress /\ ext = fs_last_rtp_ext_ts
                 sorted  == feeded_sorted /\ ~regress
      <3>1. CASE ~sorted
        BY <2>1, <3>1, AcceptedSorted DEF SortedInv
      <3>2. CASE sorted /\ dup
        <4>1. feeded_sorted /\ IsValid(fs_last_pts) => out'.pts = fs_last_pts
          BY <2>1, <3>2, AcceptedSorted DEF DupPts
        <4>2. out'.ext = fs_last_rtp_ext_ts
          BY <2>1, <3>2, AcceptedSorted
        <4>3. QED
          BY <2>1, <3>2, <4>1, <4>2, AcceptedSorted DEF SortedInv
      <3>3. CASE sorted /\ ~dup
        <4> DEFINE raw == ComputedPts(ext, q)
        <4>1. out'.pts = SortedFix(raw) /\ fs_last_pts' = SortedFix(raw)
          BY <2>1, <3>3, AcceptedSorted
        <4>2. out'.ext = ext /\ fs_last_rtp_ext_ts' = ext
          BY <2>1, <3>3, AcceptedSorted
        <4>3. QED
          BY <4>1, <4>2 DEF SortedInv
      <3>4. QED
        BY <3>1, <3>2, <3>3
    <2>2. CASE ~\E s \in Ssrcs, p \in PayloadTypes, ts \in RtpTimestamps,
                  q \in ArrivalPts : RtpAccepted(s, p, ts, q)
      BY <2>2, OtherStepsKeepSorted DEF SortedInv
    <2>3. QED
      BY <2>1, <2>2
  <1>3. QED
    BY <1>1, <1>2, TypeCorrect, PTL DEF Spec

(* The PTS written in sorted mode never go down and repeat for a repeated  *)
(* extended timestamp, while the last PTS held is valid (SortedOrder).     *)
THEOREM SortedOrderHolds == Spec => SortedOrder
  <1> DEFINE P == NewOutput /\ feeded_sorted'
                    /\ IsValid(fs_last_rtp_ext_ts) /\ IsValid(fs_last_pts) =>
                    /\ out'.pts >= out.pts
                    /\ out'.ext = out.ext => out'.pts = out.pts
  <1>1. TypeOK /\ SortedInv /\ [Next]_vars => [P]_vars
    <2> SUFFICES ASSUME TypeOK, SortedInv, [Next]_vars PROVE [P]_vars
      OBVIOUS
    <2>1. ASSUME NEW s \in Ssrcs, NEW p \in PayloadTypes,
                 NEW ts \in RtpTimestamps, NEW q \in ArrivalPts,
                 RtpAccepted(s, p, ts, q)
          PROVE  P
      <3> SUFFICES ASSUME feeded_sorted', IsValid(fs_last_rtp_ext_ts),
                          IsValid(fs_last_pts)
                   PROVE  /\ out'.pts >= out.pts
                          /\ out'.ext = out.ext => out'.pts = out.pts
        OBVIOUS
      <3> DEFINE ext     == ExtTimestamp(rtp_ext_ts, ts)
                 regress == feeded_sorted /\ IsValid(fs_last_rtp_ext_ts)
                              /\ ext < fs_last_rtp_ext_ts
                 dup     == feeded_sorted /\ ~regress /\ ext = fs_last_rtp_ext_ts
                 sorted  == feeded_sorted /\ ~regress
                 raw     == ComputedPts(ext, q)
      <3>1. sorted /\ feeded_sorted
        BY <2>1, AcceptedSorted
      <3>2. out.pts = fs_last_pts /\ out.ext = fs_last_rtp_ext_ts
        BY <3>1 DEF SortedInv
      <3>3. raw \in Word /\ ext \in Word /\ fs_last_pts \in Word
            /\ fs_last_rtp_ext_ts \in Word
        BY <2>1, AcceptedSorted DEF TypeOK
      <3>4. CASE dup
        <4>1. out'.pts = fs_last_pts /\ out'.ext = fs_last_rtp_ext_ts
          BY <2>1, <3>4, AcceptedSorted DEF DupPts
        <4>2. QED
          BY <4>1, <3>2, <3>3 DEF Word
      <3>5. CASE ~dup
        <4>1. out'.pts = SortedFix(raw) /\ out'.ext = ext
          BY <2>1, <3>1, <3>5, AcceptedSorted
        <4>2. ext # fs_last_rtp_ext_ts
          BY <3>1, <3>5
        <4>3. SortedFix(raw) >= fs_last_pts
          BY <3>3 DEF SortedFix, Word
        <4>4. QED
          BY <4>1, <4>2, <4>3, <3>2
      <3>6. QED
        BY <3>4, <3>5
    <2>2. CASE ~\E s \in Ssrcs, p \in PayloadTypes, ts \in RtpTimestamps,
                  q \in ArrivalPts : RtpAccepted(s, p, ts, q)
      BY <2>2, OtherStepsKeepSorted DEF NewOutput
    <2>3. QED
      BY <2>1, <2>2
  <1>2. QED
    BY <1>1, SortedInvariant, PTL DEF SortedOrder, Spec


(* In sorted mode the last PTS and extended timestamp the instance keeps,  *)
(* when the PTS is valid, are those of the last buffer written (SortedInv):*)
(* the memory the duplicate rule and the clamp read is never stale.        *)
THEOREM SortedInvHolds == Spec => []SortedInv
  BY SortedInvariant, PTL

=============================================================================
