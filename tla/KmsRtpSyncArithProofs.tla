----------------------- MODULE KmsRtpSyncArithProofs ------------------------
(***************************************************************************)
(* The PTS arithmetic of process_rtp_buffer, for every word width: the     *)
(* saturating rtp_diff_full and the NTP step with its wrap flags compute   *)
(* the exact PTS whenever it fits in a word, and clamp it otherwise.       *)
(***************************************************************************)
EXTENDS KmsRtpSynchronizerProofs

-----------------------------------------------------------------------------
(* Reduction modulo 2^W of values at most one word away from a word.       *)

LEMMA ModFacts ==
  ASSUME NEW x \in Int
  PROVE  /\ x \in Word => x % MOD = x
         /\ x \in MOD..(MOD + MAXU) => x % MOD = x - MOD
         /\ x \in (-MOD)..(-1) => x % MOD = x + MOD
  <1>1. MOD \in Nat \ {0} /\ MAXU = MOD - 1
    BY WidthAssumption DEF MOD, MAXU
  <1>2. QED
    BY <1>1 DEF Word

(* gst_util_uint64_scale of a difference of words is a word, and of 0 is 0. *)
LEMMA ScaleDiff ==
  ASSUME NEW e \in Word, NEW b \in Word, NEW r \in Nat \ {0}
  PROVE  /\ Scale(IF e > b THEN e - b ELSE b - e, SECOND, r) \in Word
         /\ Scale(0, SECOND, r) = 0
  <1>1. (IF e > b THEN e - b ELSE b - e) \in Nat
    BY DEF Word
  <1>2. Scale(0, SECOND, r) = 0
    BY InputAssumption, WordFacts DEF Scale
  <1>3. QED
    BY <1>1, <1>2, ScaleWord, InputAssumption

(* Without wrap flags, rtp_diff_full moves pts by the exact RTP offset and *)
(* saturates at 0 and G_MAXUINT64.                                         *)
LEMMA RtpDiffExact ==
  ASSUME NEW p0 \in Word, NEW e0 \in Word, NEW b0 \in Word,
         NEW r0 \in Nat \ {0}
  PROVE  RtpDiffFull(p0, e0, b0, r0, FALSE, FALSE) = Clamp(p0 + RtpOffset(e0, b0, r0))
  <1> DEFINE dd == Scale(IF e0 > b0 THEN e0 - b0 ELSE b0 - e0, SECOND, r0)
  <1>1. dd \in Word /\ Scale(0, SECOND, r0) = 0
    BY ScaleDiff
  <1>2. CASE e0 > b0
    <2>1. RtpOffset(e0, b0, r0) = dd
      BY <1>2, WordFacts DEF RtpOffset, Word, dd
    <2>2. p0 + dd \in Word => (p0 + dd) % MOD = p0 + dd
      BY <1>1, ModFacts DEF Word
    <2>3. QED
      BY <1>1, <1>2, <2>1, <2>2, WordFacts DEF RtpDiffFull, Clamp, Word
  <1>3. CASE e0 < b0
    <2>1. RtpOffset(e0, b0, r0) = -dd
      BY <1>3, WordFacts DEF RtpOffset, Word, dd
    <2>2. p0 - dd \in Word => (p0 - dd) % MOD = p0 - dd
      BY <1>1, ModFacts DEF Word
    <2>3. QED
      BY <1>1, <1>3, <2>1, <2>2, WordFacts DEF RtpDiffFull, Clamp, Word
  <1>4. CASE e0 = b0
    <2>1. RtpOffset(e0, b0, r0) = 0
      BY <1>1, <1>4 DEF RtpOffset, Word
    <2>2. QED
      BY <1>4, <2>1, WordFacts DEF RtpDiffFull, Clamp, Word
  <1>5. e0 > b0 \/ e0 < b0 \/ e0 = b0
    BY WordFacts DEF Word
  <1>6. QED
    BY <1>2, <1>3, <1>4, <1>5

(* The NTP step of process_rtp_buffer (base_sync_time moved by the NTP     *)
(* offset of the last sender report, its wrap recorded in two flags) then  *)
(* rtp_diff_full give the exact synchronised PTS whenever that fits in a   *)
(* word: a wrap of the first step is undone by the second.                 *)
LEMMA SyncPtsExact ==
  ASSUME TypeOK, NEW e \in Word, NEW n \in Word, NEW x \in Word,
         NEW rate \in Nat \ {0},
         base_sync_time + (n - base_ntp_time) + RtpOffset(e, x, rate) \in Word
  PROVE  SyncPtsFrom(e, n, x, rate)
           = base_sync_time + (n - base_ntp_time) + RtpOffset(e, x, rate)
  <1> DEFINE bst  == base_sync_time
             bnt  == base_ntp_time
             up   == n > bnt
             down == n < bnt
             diff == IF up THEN n - bnt ELSE bnt - n
             p1   == IF up THEN (bst + diff) % MOD
                     ELSE IF down THEN (bst - diff) % MOD
                     ELSE bst
             wd   == down /\ bst < diff
             wu   == up /\ diff > MAXU - bst
             D    == Scale(IF e > x THEN e - x ELSE x - e, SECOND, rate)
             off  == RtpOffset(e, x, rate)
             exact == bst + (n - bnt) + off
  <1> USE DEF bst, bnt, up, down, diff, p1, wd, wu, D, off, exact
  <1>1. bst \in Word /\ bnt \in Word
    BY DEF TypeOK
  <1>2. D \in Word /\ Scale(0, SECOND, rate) = 0
    BY ScaleDiff
  <1>3. off = IF e > x THEN D ELSE IF e < x THEN -D ELSE 0
    BY <1>2, WordFacts DEF RtpOffset, Word
  <1>4. off \in Int
    BY <1>2, <1>3 DEF Word
  <1>5. MOD \in Nat \ {0} /\ MAXU = MOD - 1
    BY WidthAssumption DEF MOD, MAXU
  <1>6. SyncPtsFrom(e, n, x, rate) = RtpDiffFull(p1, e, x, rate, wd, wu)
    BY DEF SyncPtsFrom
  <1>7. wd \in BOOLEAN /\ wu \in BOOLEAN
    OBVIOUS
  <1>8. CASE ~wd /\ ~wu
    <2>1. p1 = bst + (n - bnt) /\ p1 \in Word
      BY <1>1, <1>5, <1>8, ModFacts DEF Word
    <2>2. \A q \in Word : RtpDiffFull(q, e, x, rate, FALSE, FALSE)
                          = Clamp(q + RtpOffset(e, x, rate))
      <3>1. TAKE q \in Word
      <3>2. QED
        BY RtpDiffExact
    <2> HIDE DEF p1, wd, wu
    <2>3. RtpDiffFull(p1, e, x, rate, FALSE, FALSE) = Clamp(p1 + off)
      BY <2>1, <2>2
    <2>4. RtpDiffFull(p1, e, x, rate, wd, wu)
            = RtpDiffFull(p1, e, x, rate, FALSE, FALSE)
      BY <1>7, <1>8
    <2>5. Clamp(p1 + off) = exact
      BY <1>4, <2>1, WordFacts DEF Clamp, Word
    <2>6. QED
      BY <1>6, <2>3, <2>4, <2>5
  <1>9. CASE wu
    <2>1. up /\ ~wd /\ p1 = bst + diff - MOD /\ p1 \in Word
      BY <1>1, <1>5, <1>9, ModFacts DEF Word
    <2> HIDE DEF p1
    <2>2. e < x /\ off = -D /\ D >= p1
      BY <1>1, <1>2, <1>3, <1>5, <1>9, <2>1, WordFacts DEF Word
    <2>3. (p1 - D) % MOD = exact
      BY <1>1, <1>2, <1>5, <2>1, <2>2, ModFacts DEF Word
    <2> HIDE DEF wd, wu
    <2>4. RtpDiffFull(p1, e, x, rate, wd, wu)
            = RtpDiffFull(p1, e, x, rate, FALSE, TRUE)
      BY <1>7, <1>9, <2>1
    <2>5. RtpDiffFull(p1, e, x, rate, FALSE, TRUE) = (p1 - D) % MOD
      BY <1>2, <2>1, <2>2, WordFacts DEF RtpDiffFull, Word
    <2>6. QED
      BY <1>6, <2>3, <2>4, <2>5
  <1>10. CASE wd
    <2>1. down /\ ~wu /\ p1 = bst - diff + MOD /\ p1 \in Word
      BY <1>1, <1>5, <1>10, ModFacts DEF Word
    <2> HIDE DEF p1
    <2>2. e > x /\ off = D /\ D >= MAXU - p1
      BY <1>1, <1>2, <1>3, <1>5, <1>10, <2>1, WordFacts DEF Word
    <2>3. (p1 + D) % MOD = exact
      BY <1>1, <1>2, <1>5, <2>1, <2>2, ModFacts DEF Word
    <2> HIDE DEF wd, wu
    <2>4. RtpDiffFull(p1, e, x, rate, wd, wu)
            = RtpDiffFull(p1, e, x, rate, TRUE, FALSE)
      BY <1>7, <1>10, <2>1
    <2>5. RtpDiffFull(p1, e, x, rate, TRUE, FALSE) = (p1 + D) % MOD
      BY <1>2, <2>1, <2>2, WordFacts DEF RtpDiffFull, Word
    <2>6. QED
      BY <1>6, <2>3, <2>4, <2>5
  <1>11. QED
    BY <1>8, <1>9, <1>10

-----------------------------------------------------------------------------
(* The PTS an accepted buffer leaves in out, by regime.                    *)

LEMMA AcceptedPts ==
  ASSUME TypeOK, NEW s \in Ssrcs, NEW p \in PayloadTypes,
         NEW ts \in RtpTimestamps, NEW q \in ArrivalPts,
         RtpAccepted(s, p, ts, q)
  PROVE  /\ out'.path = "interp" => out'.raw = Clamp(InterpExact(out'.ext))
         /\ (out'.path = "sync" /\ SyncExact(out'.ext) \in Word)
              => out'.raw = SyncExact(out'.ext)
  <1> DEFINE ext     == ExtTimestamp(rtp_ext_ts, ts)
             regress == feeded_sorted /\ IsValid(fs_last_rtp_ext_ts)
                          /\ ext < fs_last_rtp_ext_ts
             dup     == feeded_sorted /\ ~regress /\ ext = fs_last_rtp_ext_ts
             first   == ~base_initiated /\ ~base_interpolate_initiated
  <1>0. /\ dup => out'.path = "dup"
        /\ ~dup => /\ out'.raw = ComputedPts(ext, q)
                   /\ out'.path = IF base_initiated THEN "sync"
                                  ELSE IF first THEN "orig" ELSE "interp"
    BY DEF RtpAccepted
  <1>1. ext \in Word
    BY ExtTimestampWord DEF TypeOK
  <1>2. clock_rate \in Nat \ {0}
    BY InputAssumption DEF RtpAccepted, TypeOK
  <1>3. out'.ext = ext
    BY DEF RtpAccepted
  <1>4. ASSUME out'.path = "interp"
        PROVE  out'.raw = Clamp(InterpExact(out'.ext))
    <2>1. /\ ~base_initiated /\ base_interpolate_initiated
          /\ out'.raw = RtpDiffFull(base_interpolate_pts, ext,
                                    base_interpolate_ext_ts, clock_rate,
                                    FALSE, FALSE)
      BY <1>0, <1>4 DEF ComputedPts, TypeOK
    <2>2. base_interpolate_pts \in Word /\ base_interpolate_ext_ts \in Word
      BY DEF TypeOK
    <2>3. RtpDiffFull(base_interpolate_pts, ext, base_interpolate_ext_ts,
                      clock_rate, FALSE, FALSE)
            = Clamp(InterpExact(ext))
      BY <1>1, <1>2, <2>2, RtpDiffExact DEF InterpExact
    <2>4. QED
      BY <1>3, <2>1, <2>3
  <1>5. ASSUME out'.path = "sync", SyncExact(out'.ext) \in Word
        PROVE  out'.raw = SyncExact(out'.ext)
    <2>1. base_initiated /\ out'.raw = SyncPts(ext)
      BY <1>0, <1>5 DEF ComputedPts, TypeOK
    <2>2. last_rtcp_ntp_time \in Word /\ last_rtcp_ext_ts \in Word
      BY DEF TypeOK
    <2>3. QED
      BY <1>1, <1>2, <1>3, <1>5, <2>1, <2>2, SyncPtsExact
         DEF SyncPts, SyncExact
  <1>6. QED
    BY <1>4, <1>5

(* Every step keeps the PTS arithmetic exact or saturated.                 *)
LEMMA PtsStep ==
  TypeOK /\ [Next]_vars =>
    [NewOutput =>
       /\ out'.path = "interp" => out'.raw = Clamp(InterpExact(out'.ext))
       /\ (out'.path = "sync" /\ SyncExact(out'.ext) \in Word)
            => out'.raw = SyncExact(out'.ext)]_vars
  <1> SUFFICES ASSUME TypeOK, [Next]_vars, NewOutput
               PROVE  /\ out'.path = "interp"
                            => out'.raw = Clamp(InterpExact(out'.ext))
                      /\ (out'.path = "sync" /\ SyncExact(out'.ext) \in Word)
                            => out'.raw = SyncExact(out'.ext)
    OBVIOUS
  <1>1. CASE \E s \in Ssrcs, p \in PayloadTypes, ts \in RtpTimestamps,
               q \in ArrivalPts : RtpAccepted(s, p, ts, q)
    BY <1>1, AcceptedPts
  <1>2. CASE ~\E s \in Ssrcs, p \in PayloadTypes, ts \in RtpTimestamps,
                q \in ArrivalPts : RtpAccepted(s, p, ts, q)
    BY <1>2, OtherStepsKeepSorted DEF NewOutput
  <1>3. QED
    BY <1>1, <1>2

(* process_rtp_buffer computes its PTS exactly, for every width and every  *)
(* clock rate: in the interpolation regime it is the offset from the       *)
(* interpolation anchor saturated to [0, G_MAXUINT64], and in the          *)
(* synchronised regime it is base_sync_time + NTP offset + RTP offset      *)
(* whenever that fits in a word, the wrap of the NTP step being undone by  *)
(* rtp_diff_full (PtsArithmetic).                                          *)
THEOREM PtsArithmeticHolds == Spec => PtsArithmetic
  BY TypeCorrect, PtsStep, PTL DEF Spec, PtsArithmetic

=============================================================================
