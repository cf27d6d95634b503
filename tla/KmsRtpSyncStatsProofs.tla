----------------------- MODULE KmsRtpSyncStatsProofs ------------------------
(***************************************************************************)
(* Proofs about the synchronizer with its stats file, for every set of     *)
(* threads and every instance of the synchronizer's constants.             *)
(***************************************************************************)
EXTENDS KmsRtpSyncStats, KmsRtpSyncArithProofs, SequenceTheorems

-----------------------------------------------------------------------------
(* The steps of the stats composition that are steps of the synchronizer.  *)

LEMMA OtherCallIsNext == OtherCall => Next
  BY DEF OtherCall, Next

LEMMA RtpLockedIsNext ==
  ASSUME NEW t \in Threads, NEW s \in Ssrcs, NEW p \in PayloadTypes,
         NEW ts \in RtpTimestamps, NEW q \in ArrivalPts,
         RtpLocked(t, s, p, ts, q)
  PROVE  Next
  BY DEF RtpLocked, Next

(* The steps that leave the synchronizer alone.                            *)
LEMMA StatsOnlySteps ==
  ASSUME NEW t \in Threads, StatsLock(t) \/ StatsWrite(t) \/ Finalize
  PROVE  UNCHANGED vars
  BY DEF StatsLock, StatsWrite, Finalize

(* A synchronizer step moves the base anchor only on the first SR.         *)
LEMMA BaseStable ==
  ASSUME Next, base_initiated
  PROVE  UNCHANGED <<base_initiated, base_ntp_time, base_sync_time>>
  BY DEF Next, SetPtClockRate, RtcpIgnored, RtcpSenderReport, RtpUnmappable,
         RtpRejected, RtpAccepted, syncVars

LEMMA BaseMonotone ==
  ASSUME Next
  PROVE  base_initiated => base_initiated'
  BY DEF Next, SetPtClockRate, RtcpIgnored, RtcpSenderReport, RtpUnmappable,
         RtpRejected, RtpAccepted, syncVars

-----------------------------------------------------------------------------
(* Type correctness of the composition.                                    *)

(* The row a thread leaves the instance lock with is well typed.           *)
LEMMA StatsRowType ==
  ASSUME TypeOK, NEW t \in Threads, NEW s \in Ssrcs, NEW p \in PayloadTypes,
         NEW ts \in RtpTimestamps, NEW q \in ArrivalPts,
         RtpLocked(t, s, p, ts, q)
  PROVE  StatsRow(s, q) \in Row
  <1>1. TypeOK'
    BY RtpLockedIsNext, TypeStep
  <1>2. clock_rate \in {cr \in ClockRates : cr > 0}
    BY DEF RtpLocked, RtpAccepted, TypeOK
  <1>3. q \in Word
    BY InputAssumption DEF Word, MAXU, MOD
  <1>4. /\ out'.pts \in Word /\ out'.ext \in Word /\ out'.raw \in Word
        /\ out'.path \in Paths
    BY <1>1 DEF TypeOK
  <1>5. last_rtcp_ntp_time \in Word /\ last_rtcp_ext_ts \in Word
    BY DEF TypeOK
  <1>6. QED
    BY <1>2, <1>3, <1>4, <1>5 DEF StatsRow, Row

LEMMA StatsTypeInit == StatsInit => StatsTypeOK
  BY TypeInit DEF StatsInit, StatsTypeOK

LEMMA StatsTypeStep == StatsTypeOK /\ [StatsNext]_allVars => StatsTypeOK'
  <1> SUFFICES ASSUME StatsTypeOK, [StatsNext]_allVars PROVE StatsTypeOK'
    OBVIOUS
  <1>. USE DEF StatsTypeOK
  <1>1. CASE OtherCall
    BY <1>1, OtherCallIsNext, TypeStep DEF OtherCall, statsVars
  <1>2. ASSUME NEW t \in Threads, NEW s \in Ssrcs, NEW p \in PayloadTypes,
               NEW ts \in RtpTimestamps, NEW q \in ArrivalPts,
               RtpLocked(t, s, p, ts, q)
        PROVE  StatsTypeOK'
    <2>1. TypeOK'
      BY <1>2, RtpLockedIsNext, TypeStep
    <2>2. pending' \in [Threads -> Row \cup {NoRow}]
      BY <1>2, StatsRowType DEF RtpLocked
    <2>3. QED
      BY <1>2, <2>1, <2>2 DEF RtpLocked
  <1>3. ASSUME NEW t \in Threads, StatsLock(t) PROVE StatsTypeOK'
    <2>1. TypeOK'
      BY <1>3, StatsOnlySteps, TypeStep
    <2>2. QED
      BY <1>3, <2>1 DEF StatsLock
  <1>4. ASSUME NEW t \in Threads, StatsWrite(t) PROVE StatsTypeOK'
    <2>1. pending[t] \in Row
      BY <1>4 DEF StatsWrite
    <2>2. rows' \in Seq(Row)
      BY <1>4, <2>1, AppendProperties DEF StatsWrite
    <2>3. TypeOK'
      BY <1>4, StatsOnlySteps, TypeStep
    <2>4. QED
      BY <1>4, <2>2, <2>3 DEF StatsWrite
  <1>5. CASE Finalize
    <2>1. TypeOK'
      BY <1>5, StatsOnlySteps, TypeStep, StatsAssumption
    <2>2. QED
      BY <1>5, <2>1 DEF Finalize
  <1>6. CASE UNCHANGED allVars
    <2>1. TypeOK'
      BY <1>6, TypeStep DEF allVars
    <2>2. QED
      BY <1>6, <2>1 DEF allVars, statsVars
  <1>7. QED
    BY <1>1, <1>2, <1>3, <1>4, <1>5, <1>6 DEF StatsNext

(* Every reachable state of the composition is well typed (StatsTypeOK):   *)
(* the rows process_rtp_buffer hands to write_stats, pending or written,   *)
(* hold words, a configured clock rate and a regime path.                  *)
THEOREM StatsTypeCorrect == StatsSpec => []StatsTypeOK
  BY StatsTypeInit, StatsTypeStep, PTL DEF StatsSpec

-----------------------------------------------------------------------------
(* Sync rows are reproducible from the snapshot they carry.                *)

(* A step that keeps the base anchor and only moves or drops rows keeps    *)
(* every sync row reproducible.                                            *)
LEMMA SnapshotKept ==
  ASSUME StatsRowsFromSnapshot,
         UNCHANGED <<base_initiated, base_ntp_time, base_sync_time>>,
         StatsRows' \subseteq StatsRows \cup {NoRow}
  PROVE  StatsRowsFromSnapshot'
  BY DEF StatsRowsFromSnapshot, SyncPtsFrom

(* Handing a row to the stats lock or writing it only moves it: the rows  *)
(* after the step are among those before, or the empty slot.               *)
LEMMA StatsLockRows ==
  ASSUME StatsTypeOK, NEW t \in Threads, StatsLock(t)
  PROVE  StatsRows' \subseteq StatsRows \cup {NoRow}
  BY DEF StatsLock, StatsRows, StatsTypeOK

LEMMA StatsWriteRows ==
  ASSUME StatsTypeOK, NEW t \in Threads, StatsWrite(t)
  PROVE  StatsRows' \subseteq StatsRows \cup {NoRow}
  <1>1. {pending'[u] : u \in Threads} \subseteq StatsRows \cup {NoRow}
    BY DEF StatsWrite, StatsRows, StatsTypeOK
  <1>2. ASSUME NEW i \in 1..Len(rows') PROVE rows'[i] \in StatsRows
    <2>1. Len(rows') = Len(rows) + 1
      BY AppendProperties DEF StatsWrite, StatsTypeOK
    <2>2. CASE i \in 1..Len(rows)
      BY <2>2, AppendProperties DEF StatsWrite, StatsTypeOK, StatsRows
    <2>3. CASE i = Len(rows) + 1
      BY <2>3, AppendProperties DEF StatsWrite, StatsTypeOK, StatsRows
    <2>4. QED
      BY <2>1, <2>2, <2>3, <1>2 DEF StatsTypeOK
  <1>3. QED
    BY <1>1, <1>2 DEF StatsRows

(* The row a thread takes out of process_rtp_buffer is reproducible.       *)
LEMMA FreshRowFromSnapshot ==
  ASSUME NEW t \in Threads, NEW s \in Ssrcs, NEW p \in PayloadTypes,
         NEW ts \in RtpTimestamps, NEW q \in ArrivalPts,
         RtpLocked(t, s, p, ts, q), StatsRow(s, q).path = "sync"
  PROVE  /\ base_initiated'
         /\ StatsRow(s, q).raw =
              SyncPtsFrom(StatsRow(s, q).ext, StatsRow(s, q).sr_ntp,
                          StatsRow(s, q).sr_ext, StatsRow(s, q).clock_rate)
  <1>1. base_initiated /\ base_initiated' = base_initiated
    BY DEF RtpLocked, RtpAccepted, StatsRow
  <1>2. StatsRow(s, q).raw = SyncPts(StatsRow(s, q).ext)
    BY <1>1 DEF RtpLocked, RtpAccepted, StatsRow, ComputedPts
  <1>3. QED
    BY <1>1, <1>2 DEF SyncPts, StatsRow

(* Every row that carries the synchronised path, waiting on the stats lock *)
(* or written to the file, has a raw PTS that the NTP/RTP anchor of the    *)
(* last sender report it records reproduces through the base anchor that  *)
(* is still in force: process_rtp_buffer snapshots under the instance      *)
(* lock exactly what it computes with, and the base anchor, once set by   *)
(* the first sender report, never moves.                                   *)
THEOREM StatsRowsFromSnapshotHolds == StatsSpec => []StatsRowsFromSnapshot
  <1>1. StatsInit => StatsRowsFromSnapshot
    BY DEF StatsInit, StatsRowsFromSnapshot, StatsRows
  <1>2. StatsTypeOK /\ StatsRowsFromSnapshot /\ [StatsNext]_allVars
          => StatsRowsFromSnapshot'
    <2> SUFFICES ASSUME StatsTypeOK, StatsRowsFromSnapshot, [StatsNext]_allVars
                 PROVE  StatsRowsFromSnapshot'
      OBVIOUS
    <2>1. CASE OtherCall
      <3>1. StatsRows' = StatsRows
        BY <2>1 DEF OtherCall, statsVars, StatsRows
      <3>2. CASE base_initiated
        BY <2>1, <3>1, <3>2, OtherCallIsNext, BaseStable, SnapshotKept
      <3>3. CASE ~base_initiated
        BY <3>1, <3>3 DEF StatsRowsFromSnapshot
      <3>4. QED
        BY <3>2, <3>3
    <2>2. ASSUME NEW t \in Threads, NEW s \in Ssrcs, NEW p \in PayloadTypes,
                 NEW ts \in RtpTimestamps, NEW q \in ArrivalPts,
                 RtpLocked(t, s, p, ts, q)
          PROVE  StatsRowsFromSnapshot'
      <3>1. UNCHANGED <<base_initiated, base_ntp_time, base_sync_time>>
        BY <2>2 DEF RtpLocked, RtpAccepted
      <3>2. StatsRows' \subseteq StatsRows \cup {StatsRow(s, q)}
        BY <2>2 DEF RtpLocked, StatsRows, StatsTypeOK
      <3>3. ASSUME NEW r \in StatsRows', r # NoRow, r.path = "sync"
            PROVE  /\ base_initiated'
                   /\ r.raw = SyncPtsFrom(r.ext, r.sr_ntp, r.sr_ext, r.clock_rate)'
        <4>1. CASE r \in StatsRows
          BY <3>1, <3>3, <4>1 DEF StatsRowsFromSnapshot, SyncPtsFrom
        <4>2. CASE r = StatsRow(s, q)
          <5>1. /\ base_initiated'
                /\ r.raw = SyncPtsFrom(r.ext, r.sr_ntp, r.sr_ext, r.clock_rate)
            BY <2>2, <3>3, <4>2, FreshRowFromSnapshot
          <5>2. QED
            BY <3>1, <5>1 DEF SyncPtsFrom
        <4>3. QED
          BY <3>2, <4>1, <4>2
      <3>4. QED
        BY <3>3 DEF StatsRowsFromSnapshot
    <2>3. ASSUME NEW t \in Threads, StatsLock(t) PROVE StatsRowsFromSnapshot'
      BY <2>3, StatsLockRows, SnapshotKept DEF StatsLock, vars, syncVars
    <2>4. ASSUME NEW t \in Threads, StatsWrite(t) PROVE StatsRowsFromSnapshot'
      BY <2>4, StatsWriteRows, SnapshotKept DEF StatsWrite, vars, syncVars
    <2>5. CASE Finalize
      <3>1. StatsRows' = StatsRows
        BY <2>5 DEF Finalize, StatsRows
      <3>2. QED
        BY <2>5, <3>1, SnapshotKept DEF Finalize, vars, syncVars
    <2>6. CASE UNCHANGED allVars
      BY <2>6 DEF allVars, statsVars, vars, syncVars, StatsRowsFromSnapshot,
                  StatsRows, SyncPtsFrom
    <2>7. QED
      BY <2>1, <2>2, <2>3, <2>4, <2>5, <2>6 DEF StatsNext
  <1>3. QED
    BY <1>1, <1>2, StatsTypeCorrect, PTL DEF StatsSpec

-----------------------------------------------------------------------------
(* Written rows are exact.                                                 *)

(* A written sync row reproducible from its snapshot is exact whenever its *)
(* exact value fits in a word.                                             *)
LEMMA RowsExact ==
  StatsTypeOK /\ StatsRowsFromSnapshot => StatsRowsReproducible
  <1> SUFFICES ASSUME StatsTypeOK, StatsRowsFromSnapshot,
                      NEW i \in 1..Len(rows), rows[i].path = "sync",
                      RowSyncExact(rows[i]) \in Word
               PROVE  rows[i].raw = RowSyncExact(rows[i])
    BY DEF StatsRowsReproducible
  <1> DEFINE r == rows[i]
  <1>1. r \in Row
    BY DEF StatsTypeOK
  <1>2. r \in StatsRows /\ r # NoRow
    BY <1>1 DEF StatsRows, NoRow, Row
  <1>3. r.raw = SyncPtsFrom(r.ext, r.sr_ntp, r.sr_ext, r.clock_rate)
    BY <1>2 DEF StatsRowsFromSnapshot
  <1>4. /\ r.ext \in Word /\ r.sr_ntp \in Word /\ r.sr_ext \in Word
        /\ r.clock_rate \in Nat \ {0}
    <2>1. r.ext \in Word /\ r.sr_ntp \in Word /\ r.sr_ext \in Word
      BY <1>1 DEF Row
    <2>2. r.clock_rate \in ClockRates /\ r.clock_rate > 0
      BY <1>1 DEF Row
    <2>3. r.clock_rate \in Int
      BY <2>2, InputAssumption
    <2>4. QED
      BY <2>1, <2>2, <2>3
  <1>5. \A e, n, x \in Word, cr \in Nat \ {0} :
          base_sync_time + (n - base_ntp_time) + RtpOffset(e, x, cr) \in Word
            => SyncPtsFrom(e, n, x, cr)
                 = base_sync_time + (n - base_ntp_time) + RtpOffset(e, x, cr)
    BY SyncPtsExact DEF StatsTypeOK
  <1>6. QED
    BY <1>3, <1>4, <1>5 DEF RowSyncExact

(* Every row written to the stats file in the synchronised regime carries  *)
(* exactly base_sync_time + NTP offset + RTP offset of the snapshot it     *)
(* records, whenever that fits in a word, for every width, clock rate and  *)
(* number of threads: write_stats never writes a PTS that another thread's *)
(* sender report or timestamps could have changed (StatsRowsReproducible). *)
THEOREM StatsRowsReproducibleHolds == StatsSpec => []StatsRowsReproducible
  BY StatsTypeCorrect, StatsRowsFromSnapshotHolds, RowsExact, PTL

=============================================================================
