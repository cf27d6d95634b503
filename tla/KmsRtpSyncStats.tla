--------------------------- MODULE KmsRtpSyncStats ---------------------------
(***************************************************************************)
(* The synchronizer together with its stats file (kmsrtpsynchronizer.c),   *)
(* called from several streaming threads.                                  *)
(*                                                                         *)
(* process_rtp_buffer does its work under the instance lock, copies the    *)
(* clock rate and the last-SR anchors into locals, unlocks, and only then  *)
(* writes one CSV row under the separate stats mutex.  So a call is split  *)
(* here into the locked step (an action of KmsRtpSynchronizer), taking the *)
(* stats mutex, and writing the row while releasing it.  Between the       *)
(* unlock and the write, any other thread may run a whole RTP or RTCP      *)
(* call.  RTCP and configure calls write no row and stay single steps.     *)
(*                                                                         *)
(* A row keeps the fields the properties compare (SSRC, clock rate,        *)
(* original and final PTS, extended timestamp, SR NTP time and SR          *)
(* extended timestamp); the wall-clock time and thread pointer are left    *)
(* out.  Its fields path and raw are not written to the file: they record  *)
(* how the PTS was computed, for the properties.                           *)
(***************************************************************************)
EXTENDS KmsRtpSynchronizer, Sequences

CONSTANTS
  Threads,   \* the streaming threads that call process_rtp_buffer
  NoOwner    \* the stats mutex is free

ASSUME StatsAssumption == NoOwner \notin Threads /\ Threads # {}

VARIABLES
  stats_file,    \* "open", "none" (no name, no directory or open failed), "closed"
  pending,       \* per thread: the row it will write after unlocking
  stats_owner,   \* the thread holding stats_mutex
  rows           \* the rows written to the file, in file order

statsVars == <<stats_file, pending, stats_owner, rows>>
allVars == <<vars, statsVars>>

NoRow == [none |-> TRUE]
Row == [ssrc : Ssrcs, clock_rate : {cr \in ClockRates : cr > 0},
        pts_orig : Word, pts : Word,
        ext : Word, sr_ntp : Word, sr_ext : Word, path : Paths, raw : Word]

StatsTypeOK ==
  /\ TypeOK
  /\ stats_file \in {"open", "none", "closed"}
  /\ pending \in [Threads -> Row \cup {NoRow}]
  /\ stats_owner \in Threads \cup {NoOwner}
  /\ rows \in Seq(Row)

-----------------------------------------------------------------------------
(* kms_rtp_synchronizer_new with kms_rtp_synchronizer_init_stats_file: the *)
(* file is opened (header written) only when a stats name was given, the   *)
(* stats directory is configured and can be created, and fopen succeeds.   *)
StatsInit ==
  /\ Init
  /\ stats_file \in {"open", "none"}
  /\ pending = [t \in Threads |-> NoRow]
  /\ stats_owner = NoOwner
  /\ rows = <<>>

Idle(t) == pending[t] = NoRow /\ stats_owner # t

(* The row of a buffer that got its PTS (label end:): the clock rate and   *)
(* the last-SR anchors copied while the lock is held, the PTS as written.  *)
StatsRow(s, ptsOrig) ==
  [ssrc |-> s, clock_rate |-> clock_rate, pts_orig |-> ptsOrig,
   pts |-> out'.pts, ext |-> out'.ext, sr_ntp |-> last_rtcp_ntp_time,
   sr_ext |-> last_rtcp_ext_ts, path |-> out'.path, raw |-> out'.raw]

(* Thread t runs the locked part of process_rtp_buffer on a buffer that    *)
(* gets a PTS, and leaves the lock holding the row it will write.          *)
RtpLocked(t, s, p, ts, ptsOrig) ==
  /\ Idle(t)
  /\ RtpAccepted(s, p, ts, ptsOrig)
  /\ pending' = [pending EXCEPT ![t] = StatsRow(s, ptsOrig)]
  /\ UNCHANGED <<stats_file, stats_owner, rows>>

(* kms_rtp_synchronizer_write_stats, g_mutex_lock (&stats_mutex).  With no *)
(* file it returns at once.                                                *)
StatsLock(t) ==
  /\ pending[t] # NoRow /\ stats_owner = NoOwner
  /\ IF stats_file = "open"
       THEN stats_owner' = t /\ UNCHANGED pending
       ELSE pending' = [pending EXCEPT ![t] = NoRow] /\ UNCHANGED stats_owner
  /\ UNCHANGED <<vars, stats_file, rows>>

(* Mutant of StatsWrite: the anchors are read again when the row is       *)
(* written, after the instance lock was released.                         *)
StatsWriteLate(t) ==
  /\ stats_owner = t /\ pending[t] # NoRow
  /\ rows' = Append(rows, [pending[t] EXCEPT !.sr_ntp = last_rtcp_ntp_time,
                                             !.sr_ext = last_rtcp_ext_ts])
  /\ pending' = [pending EXCEPT ![t] = NoRow]
  /\ stats_owner' = NoOwner
  /\ UNCHANGED <<vars, stats_file>>

(* Mutant of StatsWrite: the stats mutex is not released.                 *)
StatsWriteNoUnlock(t) ==
  /\ stats_owner = t /\ pending[t] # NoRow
  /\ rows' = Append(rows, pending[t])
  /\ pending' = [pending EXCEPT ![t] = NoRow]
  /\ UNCHANGED <<vars, stats_file, stats_owner>>

(* g_fprintf of the row, then g_mutex_unlock (&stats_mutex).               *)
StatsWrite(t) ==
  /\ stats_owner = t /\ pending[t] # NoRow
  /\ rows' = Append(rows, pending[t])
  /\ pending' = [pending EXCEPT ![t] = NoRow]
  /\ stats_owner' = NoOwner
  /\ UNCHANGED <<vars, stats_file>>

(* The calls that write no row, from any thread: configure, RTCP, and RTP *)
(* buffers rejected or not mappable (they return before label end:).      *)
OtherCall ==
  /\ \/ \E p \in PayloadTypes, cr \in ClockRates : SetPtClockRate(p, cr)
     \/ \E kind \in {"unmappable", "empty", "RR"} : RtcpIgnored(kind)
     \/ \E ntp \in NtpStamps, rtcpTs \in RtpTimestamps, dts \in SyncTimes :
          RtcpSenderReport(ntp, rtcpTs, dts)
     \/ RtpUnmappable
     \/ \E s \in Ssrcs, p \in PayloadTypes : RtpRejected(s, p)
  /\ UNCHANGED statsVars

(* kms_rtp_synchronizer_finalize: the last reference is dropped, so no     *)
(* call is in progress; the stats file is closed.                          *)
Finalize ==
  /\ stats_file # "closed"
  /\ \A t \in Threads : pending[t] = NoRow
  /\ stats_file' = IF stats_file = "open" THEN "closed" ELSE stats_file
  /\ UNCHANGED <<vars, pending, stats_owner, rows>>

StatsNext ==
  \/ OtherCall
  \/ \E t \in Threads :
       \/ \E s \in Ssrcs, p \in PayloadTypes, ts \in RtpTimestamps,
             ptsOrig \in ArrivalPts :
            RtpLocked(t, s, p, ts, ptsOrig)
       \/ StatsLock(t)
       \/ StatsWrite(t)
  \/ Finalize

(* A thread that has released the instance lock goes on to write its row: *)
(* weak fairness of its two stats steps.  g_mutex is not fair, but every   *)
(* holder releases it in its next step and the calls are finite, so the    *)
(* mutex is free infinitely often.                                         *)
StatsSpec ==
  /\ StatsInit /\ [][StatsNext]_allVars
  /\ \A t \in Threads : WF_allVars(StatsLock(t)) /\ WF_allVars(StatsWrite(t))

-----------------------------------------------------------------------------
(* The PTS of a row as recomputed offline from the row's own fields and    *)
(* the base anchors (fixed by the first SR): the synchronized-regime sum.  *)
RowSyncExact(r) ==
  base_sync_time + (r.sr_ntp - base_ntp_time)
    + RtpOffset(r.ext, r.sr_ext, r.clock_rate)

(* process_rtp_buffer / write_stats: every row of the stats file whose    *)
(* PTS came from the synchronized regime reproduces it: its SR columns are *)
(* the anchors the PTS was computed from, even when another thread         *)
(* processed an SR between the unlock and the write.                       *)
StatsRowsReproducible ==
  \A i \in 1..Len(rows) :
    rows[i].path = "sync" /\ RowSyncExact(rows[i]) \in Word
      => rows[i].raw = RowSyncExact(rows[i])

(* The rows of the stats file, and the rows threads hold between the      *)
(* instance unlock and the write.                                          *)
StatsRows == {pending[t] : t \in Threads} \cup {rows[i] : i \in 1..Len(rows)}

(* process_rtp_buffer's end: block and write_stats: a row whose PTS came   *)
(* from the synchronized regime, pending or written, is exactly what the   *)
(* code computes from the row's own clock rate and SR columns (and the     *)
(* base anchor, which the first SR fixed for good): the snapshot taken     *)
(* under the lock is what reaches the file, whatever SRs, reconfiguration  *)
(* or other buffers other threads process before the write.                *)
StatsRowsFromSnapshot ==
  \A r \in StatsRows :
    r # NoRow /\ r.path = "sync" =>
      /\ base_initiated
      /\ r.raw = SyncPtsFrom(r.ext, r.sr_ntp, r.sr_ext, r.clock_rate)

(* write_stats: every thread that left the lock with a row to write        *)
(* eventually writes it (or drops it when there is no file): the stats     *)
(* mutex never stays taken.                                                *)
StatsRowsWritten ==
  \A t \in Threads : pending[t] # NoRow ~> pending[t] = NoRow

=============================================================================
