# Formal models of the Kurento RTP synchronizer and SRTP connection

This directory holds TLA+ models of two files of the repository, along with
their TLC configurations and TLAPS proofs:

- `src/kms-omni-build/kms-core/src/gst-plugins/commons/kmsrtpsynchronizer.c`,
  the *synchronizer*;
- `src/kms-omni-build/kms-elements/src/gst-plugins/rtpendpoint/kmssrtpconnection.c`,
  the *SRTP connection*.

The synchronizer rewrites the PTS of RTP buffers so that streams line up on the
sender's wall clock. It has two regimes:

- the *interpolation* regime, which runs until the first RTCP Sender Report;
- the *synchronized* regime, which runs after it.

In sorted mode the output is kept non-decreasing. Every processed RTP packet
may also write a row to an optional CSV stats file.

The SRTP connection owns the `srtpenc`/`srtpdec` pair of an RTP endpoint:

- it stores the remote key that `srtpdec` asks for through callbacks;
- it hands the local key to `srtpenc`;
- it installs latency probes.

## 1. Inventory

### Parts of the system and how they interact

| Part | Code | State | Operations | Module |
|---|---|---|---|---|
| Synchronizer facade | `kms_rtp_synchronizer_new/init/set_pt_clock_rate` (113-234) | `KmsRtpSynchronizerPrivate` (46-78): feeded_sorted, ssrc, pt, clock_rate | configure once | `KmsRtpSynchronizer` |
| AnchorStore | `process_rtcp_buffer/packet` (236-322) | base_initiated, base_ntp_time, base_sync_time, last_rtcp_ext_ts, last_rtcp_ntp_time | the first SR sets the base; every SR sets the last-SR anchor | `KmsRtpSynchronizer`, `KmsRtpSyncSrSsrc` (the SR's SSRC) |
| ExtendedTimestampTracker | `gst_rtp_buffer_ext_timestamp` (library), called at 286 and 469 | rtp_ext_ts | extend a 32-bit RTP timestamp to 64 bits | `KmsRtpSynchronizer` (spec-modelled) |
| PtsComputer | `rtp_diff_full` (324-381), regime choice (496-534) | base_interpolate_* | interpolation or synchronized PTS, with saturation | `KmsRtpSynchronizer` |
| SortedModeGuard | 471-493, 536-561 | fs_last_rtp_ext_ts, fs_last_pts | regression demotion, duplicate rule, clamp | `KmsRtpSynchronizer` |
| StatsSink | `init_stats_file` (136-181), `write_stats` (391-408), label `end:` (563-575), `finalize` (80-95) | stats_file, stats_mutex | open once, one row per packet after the unlock, close | `KmsRtpSyncStats` |
| SRTP remote key store | `set_key` remote (567-585), `request_remote_key_cb` (318-347), `soft_key_limit_cb` (349-359), `create_key_caps` (263-316) | r_key, r_auth, r_cipher, r_key_set, r_updated | set the key; hand it to srtpdec | `KmsSrtpConnection`, abstract `KmsSrtpKeyStore` |
| SRTP local key | `set_key` local (556-566) | srtpenc's properties | five property writes | `KmsSrtpConnection` |
| SRTP lifecycle and probes | `new` (361-414), `finalize` (470-496), `collect_latency_stats` (451-468), `enable_latency_stats`, `disable_latency_notification` (416-449) | src_probe, sink_probe | create, enable/disable probes, finalize | `KmsSrtpConnection` |

**Synchronizer.** Every operation takes the instance's recursive mutex and does
all of its reads and writes of private state under it. The only code outside
the lock is:

- the `clock_rate <= 0` parameter check;
- the pure NTP-to-time conversion;
- the stats write.

So RTP and RTCP buffers from different streaming threads interleave only at
operation boundaries, and each operation is **one atomic action** of
`KmsRtpSynchronizer`. The stats write is the exception: it runs after the
unlock, under a second mutex. `KmsRtpSyncStats` therefore splits an RTP call
into three steps:

1. the locked step, which snapshots the row;
2. taking the stats mutex;
3. writing the row and unlocking.

**SRTP connection.** `set_key` (remote), `request_remote_key_cb` and
`collect_latency_stats` hold the base connection's lock, so each is one step.
`set_key` (local) holds no lock, and its `g_object_set` sets five `srtpenc`
properties one after the other, so each property write is a step of its own.

`srtpdec` and `srtpenc` are GStreamer elements, not code of this repository.
They are the environment, and the module assumes only what the callbacks imply
about them:

- `srtpdec` emits `request-key` for an SSRC it has no key for and keeps the caps
  it gets;
- it emits `soft-limit` for an SSRC it holds a key for;
- `srtpenc` may rebuild its session from the properties it holds at any moment.

Neither component uses timers, retries or persistence, so crash recovery and
timeouts do not arise.

## 2. Module `KmsRtpSynchronizer`

**Constants.**

- `W` and `R` are the widths of GstClockTime (64) and of RTP timestamps (32).
  `MAXU = 2^W - 1` is both `G_MAXUINT64` and `GST_CLOCK_TIME_NONE`, as in the
  code.
- `SECOND` and `NTP_FRAC` give the NTP conversion.
- `ClockRates`, `PayloadTypes`, `Ssrcs`, `ArrivalPts`, `SyncTimes` and
  `NtpStamps` are the input sets.
- `MaxCalls` bounds the number of calls.

**Variables.**

- The 15 private fields, under their C names.
- `ret`: the return value of the last call.
- `out`: the last buffer written, with its sequence number, extended timestamp,
  raw and final PTS and the regime path taken.
- `ncalls`: the call counter.
- `first_ssrc`: the first SSRC seen, which the properties use.

**Actions.** Each action is one whole handler, with the same guards and early
returns as the code:

| Action | Code |
|---|---|
| `Init` | `kms_rtp_synchronizer_new` + `_init` (every timestamp NONE) |
| `SetPtClockRate(p, cr)` | `set_pt_clock_rate`: fails unless cr > 0 and not configured yet |
| `RtcpIgnored(kind)` | RTCP buffer unmappable, empty, or first packet not an SR |
| `RtcpSenderReport(ntp, ts, dts)` | SR: base anchor on the first SR, then the tracker and last-SR anchor |
| `RtpRejected(s, p)` | SSRC mismatch, wrong PT, or unconfigured clock rate (SSRC is learned first) |
| `RtpAccepted(s, p, ts, pts)` | the rest of `process_rtp_buffer_mapped`: extend, demote, duplicate rule, regime, clamp, store |
| `RtpUnmappable` | `process_rtp_buffer_writable` when the buffer cannot be mapped |

`RtpDiffFull` copies the branch structure of `rtp_diff_full`, including its
comparisons. `Scale` is `gst_util_uint64_scale`: it truncates and returns
`G_MAXUINT64` on overflow. `ExtTimestamp` is modelled from the spec, because
`gst_rtp_buffer_ext_timestamp` is GStreamer library code. It adds the signed
32-bit difference to the previous extended value modulo 2^W.

The real library never takes the extended value below zero, but the spec's
rule can, for example to `GST_CLOCK_TIME_NONE`. The model therefore has
behaviours the code has not; it does not lack any of the code's. No property of
a passing run depends on these extra behaviours, and no hazard is listed for
them.

**Properties.**

- `TypeOK`: the type invariant.
- `SortedInv` (invariant): whenever the instance is still sorted and its stored
  last PTS is valid, the stored last timestamp and PTS are exactly those of the
  last buffer written. This links the guard's memory to the output.
- `PtsArithmetic` (action property): compares each PTS the code computes with
  exact integer arithmetic on the same anchors.
  - An interpolated PTS equals the exact value clamped to the word.
  - A synchronized PTS whose exact value is in range equals it.
- `SortedOrder` (action property): in sorted mode, with valid stored values,
  the next PTS written is not below the previous one, and an equal extended
  timestamp gives exactly the same PTS (spec section 8, items 2 and 6).
- `SyncPtsSaturates`, `SortedMonotonic` and `SsrcLocked`: the spec's claims
  (section 8, items 8/9, 2 and 5), checked in violation runs.

## 3. Module `KmsRtpSyncStats` (synchronizer + stats file, several threads)

It EXTENDS `KmsRtpSynchronizer` and adds:

- the constant set `Threads`;
- the variables `stats_file` ("open", "none", "closed"), `pending` (per thread,
  the row snapshotted under the instance lock and not yet written),
  `stats_owner` (the holder of `stats_mutex`) and `rows` (the file's rows, in
  order).

| Action | Code |
|---|---|
| `StatsInit` | `new` + `init_stats_file`: a file only if a name and directory are given and `g_fopen` succeeds |
| `RtpLocked(t, ...)` | `RtpAccepted` plus the `end:` block's snapshot of clock_rate and last_rtcp_* into the row |
| `StatsLock(t)` | `write_stats`: return at once with no file, else `g_mutex_lock` |
| `StatsWrite(t)` | `g_fprintf` of the row, `g_mutex_unlock` |
| `OtherCall` | every call that writes no row (configure, RTCP, rejected or unmappable RTP) |
| `Finalize` | `finalize`: `fclose` once no call is in progress |

A row holds the fields the properties compare. It also has two ghost fields,
`path` and `raw`, which record how the PTS was computed.

**Properties.**

- `StatsRowsReproducible`: every row from the synchronized regime can be
  recomputed from its own SR columns. In other words, the row carries the
  anchors its PTS was computed from, even when another thread processed an SR
  between the unlock and the write.
- `StatsRowsFromSnapshot`: every synchronized row, pending or written, has the
  raw PTS that `SyncPtsFrom` gives for the SR anchor and clock rate the row
  records, through the base anchor now in force. This is the inductive form of
  `StatsRowsReproducible`: the base anchor never moves once the first SR sets
  it, so a row keeps satisfying it after any number of steps of the other
  thread.
- `StatsRowsWritten`: a pending row is eventually written, or dropped when there
  is no file.

The row type `Row` records a positive clock rate. `process_rtp_buffer` returns
before any row is built when the clock rate is not positive.

**Fairness.** WF on each thread's `StatsLock` and `StatsWrite`. A thread that
has left the instance lock runs on to its write. `g_mutex` is not fair, but
every holder releases it in its next step and the calls are bounded, so the
mutex is free infinitely often and weak fairness suffices.

## 4. Module `KmsRtpSyncSrSsrc` (the SR's SSRC)

It EXTENDS `KmsRtpSynchronizer`. `RtcpSenderReportFrom(s, ...)` is the core SR
step with the SSRC `s` read at line 248. Two history variables record the SSRC
of the SR that set the base anchor and the SSRC of the SR that set the last-SR
anchor.

`AnchorsFromStreamSsrc` states that a synchronized PTS is computed only from
reports of the stream's own SSRC. It is checked in a violation run.

## 5. Modules `KmsSrtpConnection` and `KmsSrtpKeyStore`

**Constants.**

- `Keys`: base64 key strings, as model values.
- `Auths` and `Ciphers`: the `guint` suite indices a caller may pass, including
  invalid ones.
- `Ssrcs`: the SSRCs `srtpdec` sees.
- `NoKey` and `Default`: sentinels.
- `MaxCalls`: bounds the calls.

`NAuths` and `NCiphers` are the sizes of the suite tables. Entry 0 of each
table is NULL, which `StrAuthValid` and `StrCipherValid` express.

**Variables.**

- `conn`: "init", "created", "failed" or "finalized".
- The five `r_*` fields.
- `enc`/`enc_session`: srtpenc's properties, and those its session was last
  built from.
- `local_set`: the `set_key` (local) call in progress, with its step.
- `dec`: the caps srtpdec holds per SSRC.
- `src_probe`/`sink_probe` and `probes`: the kept ids and each pad's installed
  probes.
- History: `local_calls` (every local call), `last_remote` (the last remote
  call) and `soft_key` (the caps held at the soft limit).

| Action | Code |
|---|---|
| `New` | `kms_srtp_connection_new`: NULL if no port pair (377-383), else flags cleared |
| `SetRemoteKey(k, a, c)` | `set_key` remote, under the lock: store only if `changed` (572-573) |
| `SetLocalKey(k, a, c)`, `SetEncProperty` | `set_key` local: decode, then the five property writes of `g_object_set`, in order |
| `RequestRemoteKey(s)` | `request_remote_key_cb`: NULL while no key is set; otherwise clear `r_updated` and return `create_key_caps` |
| `SoftKeyLimit(s)` | `soft_key_limit_cb`: emit the signal, return NULL |
| `CollectLatencyStats(enable)` | `collect_latency_stats` with `enable_latency_stats` / `disable_latency_notification` |
| `Finalize` | `finalize`: the probes are removed |
| `EncoderRebuild` | srtpenc (environment) rebuilds its session |

`RemoveProbe` models the base class's `kms_rtp_base_connection_remove_probe`.
That code is not under `src/`, so the definition is modelled from its behaviour
(id 0 names no probe).

`KmsSrtpKeyStore` is the abstract specification: what the remote-key side
promises `srtpdec`. It has:

- a phase: before, open or closed;
- the remote key set last;
- the caps given per SSRC.

Its actions are `Open`, `Close`, `SetRemote` and `Deliver(s)`. `Deliver(s)`
gives an SSRC with no key the caps of the current remote key, once. Weak
fairness of `Deliver(s)` promises that delivery happens.

`KmsSrtpConnection` maps onto it (`KS == INSTANCE KmsSrtpKeyStore WITH ...`):

- `phase <- PhaseOf`, where created is open and failed or finalized is closed;
- `remote <- last_remote`;
- `keys <- dec`;
- `CapsOf <- CreateKeyCaps`.

**Properties.**

- `TypeOK`.
- `ProbesTracked` (invariant): each pad carries exactly the probe whose id is
  kept.
- `KeyStoreRefined` (property, `KS!Spec`): the connection implements the key
  store, liveness included.
- `EncoderSessionFromOneCall` (violation run).

An SSRC that already holds a key keeps it when a new remote key is set, and
the soft-limit callback returns no new key. The code says so itself (FIXME at
lines 355-356: no new key until renegotiation is supported), and the model has
no hard limit. A property asking for the new key would therefore fail whatever
the callback did, so none is stated. `KeyStoreRefined` already covers the
delivery of a usable key to every SSRC that asks: its weak fairness on
`Deliver` is exactly that liveness.

**Fairness.** WF on `RequestRemoteKey(s)` for each SSRC. An SSRC that srtpdec
cannot decrypt keeps arriving in packets, and srtpdec emits `request-key` for
each of them, so the callback runs again and again while the key is missing.
No fairness is assumed for the callers of `set_key` or for the soft limit.

## 6. Runs

The synchronizer runs (`core` and its violations) use `MC_KmsRtpSynchronizer`:

- W = 4 and R = 2, so MAXU = 15 and the RTP clock wraps every 4 ticks;
- SECOND = 3 and NTP_FRAC = 2;
- clock rates {-1, 1, 2}, payload types {0, 1} and SSRCs {0, 1};
- arrival PTS {0, 5, 15}, sync times {4, 14} and NTP stamps {0, 4, 15};
- 5 calls.

The reasons for these bounds:

- Sync time 14 = MAXU - 1 and NTP stamp 15 make the NTP step overflow at both
  ends.
- The 2-bit RTP clock wraps within a few packets.
- Arrival PTS 15 is the sentinel.
- Five calls are the shortest sequence that reaches the synchronized regime
  with a previous output to compare against: configure, two SRs and two RTP
  packets.
- Clock rate -1 exercises the parameter check.

The `stats` run:

- 2 threads and 5 calls, one SSRC and one payload type;
- NTP stamps {0, 4}, so a second SR changes the anchors;
- clock rates {-1, 1}.

Five calls are enough for: configure; SR; thread 1's locked RTP step; a second
SR, processed by thread 2 before thread 1 writes; and another RTP call.

The `srtp` run:

- keys {k1, k2} and SSRCs {s1, s2};
- auths {0, 2} and ciphers {1, 3}: 0 and 3 have no name, 2 and 1 do;
- 4 calls.

This is enough for new, two remote keys that differ in one field, a local key,
and probe enable/disable/finalize. The srtpdec and srtpenc steps are not
counted as calls.

| Run | Expect | Properties | Shows |
|---|---|---|---|
| `core` | pass (1.7M states, ~45 s) | TypeOK, SortedInv, PtsArithmetic, SortedOrder | arithmetic and sorted-mode ordering hold wherever the values are in range and valid |
| `sync_saturation` | violation | SyncPtsSaturates | base_sync 14, NTP step +8 (wraps up), RTP offset -6: the code emits 0 where the true PTS is 16 = 2^W |
| `sorted_none_sentinel` | violation | SortedMonotonic | the first buffer has no PTS, so fs_last_pts stays NONE; later duplicates emit arrival PTS 5 and then 0 |
| `ssrc_zero_sentinel` | violation | SsrcLocked | SSRC 0 first, then SSRC 1 is accepted |
| `stats` | pass (0.8M states, ~45 s) | StatsTypeOK, StatsRowsReproducible, StatsRowsFromSnapshot, StatsRowsWritten | the snapshot taken under the lock keeps rows consistent under interleaving; the stats mutex is always released |
| `sr_foreign_ssrc` | violation | AnchorsFromStreamSsrc | an SR of SSRC 2, then configure, then an RTP packet of SSRC 1 gets a synchronized PTS from SSRC 2's anchors |
| `srtp` | pass (1.8M states, ~1.5 min) | TypeOK, ProbesTracked, KeyStoreRefined | probes are never leaked; the connection refines the key store, and every SSRC that asks while a usable key is set is eventually keyed |
| `srtp_enc_torn` | violation | EncoderSessionFromOneCall | set_key (local) writes "key"; srtpenc rebuilds with the new key and the default suite |

The findings are in `PROJECT.json`. The first is a real off-by-one at the
saturation boundary of `rtp_diff_full`, at lines 341 and 361: `<` should be
`<=`. The SRTP finding and the foreign-SSRC finding are spec gaps: the code
does what it says, but the behaviour is unspecified and surprising.

Deadlock checking is off in the configs. Every synchronizer and connection
operation is enabled at all times. The models stop only at their `MaxCalls`
bound, or when the connection is finalized.

Every property of a passing run has a mutant in `PROJECT.json`. A mutant is a
plausible bug in the mapped code, and TLC finds the property violated under
the run's configuration. For example:

- the unchecked `set_pt_clock_rate`;
- the row re-reading the anchors after the unlock;
- the missing unlock;
- the probe not removed before re-adding;
- a `changed` test that compares only the key.

## 7. Proofs

**`KmsRtpSynchronizerProofs.tla`.** These hold for all constants that satisfy
`WidthAssumption` and `InputAssumption`. The powers of two appear in
`WidthAssumption` as facts (`2^W \in Nat`, `2^W > 2^R`), because the provers do
not evaluate `^` on symbolic exponents.

- `TypeCorrect`: `Spec => []TypeOK`.
  - It rests on lemmas that each word operator stays in the word: `ScaleWord`,
    `ExtTimestampWord`, `RtpDiffFullWord`, `SyncPtsWord` and
    `ComputedPtsWord`.
  - The proof has one step per action.
- `SortedOrderHolds`: `Spec => SortedOrder`.
  - `SortedOrder` is not inductive by itself: a step may only compare against
    `out` if the stored `fs_last_*` values really are the last output.
  - `SortedInvariant` proves `Spec => [](TypeOK /\ SortedInv)`.
  - With `SortedInv`, each sorted step compares `out'` with the stored values.
- `SortedInvHolds`: `Spec => []SortedInv`, the invariant the `core` run
  checks.

**`KmsSrtpConnectionProofs.tla`.** These hold for all key, suite and SSRC sets
and every call bound that satisfy `ConnAssumption`.

- `InvariantHolds`: `Spec => []Inv`, where `Inv` is
  `TypeOK /\ ProbesTracked /\ RemoteInv`.
  - `RemoteInv` is the strengthening: the stored `r_*` fields equal the last
    `set_key` (remote) call exactly when `r_key_set` holds, and nothing is set
    before `new`.
  - It is needed because `set_key` skips the store when nothing changed. Only
    the invariant shows that the skipped call and the stored values agree.
  - The step lemma `NextInv` has one case per action.
  - `RemoveProbeTracked` shows that removing the kept probes empties both pads.
- `ProbesTrackedHolds`: `Spec => []ProbesTracked`, and `TypeCorrect`:
  `Spec => []TypeOK`.
- `RefinementHolds`: `Spec => KS!SafetySpec`.
  - `Init` maps to the abstract `Init`.
  - `StepRefines` maps each step to an abstract step or a stutter:
    - `New` maps to `Open` or `Close`;
    - `SetRemoteKey` maps to `SetRemote`, even when nothing changed;
    - `RequestRemoteKey` maps to `Deliver`, or to a stutter when no key is set
      or the suite has no name; this case uses `RemoteInv`;
    - `Finalize` maps to `Close`;
    - every other step is a stutter.

**`KmsRtpSyncArithProofs.tla`.** This module proves the PTS arithmetic for
every width, `SECOND` and clock rate.

- `RtpDiffExact`: with no wrap flags, `rtp_diff_full` returns
  `Clamp(pts + RtpOffset(...))`. `ModFacts` gives `x % 2^W` for values at most
  one word away from a word.
- `SyncPtsExact`: the NTP step with its wrap flags, followed by
  `rtp_diff_full`, returns `base_sync_time + NTP offset + RTP offset` whenever
  that value fits in a word. The proof has one case per flag:
  - with no wrap, the exact value is the result;
  - on a wrap up, the value fits only if the RTP offset is negative and at
    least the overshoot, so the code takes the `(pts - d) % 2^W` branch, and
    that branch undoes the wrap;
  - a wrap down is symmetric.

  `Scale` is opaque to the provers: they only use the fact that it returns a
  word. The proof therefore does not depend on the division.
- `PtsArithmeticHolds`: `Spec => PtsArithmetic`. The step lemma `PtsStep`
  reads the regime off `out'.path` (`AcceptedPts`). It needs only `TypeOK`.

**`KmsRtpSyncStatsProofs.tla`.** These hold for every set of threads and all
synchronizer constants.

- `StatsTypeCorrect`: `StatsSpec => []StatsTypeOK`. The synchronizer's steps
  are covered by `TypeStep`. `StatsRowType` shows that a thread's row is a
  `Row`.
- `StatsRowsFromSnapshotHolds`: `StatsSpec => []StatsRowsFromSnapshot`, with
  `StatsTypeOK` as the strengthening. There is one case per action:
  - `RtpLocked` adds a row equal to `SyncPts` of the current state
    (`FreshRowFromSnapshot`) and leaves the base anchor alone;
  - `StatsLock` and `StatsWrite` only move or drop rows (`StatsLockRows`,
    `StatsWriteRows`, `SnapshotKept`);
  - the other calls keep the base anchor once it is set (`BaseStable`). Before
    it is set, there are no synchronized rows.
- `StatsRowsReproducibleHolds`: `StatsSpec => []StatsRowsReproducible`, from the
  two invariants above and `SyncPtsExact` (`RowsExact`).

TLC alone checks these:

- the liveness properties (`StatsRowsWritten`, the fairness
  part of `KeyStoreRefined`), because the prover does not handle ENABLED and
  fairness;
- the violations.

## 8. Plan

1. **Done:** the core module, its run and three findings; proofs of type
   correctness and sorted-mode ordering.
2. **Done:** the stats composition; the SR's SSRC; the SRTP connection with its
   abstract key store, refinement, liveness, proofs and two findings.
3. **ExtendedTimestampTracker module.** A tracker with a refinement mapping to
   an unbounded timeline. It would check spec item 7 for gaps under 2^(R-1),
   and the SR-feeds-tracker FIXME (line 285) as a property that an SR leaves
   the media timeline unchanged.
4. **Abstract PTS spec.** An abstract specification of the synchronizer, with
   refinement of `KmsRtpSynchronizer`. (`PtsArithmetic` and
   `StatsRowsReproducible` are now proved.)

## 9. Not modelled

- Logging, GObject boilerplate and file paths.
- The stats file's format, and the row's wall-clock time, thread pointer and
  DTS.
- GStreamer buffer mapping, except for its failure outcome.
- The SRTP connection's socket and element plumbing: ports, properties,
  `set_remote_info`, `add`, the `sync_state_with_parent` pair, the request
  pads, `new_pad_cb`, `class_init` and `interface_init`. They create, configure
  and link GStreamer objects and hold no state the modelled logic reads.
- `srtpenc` and `srtpdec` themselves (library elements). They are the
  environment described in section 1.
