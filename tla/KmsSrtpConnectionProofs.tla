---------------------- MODULE KmsSrtpConnectionProofs -----------------------
(***************************************************************************)
(* Proofs about the SRTP connection model, for every set of keys, suites   *)
(* and SSRCs and every bound on the calls.                                 *)
(***************************************************************************)
EXTENDS KmsSrtpConnection, TLAPS

(* The stored remote key is the one of the last set_key (remote) call:     *)
(* set_key stores its values unless they equal the stored ones, so either  *)
(* way the store and the last call agree.  Before new nothing was called.  *)
RemoteInv ==
  /\ conn = "init" => last_remote = NoRemote /\ ~r_key_set
  /\ r_key_set <=> last_remote # NoRemote
  /\ r_key_set => /\ r_key = last_remote.key
                  /\ r_auth = last_remote.auth
                  /\ r_cipher = last_remote.cipher

Inv == TypeOK /\ ProbesTracked /\ RemoteInv

-----------------------------------------------------------------------------
LEMMA NoRemoteDistinct ==
  ASSUME NEW k, NEW a, NEW c
  PROVE  [key |-> k, auth |-> a, cipher |-> c] # NoRemote
  BY DEF NoRemote

LEMMA CapsType ==
  ASSUME NEW k \in Keys, NEW a \in Auths, NEW c \in Ciphers
  PROVE  CreateKeyCaps(k, a, c) \in Caps
  BY DEF CreateKeyCaps, Caps

LEMMA InitInv == Init => Inv
  <1> SUFFICES ASSUME Init PROVE Inv
    OBVIOUS
  <1>1. TypeOK
    <2>1. EncDefaults \in EncState
      BY DEF EncDefaults, EncState
    <2>2. NoCaps \in Caps
      BY DEF Caps
    <2>3. [s \in Ssrcs |-> NoCaps] \in [Ssrcs -> Caps]
      BY <2>2
    <2>4. [p \in Pads |-> {}] \in [Pads -> SUBSET Nat]
      OBVIOUS
    <2>5. /\ conn \in {"init", "created", "failed", "finalized"}
          /\ r_key_set \in BOOLEAN /\ r_updated \in BOOLEAN
          /\ r_key \in Keys \cup {NoKey}
          /\ r_auth \in Auths \cup {0} /\ r_cipher \in Ciphers \cup {0}
      BY DEF Init
    <2>6. /\ local_set \in {NoLocalSet} \cup
               [step : 1..5, key : Keys, cipher : Ciphers, auth : Auths]
          /\ local_calls \subseteq Keys \X Ciphers \X Auths
          /\ last_remote \in {NoRemote} \cup
               [key : Keys, auth : Auths, cipher : Ciphers]
      BY DEF Init
    <2>7. /\ src_probe \in Nat /\ sink_probe \in Nat
          /\ next_probe \in Nat \ {0} /\ ncalls \in Nat
      BY DEF Init
    <2>8. QED
      BY <2>1, <2>3, <2>4, <2>5, <2>6, <2>7 DEF Init, TypeOK
  <1>2. ProbesTracked
    BY DEF Init, ProbesTracked, Pads
  <1>3. RemoteInv
    BY DEF Init, RemoteInv
  <1>4. QED
    BY <1>1, <1>2, <1>3 DEF Inv

LEMMA RemoveProbeTracked ==
  ASSUME TypeOK, ProbesTracked
  PROVE  LET pr == RemoveProbe(RemoveProbe(probes, "udpsrc_src", src_probe),
                               "udpsink_sink", sink_probe)
         IN  pr = [p \in Pads |-> {}]
  BY DEF TypeOK, ProbesTracked, RemoveProbe, Pads

LEMMA NextInv == Inv /\ [Next]_vars => Inv'
  <1> SUFFICES ASSUME Inv, [Next]_vars PROVE Inv'
    OBVIOUS
  <1>. USE DEF Inv
  <1>1. CASE New
    <2>1. last_remote = NoRemote /\ ~r_key_set
      BY <1>1 DEF New, RemoteInv
    <2>2. CASE conn' = "failed" /\ UNCHANGED <<r_updated, r_key_set>>
      BY <1>1, <2>1, <2>2 DEF New, TypeOK, ProbesTracked, RemoteInv,
                              probeVars, encVars
    <2>3. CASE conn' = "created" /\ r_updated' = FALSE /\ r_key_set' = FALSE
      BY <1>1, <2>1, <2>3 DEF New, TypeOK, ProbesTracked, RemoteInv,
                              probeVars, encVars
    <2>4. QED
      BY <1>1, <2>2, <2>3 DEF New
  <1>2. ASSUME NEW k \in Keys, NEW a \in Auths, NEW c \in Ciphers,
               SetRemoteKey(k, a, c)
        PROVE  Inv'
    <2>1. TypeOK'
      <3>1. /\ r_key_set' \in BOOLEAN /\ r_updated' \in BOOLEAN
            /\ r_key' \in Keys \cup {NoKey}
            /\ r_auth' \in Auths \cup {0} /\ r_cipher' \in Ciphers \cup {0}
        BY <1>2 DEF SetRemoteKey, TypeOK, keyVars
      <3>2. last_remote' \in [key : Keys, auth : Auths, cipher : Ciphers]
        BY <1>2 DEF SetRemoteKey
      <3>3. ncalls' \in Nat
        BY <1>2 DEF SetRemoteKey, Call, TypeOK
      <3>4. QED
        BY <1>2, <3>1, <3>2, <3>3 DEF SetRemoteKey, TypeOK, encVars, probeVars
    <2>2. ProbesTracked'
      BY <1>2 DEF SetRemoteKey, ProbesTracked, probeVars
    <2>3. RemoteInv'
      BY <1>2, NoRemoteDistinct DEF SetRemoteKey, Live, RemoteInv, keyVars
    <2>4. QED
      BY <2>1, <2>2, <2>3
  <1>3. ASSUME NEW k \in Keys, NEW a \in Auths, NEW c \in Ciphers,
               SetLocalKey(k, a, c)
        PROVE  Inv'
    BY <1>3 DEF SetLocalKey, Call, TypeOK, ProbesTracked, RemoteInv, keyVars,
                probeVars
  <1>4. CASE SetEncProperty
    <2>1. PICK i \in 1..5 : i = local_set.step
      BY <1>4 DEF SetEncProperty, TypeOK, NoLocalSet
    <2>2. enc' \in EncState
      BY <1>4, <2>1 DEF SetEncProperty, TypeOK, EncState, EncProps, KeyBuffer
    <2>3. local_set' \in {NoLocalSet} \cup
            [step : 1..5, key : Keys, cipher : Ciphers, auth : Auths]
      BY <1>4, <2>1 DEF SetEncProperty, TypeOK
    <2>4. QED
      BY <1>4, <2>2, <2>3 DEF SetEncProperty, TypeOK, ProbesTracked,
                               RemoteInv, keyVars, probeVars
  <1>5. CASE EncoderRebuild
    BY <1>5 DEF EncoderRebuild, TypeOK, ProbesTracked, RemoteInv, keyVars,
                probeVars
  <1>6. ASSUME NEW s \in Ssrcs, RequestRemoteKey(s) PROVE Inv'
    <2>1. dec' \in [Ssrcs -> Caps]
      BY <1>6, CapsType DEF RequestRemoteKey, TypeOK, RemoteInv, keyVars,
                            NoRemote
    <2>2. QED
      BY <1>6, <2>1 DEF RequestRemoteKey, TypeOK, ProbesTracked, RemoteInv,
                        keyVars, encVars, probeVars
  <1>7. ASSUME NEW s \in Ssrcs, SoftKeyLimit(s) PROVE Inv'
    BY <1>7 DEF SoftKeyLimit, TypeOK, ProbesTracked, RemoteInv, keyVars,
                encVars, probeVars
  <1>8. ASSUME NEW enable \in BOOLEAN, CollectLatencyStats(enable)
        PROVE  Inv'
    <2>1. CASE enable
      <3>1. EnableLatencyStats
        BY <1>8, <2>1 DEF CollectLatencyStats
      <3>2. /\ probes' \in [Pads -> SUBSET Nat]
            /\ ProbesTracked'
        BY <3>1, RemoveProbeTracked DEF EnableLatencyStats, TypeOK, Pads,
                                         ProbesTracked
      <3>3. QED
        BY <1>8, <3>1, <3>2 DEF CollectLatencyStats, EnableLatencyStats,
                                TypeOK, RemoteInv, Call, keyVars, encVars
    <2>2. CASE ~enable
      <3>1. DisableLatencyNotification
        BY <1>8, <2>2 DEF CollectLatencyStats
      <3>2. /\ probes' \in [Pads -> SUBSET Nat]
            /\ ProbesTracked'
        BY <3>1, RemoveProbeTracked DEF DisableLatencyNotification, TypeOK,
                                         Pads, ProbesTracked
      <3>3. QED
        BY <1>8, <3>1, <3>2 DEF CollectLatencyStats,
                                DisableLatencyNotification,
                                TypeOK, RemoteInv, Call, keyVars, encVars
    <2>3. QED
      BY <2>1, <2>2
  <1>9. CASE Finalize
    <2>1. /\ probes' \in [Pads -> SUBSET Nat]
          /\ ProbesTracked'
      BY <1>9, RemoveProbeTracked DEF Finalize, DisableLatencyNotification,
                                      TypeOK, Pads, ProbesTracked
    <2>2. QED
      BY <1>9, <2>1 DEF Finalize, DisableLatencyNotification, TypeOK,
                        RemoteInv, Live, Call, keyVars, encVars
  <1>10. CASE UNCHANGED vars
    BY <1>10 DEF vars, TypeOK, ProbesTracked, RemoteInv, keyVars, encVars,
                 probeVars
  <1>11. QED
    BY <1>1, <1>2, <1>3, <1>4, <1>5, <1>6, <1>7, <1>8, <1>9, <1>10 DEF Next

(* Spec => []Inv: the SRTP connection's type, the probe bookkeeping of     *)
(* collect_latency_stats/finalize, and the agreement of the stored remote  *)
(* key with the last set_key (remote) call hold in every reachable state.  *)
THEOREM InvariantHolds == Spec => []Inv
  BY InitInv, NextInv, PTL DEF Spec

(* Every reachable state of the SRTP connection is well typed (TypeOK):    *)
(* in particular srtpdec only ever holds caps create_key_caps can build.   *)
THEOREM TypeCorrect == Spec => []TypeOK
  BY InvariantHolds, PTL DEF Inv

(* collect_latency_stats and finalize never leak or lose track of a       *)
(* latency probe, for any number of enable/disable calls.                  *)
THEOREM ProbesTrackedHolds == Spec => []ProbesTracked
  BY InvariantHolds, PTL DEF Inv

(* The key store's steps, under the refinement mapping of KS.              *)
LEMMA StepRefines == Inv /\ [Next]_vars => [KS!Next]_KS!ksVars
  <1> SUFFICES ASSUME Inv, [Next]_vars PROVE [KS!Next]_KS!ksVars
    OBVIOUS
  <1>. USE DEF Inv
  <1>1. CASE New
    <2>1. CASE conn' = "failed"
      BY <1>1, <2>1 DEF New, KS!Next, KS!Close, PhaseOf
    <2>2. CASE conn' = "created"
      BY <1>1, <2>2 DEF New, KS!Next, KS!Open, PhaseOf
    <2>3. QED
      BY <1>1, <2>1, <2>2 DEF New
  <1>2. ASSUME NEW k \in Keys, NEW a \in Auths, NEW c \in Ciphers,
               SetRemoteKey(k, a, c)
        PROVE  [KS!Next]_KS!ksVars
    <2>1. KS!SetRemote(k, a, c)
      BY <1>2 DEF SetRemoteKey, KS!SetRemote, PhaseOf, Live
    <2>2. QED
      BY <2>1 DEF KS!Next
  <1>3. ASSUME NEW s \in Ssrcs, RequestRemoteKey(s) PROVE [KS!Next]_KS!ksVars
    <2>1. CASE ~r_key_set
      BY <1>3, <2>1 DEF RequestRemoteKey, KS!ksVars, PhaseOf, keyVars
    <2>2. CASE r_key_set /\ CreateKeyCaps(r_key, r_auth, r_cipher) = NoCaps
      <3>1. dec' = dec
        BY <1>3, <2>2 DEF RequestRemoteKey, TypeOK
      <3>2. QED
        BY <1>3, <3>1 DEF RequestRemoteKey, KS!ksVars, PhaseOf
    <2>3. CASE r_key_set /\ CreateKeyCaps(r_key, r_auth, r_cipher) # NoCaps
      <3>1. /\ last_remote # NoRemote
            /\ KS!RemoteCapsOf(last_remote) = CreateKeyCaps(r_key, r_auth,
                                                           r_cipher)
        BY <2>3 DEF RemoteInv, KS!RemoteCapsOf
      <3>2. KS!Deliver(s)
        BY <1>3, <2>3, <3>1 DEF RequestRemoteKey, KS!Deliver, PhaseOf, Live
      <3>3. QED
        BY <3>2 DEF KS!Next
    <2>4. QED
      BY <2>1, <2>2, <2>3
  <1>4. CASE Finalize
    BY <1>4 DEF Finalize, KS!Next, KS!Close, PhaseOf, Live
  <1>5. CASE \/ \E k \in Keys, a \in Auths, c \in Ciphers : SetLocalKey(k, a, c)
             \/ SetEncProperty \/ EncoderRebuild
             \/ \E s \in Ssrcs : SoftKeyLimit(s)
             \/ \E enable \in BOOLEAN : CollectLatencyStats(enable)
             \/ UNCHANGED vars
    BY <1>5 DEF SetLocalKey, SetEncProperty, EncoderRebuild, SoftKeyLimit,
                CollectLatencyStats, vars, KS!ksVars, PhaseOf
  <1>6. QED
    BY <1>1, <1>2, <1>3, <1>4, <1>5 DEF Next

(* The SRTP connection implements the key store (safety part): srtpdec     *)
(* only ever gets, once per SSRC and while the connection is up, the caps  *)
(* of the last set_key (remote) call.  The liveness part, which rests on   *)
(* the fairness of srtpdec's requests, is checked by TLC.                  *)
THEOREM RefinementHolds == Spec => KS!SafetySpec
  <1>1. Init => KS!Init
    BY DEF Init, KS!Init, PhaseOf
  <1>2. QED
    BY <1>1, StepRefines, InvariantHolds, PTL DEF Spec, KS!SafetySpec

=============================================================================
