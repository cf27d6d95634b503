-------------------------- MODULE KmsSrtpConnection --------------------------
(***************************************************************************)
(* The SRTP transport connection of kms-elements (kmssrtpconnection.c):    *)
(* the remote SRTP key the connection stores for srtpdec, the local key    *)
(* it sets on srtpenc, the key callbacks srtpdec invokes from its          *)
(* streaming thread, and the latency probes it installs on its UDP pads.   *)
(*                                                                         *)
(* set_key (remote), request_remote_key_cb and collect_latency_stats hold  *)
(* the base-connection lock for all their work, so each is one atomic      *)
(* step.  set_key (local) takes no lock: its g_object_set writes the five  *)
(* srtpenc properties one after the other, one step each.                  *)
(*                                                                         *)
(* srtpdec and srtpenc are GStreamer elements, not code of this            *)
(* repository.  They appear only as the environment of the connection:     *)
(* srtpdec asks for the key of an SSRC it holds no key for and keeps the   *)
(* key it is given; it may report the soft key limit of an SSRC it holds   *)
(* a key for; srtpenc may (re)build its session from its current           *)
(* properties at any time.                                                 *)
(***************************************************************************)
EXTENDS Naturals

CONSTANTS
  Keys,      \* base64 key strings callers pass to set_key
  Auths,     \* auth values callers pass to set_key (guint)
  Ciphers,   \* cipher values callers pass to set_key (guint)
  Ssrcs,     \* SSRCs srtpdec may ask a key for
  NoKey,     \* the NULL r_key / srtpenc key before any set_key
  Default,   \* an srtpenc property still at its element default
  MaxCalls   \* bound on the calls of the connection's users

ASSUME ConnAssumption ==
  /\ Auths \subseteq Nat /\ Ciphers \subseteq Nat
  /\ NoKey \notin Keys /\ Default \notin Nat
  /\ MaxCalls \in Nat

-----------------------------------------------------------------------------
(* The tables auths[] and ciphers[]: index 0 is NULL, 1 and 2 name a       *)
(* suite, any larger index is out of range (get_str_auth/get_str_cipher).  *)
NAuths == 3     \* G_N_ELEMENTS (auths)
NCiphers == 3   \* G_N_ELEMENTS (ciphers)
StrAuthValid(a) == a < NAuths /\ a # 0
StrCipherValid(c) == c < NCiphers /\ c # 0

(* The GstBuffer holding the bytes g_base64_decode makes of key k.         *)
KeyBuffer(k) == [bytesOf |-> k]

NoCaps == [none |-> TRUE]   \* a NULL GstCaps

(* Mutant of CreateKeyCaps: the check that both names exist is dropped.   *)
CreateKeyCapsUnchecked(key, auth, cipher) ==
  [key |-> KeyBuffer(key), cipher |-> cipher, auth |-> auth]

(* create_key_caps: NULL when the auth or the cipher has no name, else     *)
(* srtp caps carrying the decoded key and the same suite for SRTP and      *)
(* SRTCP.                                                                  *)
CreateKeyCaps(key, auth, cipher) ==
  IF ~StrAuthValid(auth) \/ ~StrCipherValid(cipher) THEN NoCaps
  ELSE [key |-> KeyBuffer(key), cipher |-> cipher, auth |-> auth]

(* Caps only ever name a suite: a NULL string among the arguments of      *)
(* gst_caps_new_simple would end its field list early.                     *)
Caps == {NoCaps} \cup [key : {KeyBuffer(k) : k \in Keys},
                       cipher : {c \in Ciphers : StrCipherValid(c)},
                       auth : {a \in Auths : StrAuthValid(a)}]

(* The srtpenc properties g_object_set writes, in the order it writes them.*)
EncProps == <<"key", "rtp_cipher", "rtcp_cipher", "rtp_auth", "rtcp_auth">>
Pads == {"udpsrc_src", "udpsink_sink"}

-----------------------------------------------------------------------------
VARIABLES
  conn,          \* "init", "created", "failed" (new returned NULL), "finalized"
  r_key_set, r_key, r_auth, r_cipher, r_updated,
  enc,           \* srtpenc's property values: [property -> value]
  enc_session,   \* the properties srtpenc last built its session from
  local_set,     \* the set_key (local) in progress: its values and step
  local_calls,   \* history: the <<key, cipher, auth>> of each local set_key
  dec,           \* srtpdec: the caps it holds for each SSRC
  soft_key,      \* history: the caps an SSRC held when it hit the soft limit
  last_remote,   \* history: the values of the last set_key (remote) call
  src_probe, sink_probe,  \* the probe ids the connection keeps (0 = none)
  probes,        \* the probes installed on each pad
  next_probe,    \* the id the next installed probe gets
  ncalls

keyVars == <<r_key_set, r_key, r_auth, r_cipher, r_updated>>
encVars == <<enc, enc_session, local_set, local_calls>>
probeVars == <<src_probe, sink_probe, probes, next_probe>>
vars == <<conn, keyVars, encVars, dec, soft_key, last_remote, probeVars,
          ncalls>>

NoLocalSet == [step |-> 0]
NoRemote == [unset |-> TRUE]
EncDefaults == [key |-> NoKey, rtp_cipher |-> Default, rtcp_cipher |-> Default,
                rtp_auth |-> Default, rtcp_auth |-> Default]
EncState == [key : {NoKey} \cup {KeyBuffer(k) : k \in Keys},
             rtp_cipher : Ciphers \cup {Default},
             rtcp_cipher : Ciphers \cup {Default},
             rtp_auth : Auths \cup {Default}, rtcp_auth : Auths \cup {Default}]

TypeOK ==
  /\ conn \in {"init", "created", "failed", "finalized"}
  /\ r_key_set \in BOOLEAN /\ r_updated \in BOOLEAN
  /\ r_key \in Keys \cup {NoKey}
  /\ r_auth \in Auths \cup {0} /\ r_cipher \in Ciphers \cup {0}
  /\ enc \in EncState /\ enc_session \in EncState
  /\ local_set \in {NoLocalSet} \cup
       [step : 1..5, key : Keys, cipher : Ciphers, auth : Auths]
  /\ local_calls \subseteq Keys \X Ciphers \X Auths
  /\ dec \in [Ssrcs -> Caps] /\ soft_key \in [Ssrcs -> Caps]
  /\ src_probe \in Nat /\ sink_probe \in Nat
  /\ probes \in [Pads -> SUBSET Nat] /\ next_probe \in Nat \ {0}
  /\ last_remote \in {NoRemote} \cup [key : Keys, auth : Auths, cipher : Ciphers]
  /\ ncalls \in Nat

-----------------------------------------------------------------------------
(* The object after g_object_new: a zeroed instance (kms_srtp_connection_  *)
(* init), srtpenc/srtpdec not created yet.                                 *)
Init ==
  /\ conn = "init"
  /\ r_key_set = FALSE /\ r_updated = FALSE
  /\ r_key = NoKey /\ r_auth = 0 /\ r_cipher = 0
  /\ enc = EncDefaults /\ enc_session = EncDefaults
  /\ local_set = NoLocalSet /\ local_calls = {}
  /\ dec = [s \in Ssrcs |-> NoCaps] /\ soft_key = [s \in Ssrcs |-> NoCaps]
  /\ src_probe = 0 /\ sink_probe = 0
  /\ probes = [p \in Pads |-> {}] /\ next_probe = 1
  /\ last_remote = NoRemote
  /\ ncalls = 0

Call == ncalls < MaxCalls /\ ncalls' = ncalls + 1
Live == conn = "created"

(* kms_srtp_connection_new: when no RTP/RTCP port pair can be bound the    *)
(* object is dropped and NULL returned; otherwise both key flags are       *)
(* cleared and srtpenc/srtpdec are created with the key callbacks          *)
(* connected.                                                              *)
New ==
  /\ conn = "init"
  /\ \/ conn' = "failed" /\ UNCHANGED <<r_updated, r_key_set>>
     \/ conn' = "created" /\ r_updated' = FALSE /\ r_key_set' = FALSE
  /\ UNCHANGED <<r_key, r_auth, r_cipher, encVars, dec, soft_key,
                 last_remote, probeVars, ncalls>>

(* Mutant of SetRemoteKey: only a different key string counts as a        *)
(* change; a new auth or cipher with the same key is dropped.              *)
SetRemoteKeyKeyOnly(key, auth, cipher) ==
  LET changed == ~r_key_set \/ key # r_key IN
  /\ Live /\ local_set = NoLocalSet /\ Call
  /\ IF changed
       THEN /\ r_key' = key /\ r_auth' = auth /\ r_cipher' = cipher
            /\ r_updated' = TRUE /\ r_key_set' = TRUE
       ELSE UNCHANGED keyVars
  /\ last_remote' = [key |-> key, auth |-> auth, cipher |-> cipher]
  /\ UNCHANGED <<conn, encVars, dec, soft_key, probeVars>>

(* set_key (remote), under the connection lock: the stored key, auth and   *)
(* cipher are replaced, and r_updated / r_key_set raised, only when no key *)
(* was set yet or one of the three differs from the stored one.            *)
SetRemoteKey(key, auth, cipher) ==
  LET changed == ~r_key_set \/ key # r_key \/ r_auth # auth
                   \/ r_cipher # cipher
  IN
  /\ Live /\ local_set = NoLocalSet /\ Call
  /\ IF changed
       THEN /\ r_key' = key /\ r_auth' = auth /\ r_cipher' = cipher
            /\ r_updated' = TRUE /\ r_key_set' = TRUE
       ELSE UNCHANGED keyVars
  /\ last_remote' = [key |-> key, auth |-> auth, cipher |-> cipher]
  /\ UNCHANGED <<conn, encVars, dec, soft_key, probeVars>>

(* set_key (local), no lock: the key is base64-decoded into a buffer and   *)
(* g_object_set starts writing the srtpenc properties.                     *)
SetLocalKey(key, auth, cipher) ==
  /\ Live /\ local_set = NoLocalSet /\ Call
  /\ local_set' = [step |-> 1, key |-> key, cipher |-> cipher, auth |-> auth]
  /\ local_calls' = local_calls \cup {<<key, cipher, auth>>}
  /\ UNCHANGED <<conn, keyVars, enc, enc_session, dec, soft_key, last_remote,
                 probeVars>>

(* One property write of that g_object_set, in the order of the call:      *)
(* key, rtp-cipher, rtcp-cipher, rtp-auth, rtcp-auth.                      *)
SetEncProperty ==
  LET i     == local_set.step
      value == CASE EncProps[i] = "key" -> KeyBuffer(local_set.key)
                 [] EncProps[i] \in {"rtp_cipher", "rtcp_cipher"} ->
                      local_set.cipher
                 [] OTHER -> local_set.auth
  IN
  /\ local_set # NoLocalSet
  /\ enc' = [enc EXCEPT ![EncProps[i]] = value]
  /\ local_set' = IF i = 5 THEN NoLocalSet ELSE [local_set EXCEPT !.step = i + 1]
  /\ UNCHANGED <<conn, keyVars, enc_session, local_calls, dec, soft_key,
                 last_remote, probeVars, ncalls>>

(* srtpenc rebuilds its session from the properties it holds now.        *)
EncoderRebuild ==
  /\ Live /\ enc_session # enc
  /\ enc_session' = enc
  /\ UNCHANGED <<conn, keyVars, enc, local_set, local_calls, dec, soft_key,
                 last_remote, probeVars, ncalls>>

(* Mutant of RequestRemoteKey: the callback hands out the key only while   *)
(* r_updated is set, as if the flag guarded the key.                       *)
RequestRemoteKeyGated(s) ==
  /\ Live /\ dec[s] = NoCaps
  /\ IF ~r_key_set \/ ~r_updated
       THEN UNCHANGED <<keyVars, dec>>
       ELSE /\ r_updated' = FALSE
            /\ dec' = [dec EXCEPT ![s] = CreateKeyCaps(r_key, r_auth, r_cipher)]
            /\ UNCHANGED <<r_key_set, r_key, r_auth, r_cipher>>
  /\ UNCHANGED <<conn, encVars, soft_key, last_remote, probeVars, ncalls>>

(* srtpdec, holding no key for SSRC s, emits request-key and keeps what    *)
(* kms_srtp_connection_request_remote_key_cb returns.  The callback, under *)
(* the lock, returns NULL while no remote key is set; otherwise it clears  *)
(* r_updated and returns create_key_caps of the stored key (NULL again for *)
(* a suite with no name).                                                  *)
RequestRemoteKey(s) ==
  /\ Live /\ dec[s] = NoCaps
  /\ IF ~r_key_set
       THEN UNCHANGED <<keyVars, dec>>
       ELSE /\ r_updated' = FALSE
            /\ dec' = [dec EXCEPT ![s] = CreateKeyCaps(r_key, r_auth, r_cipher)]
            /\ UNCHANGED <<r_key_set, r_key, r_auth, r_cipher>>
  /\ UNCHANGED <<conn, encVars, soft_key, last_remote, probeVars, ncalls>>

(* srtpdec reports the soft key limit of SSRC s:                           *)
(* kms_srtp_connection_soft_key_limit_cb emits key-soft-limit and returns  *)
(* NULL, so srtpdec keeps the expiring key.                                *)
SoftKeyLimit(s) ==
  /\ Live /\ dec[s] # NoCaps /\ soft_key[s] = NoCaps
  /\ soft_key' = [soft_key EXCEPT ![s] = dec[s]]
  /\ UNCHANGED <<conn, keyVars, encVars, dec, last_remote, probeVars, ncalls>>

-----------------------------------------------------------------------------
(* kms_rtp_base_connection_remove_probe (base class): the probe with id    *)
(* is removed from the pad; id 0 names no probe.                           *)
RemoveProbe(pr, pad, id) == [pr EXCEPT ![pad] = @ \ {id}]

(* kms_srtp_transport_disable_latency_notification: both probes removed    *)
(* and both ids reset to 0.                                                *)
DisableLatencyNotification ==
  /\ probes' = RemoveProbe(RemoveProbe(probes, "udpsrc_src", src_probe),
                           "udpsink_sink", sink_probe)
  /\ src_probe' = 0 /\ sink_probe' = 0
  /\ UNCHANGED next_probe

(* Mutant of EnableLatencyStats: the old probes are not removed first.    *)
EnableLatencyStatsNoRemove ==
  /\ src_probe' = next_probe /\ sink_probe' = next_probe + 1
  /\ probes' = [probes EXCEPT !["udpsrc_src"] = @ \cup {next_probe},
                              !["udpsink_sink"] = @ \cup {next_probe + 1}]
  /\ next_probe' = next_probe + 2

(* kms_srtp_connection_enable_latency_stats: each pad's old probe is       *)
(* removed and a new one added (the meta probe on the udpsrc src pad, the  *)
(* notification probe on the udpsink sink pad), its id kept.               *)
EnableLatencyStats ==
  LET removed == RemoveProbe(RemoveProbe(probes, "udpsrc_src", src_probe),
                             "udpsink_sink", sink_probe)
  IN
  /\ src_probe' = next_probe /\ sink_probe' = next_probe + 1
  /\ probes' = [removed EXCEPT !["udpsrc_src"] = @ \cup {next_probe},
                               !["udpsink_sink"] = @ \cup {next_probe + 1}]
  /\ next_probe' = next_probe + 2

(* kms_srtp_connection_collect_latency_stats, under the lock.              *)
CollectLatencyStats(enable) ==
  /\ Live /\ Call
  /\ IF enable THEN EnableLatencyStats ELSE DisableLatencyNotification
  /\ UNCHANGED <<conn, keyVars, encVars, dec, soft_key, last_remote>>

(* kms_srtp_connection_finalize: the probes are removed, the elements and  *)
(* sockets released and r_key freed; srtpdec goes with it.                 *)
Finalize ==
  /\ Live /\ local_set = NoLocalSet /\ Call
  /\ conn' = "finalized"
  /\ DisableLatencyNotification
  /\ UNCHANGED <<keyVars, encVars, dec, soft_key, last_remote>>

-----------------------------------------------------------------------------
Next ==
  \/ New
  \/ \E k \in Keys, a \in Auths, c \in Ciphers :
       SetRemoteKey(k, a, c) \/ SetLocalKey(k, a, c)
  \/ SetEncProperty
  \/ EncoderRebuild
  \/ \E s \in Ssrcs : RequestRemoteKey(s) \/ SoftKeyLimit(s)
  \/ \E enable \in BOOLEAN : CollectLatencyStats(enable)
  \/ Finalize

(* srtpdec keeps receiving packets, so it asks again and again for the key *)
(* of an SSRC it cannot decrypt: weak fairness of each such request.       *)
Spec == Init /\ [][Next]_vars /\ \A s \in Ssrcs : WF_vars(RequestRemoteKey(s))

-----------------------------------------------------------------------------
(* The srtpenc properties one set_key (local) call writes.                 *)
EncConfig(key, cipher, auth) ==
  [key |-> KeyBuffer(key), rtp_cipher |-> cipher, rtcp_cipher |-> cipher,
   rtp_auth |-> auth, rtcp_auth |-> auth]

(* collect_latency_stats / finalize: after any sequence of enables and     *)
(* disables, each pad carries exactly the probe whose id the connection    *)
(* keeps, and none once the id is 0: no probe is leaked or lost track of.  *)
ProbesTracked ==
  /\ probes["udpsrc_src"] = {src_probe} \ {0}
  /\ probes["udpsink_sink"] = {sink_probe} \ {0}

(* The connection as the key store it offers srtpdec: created is open,   *)
(* failed or finalized is closed, the remote key is the one of the last    *)
(* set_key (remote) call, and the keys are those srtpdec holds.            *)
PhaseOf == CASE conn = "init" -> "before"
             [] conn = "created" -> "open"
             [] OTHER -> "closed"

KS == INSTANCE KmsSrtpKeyStore
        WITH phase <- PhaseOf, remote <- last_remote, keys <- dec,
             CapsOf <- CreateKeyCaps

(* set_key (remote), request_remote_key_cb, new and finalize implement the *)
(* key store: srtpdec only ever gets, once per SSRC and while the          *)
(* connection is up, the caps of the key of the last set_key (remote)      *)
(* call, whatever sequence of equal and differing calls came before; and   *)
(* an SSRC asking while a usable key is set is eventually given it.        *)
KeyStoreRefined == KS!Spec

(* set_key (local): srtpenc builds its session from the key, ciphers and   *)
(* auths of one set_key call (or from its defaults), never from a mix.     *)
EncoderSessionFromOneCall ==
  \/ enc_session = EncDefaults
  \/ \E call \in local_calls : enc_session = EncConfig(call[1], call[2], call[3])

=============================================================================
