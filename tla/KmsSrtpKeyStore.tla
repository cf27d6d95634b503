--------------------------- MODULE KmsSrtpKeyStore ---------------------------
(***************************************************************************)
(* What the remote-key side of the SRTP connection (kmssrtpconnection.c)   *)
(* promises the SRTP decoder, without the flags, the lock or the callback  *)
(* protocol: while the connection is open the application sets the remote *)
(* key, and every SSRC the decoder has no key for is eventually given the  *)
(* caps of the key set last, once; nothing happens after the connection    *)
(* is closed.  KmsSrtpConnection implements it.                            *)
(***************************************************************************)
CONSTANTS
  Keys, Auths, Ciphers, Ssrcs,
  NoCaps,             \* no caps: srtpdec holds no key for the SSRC
  NoRemote,           \* no remote key set yet
  CapsOf(_, _, _)     \* the caps of a key, auth and cipher (NoCaps if none)

VARIABLES
  phase,    \* "before" the connection exists, "open", "closed"
  remote,   \* the remote key set last: [key, auth, cipher], or NoRemote
  keys      \* the caps srtpdec holds for each SSRC

ksVars == <<phase, remote, keys>>

RemoteCapsOf(r) == CapsOf(r.key, r.auth, r.cipher)

Init ==
  /\ phase = "before"
  /\ remote = NoRemote
  /\ keys = [s \in Ssrcs |-> NoCaps]

(* The connection is created.                                              *)
Open ==
  /\ phase = "before" /\ phase' = "open"
  /\ UNCHANGED <<remote, keys>>

(* The connection fails to be created, or is finalized.                    *)
Close ==
  /\ phase # "closed" /\ phase' = "closed"
  /\ UNCHANGED <<remote, keys>>

(* set_key (remote).                                                       *)
SetRemote(k, a, c) ==
  /\ phase = "open"
  /\ remote' = [key |-> k, auth |-> a, cipher |-> c]
  /\ UNCHANGED <<phase, keys>>

(* The decoder is given the caps of the current remote key for an SSRC it  *)
(* had none for.                                                           *)
Deliver(s) ==
  /\ phase = "open" /\ keys[s] = NoCaps
  /\ remote # NoRemote /\ RemoteCapsOf(remote) # NoCaps
  /\ keys' = [keys EXCEPT ![s] = RemoteCapsOf(remote)]
  /\ UNCHANGED <<phase, remote>>

Next ==
  \/ Open \/ Close
  \/ \E k \in Keys, a \in Auths, c \in Ciphers : SetRemote(k, a, c)
  \/ \E s \in Ssrcs : Deliver(s)

SafetySpec == Init /\ [][Next]_ksVars

Spec == SafetySpec /\ \A s \in Ssrcs : WF_ksVars(Deliver(s))

=============================================================================
