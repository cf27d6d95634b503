------------------------ MODULE MC_KmsSrtpConnection ------------------------
(* The SRTP connection with two keys, two SSRCs and auth/cipher values     *)
(* that cover a named suite, the NULL entry 0 and an out-of-range index.   *)
EXTENDS KmsSrtpConnection

CONSTANTS k1, k2, s1, s2

MC_Keys == {k1, k2}
MC_Ssrcs == {s1, s2}
=============================================================================
