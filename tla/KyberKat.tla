------------------------------ MODULE KyberKat ------------------------------
(***************************************************************************)
(* The known-answer test of the demos (sw/apps/kyber_demo/main.c) run on   *)
(* the reference: key pair, encapsulation, perhaps one bit of the          *)
(* ciphertext flipped, decapsulation.                                      *)
(***************************************************************************)
EXTENDS KyberScheme

CONSTANTS Ks, Flips        \* values of KYBER_K, bytes that may be flipped

VARIABLE flipped
katVars == <<schemeVars, flipped>>

(* The vectors of sw/include/kyber_demo_ref.h for k = 2; ref_h is the hash   *)
(* of the public key, bytes 1569 to 1600 of ref_sk.                          *)
ref_keygen_seed ==
    <<124, 153, 53, 160, 176, 118, 148, 170, 12, 109, 16, 228, 219, 107, 26, 221,
      47, 216, 26, 37, 204, 177, 72, 3, 45, 205, 115, 153, 54, 115, 127, 45,
      181, 5, 215, 207, 173, 27, 73, 116, 153, 50, 60, 134, 134, 50, 94, 71,
      146, 242, 103, 170, 250, 63, 135, 202, 96, 208, 28, 181, 79, 41, 32, 42>>
ref_enc_seed ==
    <<235, 74, 124, 102, 239, 78, 186, 45, 219, 56, 200, 141, 139, 199, 6, 177,
      214, 57, 0, 33, 152, 23, 42, 123, 25, 66, 236, 168, 246, 192, 1, 186>>
ref_h ==
    <<80, 200, 221, 21, 42, 69, 49, 170, 181, 96, 210, 252, 124, 169, 164, 10,
      216, 175, 37, 173, 29, 208, 140, 109, 121, 175, 228, 221, 77, 30, 238, 90>>
ref_ss_enc ==
    <<180, 200, 227, 196, 17, 95, 149, 17, 242, 253, 219, 40, 140, 75, 120, 197,
      205, 124, 137, 210, 212, 211, 33, 244, 107, 78, 220, 84, 221, 240, 235, 54>>
ref_ss_dec_invalid ==
    <<238, 208, 175, 246, 232, 114, 233, 120, 92, 80, 5, 164, 57, 216, 103, 112,
      209, 62, 226, 102, 47, 70, 156, 149, 222, 207, 91, 57, 232, 40, 132, 85>>

ref_ct_0 == 82

-----------------------------------------------------------------------------
KatInit ==
    /\ k \in Ks
    /\ call = "keypair" /\ at = "start" /\ w = NoLocals
    /\ keys = <<>> /\ ct = <<>> /\ ss = <<>> /\ shared = <<>> /\ flipped = FALSE

\* ct[i] ^= 1
KatFlip(i) ==
    /\ call = "dec" /\ at = "start" /\ ~flipped
    /\ flipped' = TRUE
    /\ ct' = [ct EXCEPT ![i + 1] = IF @ % 2 = 0 THEN @ + 1 ELSE @ - 1]
    /\ UNCHANGED <<k, call, at, w, keys, ss, shared>>

KatNext ==
    \/ SchemeNext(ref_keygen_seed, ref_enc_seed) /\ UNCHANGED flipped
    \/ \E i \in Flips : KatFlip(i)

-----------------------------------------------------------------------------
\* For every KYBER_K, decapsulation gives the encapsulated key for the
\* ciphertext as it was made and another key once a bit of it is flipped,
\* whichever polynomial that bit belongs to (kem.c:161).
DecapsulationAgrees == call = "done" => (shared = ss <=> ~flipped)

\* With KYBER_K = 2 the reference computes the vectors the demos compare the
\* accelerator with: the hash of the public key, the shared key and, for the
\* first byte flipped, the key of an invalid ciphertext.
VectorsReproduced ==
    k = 2 =>
        /\ call \in {"enc", "dec", "done"} => sk_h = ref_h
        /\ call \in {"dec", "done"} => ss = ref_ss_enc
        /\ call = "done" /\ ct[1] = ref_ct_0 + 1 => shared = ref_ss_dec_invalid
=============================================================================
