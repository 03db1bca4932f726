----------------------------- MODULE KyberKem -----------------------------
(***************************************************************************)
(* What the accelerator promises: the three operations of the reference    *)
(* implementation in kyber/ref (kem.c over indcpa.c), as functions from    *)
(* their inputs to their outputs.                                          *)
(***************************************************************************)
EXTENDS KyberTerms

CONSTANT Seeds      \* the 32-byte values the host loads as d or as m

---------------------------------------------------------------------------
(* indcpa.c *)

Secret(d, j) == Ntt(Cbd(3, Sigma(d), j))

indcpa_keypair_pk(d) ==
    [t   |-> [i \in Idx |->
                Sum({Ntt(Cbd(3, Sigma(d), K + i))} \cup
                    {Mul(A(Rho(d), i, j), Secret(d, j), TRUE) : j \in Idx})],
     rho |-> Rho(d)]

indcpa_enc(pk, m, coins) ==
    LET r(j) == Ntt(Cbd(3, coins, j)) IN
    [u |-> [i \in Idx |->
              PackU(Add(Intt(Sum({Mul(A(pk.rho, j, i), r(j), FALSE) : j \in Idx})),
                        Cbd(2, coins, K + i)))],
     v |-> PackV(AddMsg(Intt(Sum({Mul(pk.t[j], r(j), FALSE) : j \in Idx})),
                        Cbd(2, coins, 2 * K), m))]

\* The product s.u whose difference from v carries the message.
SecretTimesU(s, u) ==
    Intt(Sum({Mul(s[j], Ntt(Unpack(u[j])), FALSE) : j \in Idx}))

\* Decryption recovers m from a ciphertext that was honestly made for this
\* key, and something that is no message of the host's from any other.
Decode(v, su) ==
    LET honest(d, m) ==
            LET pk == indcpa_keypair_pk(d)
                ct == indcpa_enc(pk, m, Coins(m, H(pk)))
            IN  /\ v = Unpack(ct.v)
                /\ su = SecretTimesU([j \in Idx |-> Secret(d, j)], ct.u)
    IN  IF \E d, m \in Seeds : honest(d, m)
        THEN CHOOSE m \in Seeds : \E d \in Seeds : honest(d, m)
        ELSE <<"noise", v, su>>

indcpa_dec(ct, s) == Decode(Unpack(ct.v), SecretTimesU(s, ct.u))

---------------------------------------------------------------------------
(* kem.c *)

crypto_kem_keypair(d, z) ==
    LET pk == indcpa_keypair_pk(d) IN
    [pk |-> pk,
     sk |-> [s |-> [j \in Idx |-> Secret(d, j)], pk |-> pk, h |-> H(pk), z |-> z]]

crypto_kem_enc(pk, m) ==
    [ct |-> indcpa_enc(pk, m, Coins(m, H(pk))), ss |-> KBar(m, H(pk))]

crypto_kem_dec(ct, sk) ==
    LET m == indcpa_dec(ct, sk.s) IN
    IF indcpa_enc(sk.pk, m, Coins(m, sk.h)) = ct
    THEN KBar(m, sk.h)
    ELSE J(sk.z, ct)
===========================================================================
