---------------------------- MODULE KyberScheme ----------------------------
(***************************************************************************)
(* The reference implementation in kyber/ref from indcpa.c and kem.c down  *)
(* to the bytes, for KYBER_K = k in 2..4 (params.h).  The functions of     *)
(* indcpa.c and kem.c are sequences of steps over their locals w, the      *)
(* functions they call are operators.  A polyvec is a function from        *)
(* 0..k-1 to polynomials.                                                  *)
(***************************************************************************)
EXTENDS KyberCodec, Fips202

VARIABLES
    k,          \* KYBER_K
    call,       \* the function of kem.c that runs or is to be called
    at,         \* its next step
    w,          \* the locals of the call
    keys,       \* pk and sk
    ct,         \* the ciphertext, as the last encapsulation left it
    ss,         \* its shared key
    shared      \* the key the last decapsulation gave
schemeVars == <<k, call, at, w, keys, ct, ss, shared>>

\* params.h
KYBER_ETA1 == IF k = 2 THEN 3 ELSE 2
KYBER_ETA2 == 2
DU == IF k = 4 THEN 11 ELSE 10          \* POLYVECCOMPRESSEDBYTES = k * 32 * DU
DV == IF k = 4 THEN 5 ELSE 4            \* POLYCOMPRESSEDBYTES = 32 * DV
KYBER_SYMBYTES == 32
KYBER_POLYBYTES == 384
POLYVECBYTES == k * KYBER_POLYBYTES
PUBLICKEYBYTES == POLYVECBYTES + KYBER_SYMBYTES

Vec == 0..k-1
\* Bytes i*n+1 .. (i+1)*n of a string.
Chunk(bytes, i, n) == SubSeq(bytes, i * n + 1, (i + 1) * n)
Half(bytes, i) == Chunk(bytes, i, KYBER_SYMBYTES)
Concat(f(_)) ==
    LET v[i \in 0..k] == IF i = 0 THEN <<>> ELSE v[i-1] \o f(i-1) IN v[k]
EachPoly(op(_)) == Eager([i \in Vec |-> Eager(op(i))])

-----------------------------------------------------------------------------
(* Whole transforms (ntt.c, poly.c) and polyvec.c *)

Layers(op(_, _), r, lens) ==
    LET v[i \in 0..Len(lens)] ==
            IF i = 0 THEN r ELSE Eager(op(v[i-1], lens[i]))
    IN  v[Len(lens)]
poly_ntt(f) ==
    poly_reduce(Layers(NttLayer, f, <<128, 64, 32, 16, 8, 4, 2>>))
poly_invntt_tomont(f) ==
    InvNttScale(Layers(InvNttLayer, f, <<2, 4, 8, 16, 32, 64, 128>>))

polyvec_ntt(v) == EachPoly(LAMBDA i : poly_ntt(v[i]))
polyvec_invntt_tomont(v) == EachPoly(LAMBDA i : poly_invntt_tomont(v[i]))
polyvec_reduce(v) == EachPoly(LAMBDA i : poly_reduce(v[i]))
polyvec_add(a, b) == EachPoly(LAMBDA i : poly_add(a[i], b[i]))
polyvec_basemul_acc_montgomery(a, b) ==
    LET products == EachPoly(LAMBDA i : poly_basemul_montgomery(a[i], b[i]))
        acc[i \in Vec] == IF i = 0 THEN products[0]
                          ELSE Eager(poly_add(acc[i-1], products[i]))
    IN  poly_reduce(acc[k-1])

polyvec_compress(v) == Concat(LAMBDA i : poly_compress(v[i], DU))
polyvec_decompress(bytes) ==
    EachPoly(LAMBDA i : poly_decompress(Chunk(bytes, i, 32 * DU), DU))
polyvec_tobytes(v) == Concat(LAMBDA i : poly_tobytes(v[i]))
polyvec_frombytes(bytes) ==
    EachPoly(LAMBDA i : poly_frombytes(Chunk(bytes, i, KYBER_POLYBYTES)))

-----------------------------------------------------------------------------
(* The helpers of indcpa.c *)

pack_pk(v, seed) == polyvec_tobytes(v) \o seed
unpack_pk(bytes) == polyvec_frombytes(bytes)
unpack_pk_seed(bytes) == SubSeq(bytes, POLYVECBYTES + 1, PUBLICKEYBYTES)
pack_ciphertext(b, v) == polyvec_compress(b) \o poly_compress(v, DV)
unpack_ciphertext_b(c) == polyvec_decompress(c)
unpack_ciphertext_v(c) ==
    Eager(poly_decompress(SubSeq(c, 32 * DU * k + 1, Len(c)), DV))

\* The rejected numbers of the blocks read so far are made up for by further
\* blocks, read one at a time.
GEN_MATRIX_NBLOCKS == 3
RECURSIVE gen_uniform(_, _)
gen_uniform(b, coeffs) ==
    LET all == coeffs \o rej_uniform(KYBER_N - Len(coeffs), b.out)
    IN  IF Len(all) = KYBER_N THEN [n \in Coeffs |-> all[n + 1]]
        ELSE gen_uniform(shake_squeezeblocks(1, b, SHAKE128_RATE), all)
gen_entry(seed, x, y) ==
    gen_uniform(shake_squeezeblocks(GEN_MATRIX_NBLOCKS,
                                    kyber_shake128_absorb(seed, x, y),
                                    SHAKE128_RATE), <<>>)
gen_matrix(seed, transposed) ==
    EachPoly(LAMBDA i : [j \in Vec |->
        Eager(gen_entry(seed, IF transposed THEN i ELSE j,
                              IF transposed THEN j ELSE i))])

poly_getnoise(seed, nonce, eta) ==
    poly_cbd(kyber_shake256_prf(64 * eta, seed, nonce), eta)

-----------------------------------------------------------------------------
(* The steps *)

Locals == {"seed", "coins", "a", "noise", "s", "b", "v", "m", "h", "kr", "c"}
NoLocals == [x \in Locals |-> <<>>]

Goto(from, to) == at = from /\ at' = to /\ UNCHANGED k
Returns == w' = NoLocals
Halves(x, y, bytes) == (x :> Half(bytes, 0)) @@ (y :> Half(bytes, 1))
\* A step that changes nothing but the locals.
Set(changes) ==
    /\ w' = changes @@ w
    /\ UNCHANGED <<call, keys, ct, ss, shared>>

(* crypto_kem_keypair_derand around indcpa_keypair_derand *)

KeypairSeeds(coins) ==
    /\ call = "keypair" /\ Goto("start", "matrix")
    /\ Set(Halves("seed", "coins", sha3_512(Half(coins, 0) \o <<k>>)))
KeypairPack ==
    /\ call = "keypair" /\ Goto("pack", "hash")
    /\ keys' = [sk |-> polyvec_tobytes(w.s), pk |-> pack_pk(w.b, w.seed)]
    /\ UNCHANGED <<call, w, ct, ss, shared>>
KeypairHash(coins) ==
    /\ call = "keypair" /\ Goto("hash", "start") /\ call' = "enc"
    /\ keys' = [keys EXCEPT !.sk =
                    @ \o keys.pk \o sha3_256(keys.pk) \o Half(coins, 1)]
    /\ Returns
    /\ UNCHANGED <<ct, ss, shared>>

(* crypto_kem_enc_derand around indcpa_enc *)

EncHashPk(coins) ==
    /\ call = "enc" /\ Goto("start", "key")
    /\ Set([m |-> coins, h |-> sha3_256(keys.pk)])
EncKey ==
    /\ call = "enc" /\ Goto("key", "matrix")
    /\ Set(Halves("kr", "coins", sha3_512(w.m \o w.h)))
EncReturn ==
    /\ call = "enc" /\ Goto("return", "start") /\ call' = "dec"
    /\ ct' = w.c /\ ss' = w.kr
    /\ Returns
    /\ UNCHANGED <<keys, shared>>

(* crypto_kem_dec: indcpa_dec, then indcpa_enc again *)

sk_pk == SubSeq(keys.sk, POLYVECBYTES + 1, POLYVECBYTES + PUBLICKEYBYTES)
sk_h  == Half(SubSeq(keys.sk, POLYVECBYTES + PUBLICKEYBYTES + 1, Len(keys.sk)), 0)
sk_z  == Half(SubSeq(keys.sk, POLYVECBYTES + PUBLICKEYBYTES + 1, Len(keys.sk)), 1)

DecNtt ==
    /\ call = "dec" /\ Goto("start", "message")
    /\ Set([b |-> polyvec_ntt(unpack_ciphertext_b(ct)),
            v |-> unpack_ciphertext_v(ct),
            s |-> polyvec_frombytes(keys.sk)])
DecMessage ==
    /\ call = "dec" /\ Goto("message", "key")
    /\ LET mp == Eager(poly_invntt_tomont(
                     polyvec_basemul_acc_montgomery(w.s, w.b)))
       IN  Set([m |-> poly_tomsg(Eager(poly_reduce(poly_sub(w.v, mp))))])
DecKey ==
    /\ call = "dec" /\ Goto("key", "matrix")
    /\ Set(Halves("kr", "coins", sha3_512(w.m \o sk_h)))
\* Mutant: the comparison is not used.
DecAlwaysAccepts ==
    /\ call = "dec" /\ Goto("return", "start") /\ call' = "done"
    /\ shared' = w.kr
    /\ Returns
    /\ UNCHANGED <<keys, ct, ss>>
\* verify.c
verify(a, b) == IF a = b THEN 0 ELSE 1
cmov(r, x, b) == IF b = 1 THEN x ELSE r
DecSelect ==
    /\ call = "dec" /\ Goto("return", "start") /\ call' = "done"
    /\ LET fail == verify(ct, w.c)
       IN  shared' = cmov(kyber_shake256_rkprf(sk_z, ct), w.kr, 1 - fail)
    /\ Returns
    /\ UNCHANGED <<keys, ct, ss>>

(* What indcpa_keypair_derand and indcpa_enc both do *)

Encrypts == call \in {"enc", "dec"}
pk_in == IF call = "enc" THEN keys.pk ELSE sk_pk

Matrix ==
    /\ Goto("matrix", "noise")
    /\ Set([a |-> gen_matrix(IF Encrypts THEN unpack_pk_seed(pk_in) ELSE w.seed,
                             Encrypts)])
\* poly_getnoise_eta1 and _eta2 with one nonce after the other.
Noise ==
    /\ Goto("noise", "transform")
    /\ Set([noise |-> Eager([n \in 0..(IF Encrypts THEN 2 * k ELSE 2 * k - 1) |->
            Eager(poly_getnoise(w.coins, n, IF n < k \/ ~Encrypts THEN KYBER_ETA1
                                                                  ELSE KYBER_ETA2))])])
Transform ==
    /\ Goto("transform", "multiply")
    /\ Set([s |-> polyvec_ntt(w.noise)])
Multiply ==
    /\ Goto("multiply", IF Encrypts THEN "inverse" ELSE "add")
    /\ Set([b |-> EachPoly(LAMBDA i : polyvec_basemul_acc_montgomery(w.a[i], w.s)),
            v |-> IF Encrypts
                  THEN Eager(polyvec_basemul_acc_montgomery(unpack_pk(pk_in), w.s))
                  ELSE <<>>])

KeypairAdd ==
    /\ call = "keypair" /\ Goto("add", "pack")
    /\ LET e == polyvec_ntt([i \in Vec |-> w.noise[k + i]])
           product == EachPoly(LAMBDA i : poly_tomont(w.b[i]))
       IN  Set([b |-> polyvec_reduce(polyvec_add(product, e))])
EncInverse ==
    /\ Encrypts /\ Goto("inverse", "add")
    /\ Set([b |-> polyvec_invntt_tomont(w.b), v |-> Eager(poly_invntt_tomont(w.v))])
EncAdd ==
    /\ Encrypts /\ Goto("add", "pack")
    /\ LET ep == [i \in Vec |-> w.noise[k + i]]
           v == Eager(poly_add(w.v, w.noise[2 * k]))
       IN  Set([b |-> polyvec_reduce(polyvec_add(w.b, ep)),
                v |-> Eager(poly_reduce(poly_add(v, poly_frommsg(w.m))))])
EncPack ==
    /\ Encrypts /\ Goto("pack", "return")
    /\ Set([c |-> pack_ciphertext(w.b, w.v)])

SchemeNext(keygen_coins, enc_coins) ==
    \/ KeypairSeeds(keygen_coins)
    \/ KeypairAdd
    \/ KeypairPack
    \/ KeypairHash(keygen_coins)
    \/ EncHashPk(enc_coins)
    \/ EncKey
    \/ EncReturn
    \/ DecNtt
    \/ DecMessage
    \/ DecKey
    \/ DecSelect
    \/ Matrix
    \/ Noise
    \/ Transform
    \/ Multiply
    \/ EncInverse
    \/ EncAdd
    \/ EncPack
=============================================================================
