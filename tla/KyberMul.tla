------------------------------ MODULE KyberMul ------------------------------
(***************************************************************************)
(* A sum of K products of polynomials, computed side by side by the C      *)
(* reference (polyvec.c, poly.c, ntt.c) and by the accelerator             *)
(* (kyber_ntt_core.v, kyber_pwma_local.v and the passes of                 *)
(* kyber512_core_fsm.v between them), one layer, product or pass a step.   *)
(* The products are p[0]*p[K] + .. + p[K-1]*p[2K-1].  With keygen the sum  *)
(* stays in the transformed domain and p[2K], also transformed, is added:  *)
(* the public key.  Without, it is transformed back, as in encryption and  *)
(* decryption.                                                             *)
(***************************************************************************)
EXTENDS KyberNtt

CONSTANTS K, Inputs
ASSUME KAssumption == K \in 2..4
Slots == 0..2*K
ASSUME InputsAssumption ==
    Inputs \subseteq [Slots -> [Coeffs -> -(KYBER_Q-1)..KYBER_Q-1]]

VARIABLES
    keygen,    \* which of the two computations
    input,     \* the polynomials given
    pc,        \* the pass both are in
    layer,     \* layers of the transform done
    term,      \* products added
    p, r,      \* the reference's polynomials and its accumulator
    hp, hr     \* the accelerator's
mulVars == <<keygen, input, pc, layer, term, p, r, hp, hr>>

Zero == [j \in Coeffs |-> 0]
canonical(f) == [j \in Coeffs |-> canonical_modq12(f[j])]

MulInit ==
    /\ keygen \in BOOLEAN
    /\ input \in Inputs
    /\ pc = "ntt" /\ layer = 0 /\ term = 0
    /\ p = input /\ r = Zero
    /\ hp = [s \in Slots |-> canonical(input[s])] /\ hr = Zero

\* The sequence of len: 128 .. 2 forwards, 2 .. 128 backwards.
NttLen(n) == <<128, 64, 32, 16, 8, 4, 2>>[n + 1]
InvLen(n) == NttLen(6 - n)

ntt ==
    /\ pc = "ntt" /\ layer < 7
    /\ layer' = layer + 1
    /\ p' = [s \in Slots |-> NttLayer(p[s], NttLen(layer))]
    /\ hp' = [s \in Slots |-> HwLayer(hp[s], NttLen(layer), FALSE)]
    /\ UNCHANGED <<keygen, input, pc, term, r, hr>>

\* poly_ntt ends with a reduction.  For the public key the accelerator loads
\* its accumulator with the transformed error (S_KG_DMA_E).
reduce_ntt ==
    /\ pc = "ntt" /\ layer = 7
    /\ pc' = "acc" /\ layer' = 0
    /\ p' = [s \in Slots |-> poly_reduce(p[s])]
    /\ hr' = IF keygen THEN canonical(hp[2*K]) ELSE hr
    /\ UNCHANGED <<keygen, input, term, r, hp>>

basemul_acc ==
    /\ pc = "acc" /\ term < K
    /\ term' = term + 1
    /\ LET t == poly_basemul_montgomery(p[term], p[K + term])
       IN  r' = IF term = 0 THEN t ELSE poly_add(r, t)
    /\ hr' = [j \in Coeffs |->
                 accumulate(IF keygen \/ term > 0 THEN hr[j] ELSE 0,
                            selected(HwBasemul(hp[term], hp[K + term], j), keygen))]
    /\ UNCHANGED <<keygen, input, pc, layer, p, hp>>

reduce_acc ==
    /\ pc = "acc" /\ term = K
    /\ pc' = IF keygen THEN "tomont" ELSE "invntt"
    /\ r' = poly_reduce(r)
    /\ UNCHANGED <<keygen, input, layer, term, p, hp, hr>>

\* indcpa_keypair_derand: poly_tomont, then the error is added and the sum
\* reduced; the accelerator has done both while it accumulated.
tomont_add ==
    /\ pc = "tomont"
    /\ pc' = "done"
    /\ r' = poly_reduce(poly_add(poly_tomont(r), p[2*K]))
    /\ UNCHANGED <<keygen, input, layer, term, p, hp, hr>>

invntt ==
    /\ pc = "invntt" /\ layer < 7
    /\ layer' = layer + 1
    /\ r' = InvNttLayer(r, InvLen(layer))
    /\ hr' = HwLayer(hr, InvLen(layer), TRUE)
    /\ UNCHANGED <<keygen, input, pc, term, p, hp>>

scale ==
    /\ pc = "invntt" /\ layer = 7
    /\ pc' = "done"
    /\ r' = InvNttScale(r)
    /\ hr' = [j \in Coeffs |-> scaled_invntt(hr[j])]
    /\ UNCHANGED <<keygen, input, layer, term, p, hp>>

MulNext == ntt \/ reduce_ntt \/ basemul_acc \/ reduce_acc \/ tomont_add
           \/ invntt \/ scale
MulSpec == MulInit /\ [][MulNext]_mulVars

-----------------------------------------------------------------------------
(* What must hold *)

\* No sum that the next step of the reference stores in an int16_t leaves its
\* range: the layers of ntt add up without a reduction in between (ntt.c:88),
\* the products are added without one (polyvec.c:210).
NoOverflow ==
    \A j \in Coeffs :
        /\ pc = "ntt" /\ layer < 7 =>
             \A s \in Slots : NttSum(p[s], NttLen(layer), j) \in Int16s
        /\ pc = "acc" /\ term < K =>
             LET t == BasemulSum(p[term], p[K + term], j)
             IN  t \in Int16s /\ (term > 0 => r[j] + t \in Int16s)
        /\ pc = "tomont" => montgomery_reduce(r[j] * 1353) + p[2*K][j] \in Int16s
        /\ pc = "invntt" /\ layer < 7 => InvSum(r, InvLen(layer), j) \in Int16s

\* The accumulator of the accelerator holds residues below q after every
\* product, although a product can be q or negative (kyber_pwma_local.v:154),
\* and so does what it hands on at the end.
AccumulatorCanonical ==
    pc \in {"acc", "tomont", "done"} => \A j \in Coeffs : hr[j] \in Canonical

\* F[0] + .. + F[n-1] modulo q.
SumOf(F, n) ==
    LET sum[i \in 0..n] == IF i = 0 THEN 0 ELSE (sum[i-1] + F[i-1]) % KYBER_Q
    IN  sum[n]

\* Coefficient n of a product modulo X^256 + 1, and of the sum of products.
Summands(f, g, n, b) ==
    [i \in 0..15 |-> LET k == 16 * b + i
                     IN  f[k] * g[(n - k) % KYBER_N] * IF k <= n THEN 1 ELSE -1]
Product(f, g, n) == SumOf([b \in 0..15 |-> SumOf(Summands(f, g, n, b), 16)], 16)
SumOfProducts(n) == SumOf([s \in 0..K-1 |-> Product(input[s], input[K + s], n)], K)

\* Both end with the same residues, whatever the order of their reductions,
SameResidues ==
    pc = "done" => \A j \in Coeffs : Congruent(r[j], hr[j])

\* and without keygen they are those of the sum of products.
SameResult ==
    /\ SameResidues
    /\ pc = "done" /\ ~keygen =>
         \A j \in Coeffs : Congruent(r[j], SumOfProducts(j))
=============================================================================
