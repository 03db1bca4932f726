----------------------------- MODULE KyberSweep -----------------------------
(***************************************************************************)
(* Every coefficient in turn through both versions of the conversions and  *)
(* reductions: those of the reference and those of the accelerator.        *)
(***************************************************************************)
EXTENDS KyberCodec

VARIABLE u         \* the coefficient, -1 when nothing is swept

SweepInit == u = 0
SweepNext == u \in 0..KYBER_Q-2 /\ u' = u + 1
SweepSpec == SweepInit /\ [][SweepNext]_u

\* The residue of u in -(q-1)/2 .. (q-1)/2, as poly_reduce leaves it.
centred == barrett_reduce(u)

\* Rounded division: what the comments of poly.c and polyvec.c give for the
\* multiplications and shifts below them.
Rounded(d) == ((u * 2^d + (KYBER_Q \div 2)) \div KYBER_Q) % 2^d
Distance(x, y) == LET z == (x - y) % KYBER_Q
                  IN  IF z > KYBER_Q \div 2 THEN KYBER_Q - z ELSE z

DivisionsAgree ==
    /\ \A d \in {4, 5, 10, 11} :
         /\ compress_coeff(u, d) = Rounded(d)
         /\ compress_coeff(centred, d) = Rounded(d)
         /\ Distance(decompress_coeff(Rounded(d), d), u)
                <= (KYBER_Q + 2^d) \div 2^(d + 1)
    /\ \A d \in {4, 10} :
         /\ kyber_compress(u, d) = Rounded(d)
         /\ kyber_decompress(Rounded(d), d) = decompress_coeff(Rounded(d), d)
MessageBits ==
    /\ tomsg_bit(u) = Rounded(1) /\ tomsg_bit(centred) = Rounded(1)
    /\ u # 832 => kyber_encode1(u) = Rounded(1)
    /\ \A bit \in {0, 1} :
         poly_frommsg([i \in 1..32 |-> bit])[0] = kyber_decode1(bit)
\* The first bytes of the samplers' input are those of u; the accelerator
\* takes two or three bits a side.
SamplersAgree ==
    LET buf == [i \in 1..192 |-> IF i = 1 THEN u % 256
                                 ELSE IF i = 2 THEN u \div 256 ELSE 0]
        pairs(n) == Bit(n, 0) + 2 * Bit(n, 1) + 8 * Bit(n, 2) + 16 * Bit(n, 3)
    IN  /\ poly_cbd(buf, 3)[0] = kyber_cbd_core(u % 64)
        /\ poly_cbd(buf, 3)[1] = kyber_cbd_core(u \div 64)
        /\ poly_cbd(buf, 2)[0] = kyber_cbd_core(pairs(u % 16))

\* For every coefficient, centred or canonical: each division by a
\* multiplication is the rounded division, the accelerator's included;
\* decompression comes back to within half a step, the same on both sides;
\* the message bit is the same on both sides except at 832; and the samplers
\* count the same bits.
CodecsAgree == u >= 0 => DivisionsAgree /\ MessageBits /\ SamplersAgree

\* poly.c:202 gives the message bit as a rounded division; the accelerator's
\* kyber_encode1 is meant to be that bit.
MessageBitAgrees == u >= 0 => kyber_encode1(u) = tomsg_bit(u)

\* The int16 values that are u modulo q.
Lifts == {x \in {u + KYBER_Q * n : n \in -10..9} : x \in Int16s}
Factors == {-1659, -1, 1, 1628, 3328, u}

\* For every int16 value: both Barrett units give its residue, the reference
\* centred, the accelerator in 0..q; and for its products the two Montgomery
\* units give the same number, whose product with 2^16 is the input's residue.
ReductionsAgree ==
    u >= 0 =>
    \A x \in Lifts :
        /\ barrett_reduce(x) = centred /\ centred \in -1664..1664
        /\ kyber_barrett_pipe(x) \in {u, u + KYBER_Q} \cap 0..KYBER_Q
        /\ \A f \in Factors :
             LET m == montgomery_reduce(x * f)
             IN  /\ m \in -(KYBER_Q-1)..KYBER_Q-1
                 /\ Congruent(m * 2285, (x * f) % KYBER_Q)
                 /\ kyber_montgomery_pipe(x * f) = m
=============================================================================
