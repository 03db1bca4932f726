----------------------------- MODULE KyberCodec -----------------------------
(***************************************************************************)
(* Between polynomials and bytes: compression, packing, the message, the   *)
(* two samplers (poly.c, polyvec.c, cbd.c, rej_uniform of indcpa.c) and    *)
(* the accelerator's versions (kyber_codec_blocks.v, kyber_cbd_sampler.v). *)
(* A group of shifts and ors that lays d-bit numbers end to end is         *)
(* modelled by what it does: number j has bits d*j .. d*j+d-1 of the byte  *)
(* string, the low bit of a byte first.                                    *)
(***************************************************************************)
EXTENDS KyberNtt, Sequences, EagerFunctions

Bit(v, i) == (v \div 2^i) % 2
\* f(0) + f(1)*2 + .. + f(n-1)*2^(n-1), and the number of i < n with F[i] = 1.
FromBits(f(_), n) ==
    LET v[i \in 0..n] == IF i = 0 THEN 0 ELSE v[i-1] + f(i-1) * 2^(i-1) IN v[n]
Ones(F, n) ==
    LET v[i \in 0..n] == IF i = 0 THEN 0 ELSE v[i-1] + F[i-1] IN v[n]

StreamBit(bytes, n) == Bit(bytes[(n \div 8) + 1], n % 8)
Pack(f, d) ==
    LET g == Eager(f)
        bit(n) == Bit(g[n \div d], n % d)
    IN  [b \in 1..32*d |-> FromBits(LAMBDA i : bit(8 * (b - 1) + i), 8)]
Unpack(bytes, d) ==
    [j \in Coeffs |-> FromBits(LAMBDA i : StreamBit(bytes, d * j + i), d)]

-----------------------------------------------------------------------------
(* Compression to d bits *)

\* (x * c) >> s for operands of up to 22 bits and s >= 22, in 11-bit limbs.
MulShift(x, c, s) ==
    LET L == 2048
        low == (x % L) * (c % L)
        mid == (x \div L) * (c % L) + (x % L) * (c \div L) + (low \div L)
    IN  ((x \div L) * (c \div L) + (mid \div L)) \div 2^(s - 22)

\* The representative of a centred coefficient in 0..q-1.
positive(a) == IF a < 0 THEN a + KYBER_Q ELSE a

\* The division by q, a constant to add, to multiply by and to shift by for
\* each number of bits that some KYBER_K uses.
\* Mutant: the constant added is always q / 2.
DividerHalf(d) == CASE d = 4  -> <<1664, 80635, 28>>
                    [] d = 5  -> <<1664, 40318, 27>>
                    [] d = 10 -> <<1664, 1290167, 32>>
                    [] d = 11 -> <<1664, 645084, 31>>
Divider(d) == CASE d = 4  -> <<1665, 80635, 28>>
                [] d = 5  -> <<1664, 40318, 27>>
                [] d = 10 -> <<1665, 1290167, 32>>
                [] d = 11 -> <<1664, 645084, 31>>
compress_coeff(a, d) ==
    LET c == Divider(d)
    IN  MulShift(positive(a) * 2^d + c[1], c[2], c[3]) % 2^d
decompress_coeff(t, d) == (t * KYBER_Q + 2^(d-1)) \div 2^d

poly_compress(f, d) == Pack([j \in Coeffs |-> compress_coeff(f[j], d)], d)
poly_decompress(bytes, d) ==
    LET t == Unpack(bytes, d) IN [j \in Coeffs |-> decompress_coeff(t[j], d)]

\* kyber_compress_du and _dv, kyber_decompress_du and _dv, of a canonical
\* coefficient.
kyber_compress(c, d) == MulShift(c * 2^d + 1664, 161271, 29) % 2^d
kyber_decompress(t, d) == ((t * KYBER_Q + 2^(d-1)) \div 2^d) % 4096

-----------------------------------------------------------------------------
(* Plain encodings *)

poly_tobytes(f) == Pack([j \in Coeffs |-> positive(f[j])], 12)
poly_frombytes(bytes) == Unpack(bytes, 12)

poly_frommsg(msg) == [j \in Coeffs |-> ((KYBER_Q + 1) \div 2) * StreamBit(msg, j)]
\* In uint32_t, so a negative coefficient rounds like its representative.
tomsg_bit(a) == (((2 * a + 1665) * 80635) \div 2^28) % 2
poly_tomsg(f) == Pack([j \in Coeffs |-> tomsg_bit(f[j])], 1)

kyber_encode1(c) == IF c >= 832 /\ c <= 2496 THEN 1 ELSE 0
kyber_decode1(bit) == IF bit = 1 THEN 1665 ELSE 0

-----------------------------------------------------------------------------
(* Sampling *)

\* Coefficient j: ones among the first eta of its 2*eta bits, less ones among
\* the others.
poly_cbd(buf, eta) ==
    LET ones(from) == Ones([i \in 0..eta-1 |-> StreamBit(buf, from + i)], eta)
    IN  [j \in Coeffs |-> ones(2 * eta * j) - ones(2 * eta * j + eta)]
kyber_cbd_core(din) ==
    LET sum(i) == Bit(din, i) + Bit(din, i + 1) + Bit(din, i + 2)
    IN  sum(0) - sum(3)

\* At most len coefficients from pairs of 12-bit numbers in groups of 3 bytes.
rej_uniform(len, buf) ==
    LET group(g) == 3 * (g \div 2)
        val(g) == IF g % 2 = 0
                  THEN buf[group(g) + 1] + 256 * (buf[group(g) + 2] % 16)
                  ELSE (buf[group(g) + 2] \div 16) + 16 * buf[group(g) + 3]
        ok == SelectSeq([g \in 1..2 * (Len(buf) \div 3) |-> val(g - 1)],
                        LAMBDA v : v < KYBER_Q)
    IN  SubSeq(ok, 1, IF Len(ok) < len THEN Len(ok) ELSE len)
=============================================================================
