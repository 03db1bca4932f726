------------------------------ MODULE KyberNtt ------------------------------
(***************************************************************************)
(* Polynomials of 256 coefficients: the transforms of kyber/ref/ntt.c and  *)
(* the loops over coefficients of poly.c, and the same layers as the       *)
(* accelerator's butterflies compute them.  A layer is given by len, the   *)
(* distance of the two coefficients a butterfly joins.                     *)
(***************************************************************************)
EXTENDS KyberReduce

KYBER_N == 256
Coeffs == 0..KYBER_N-1
Lens == {2, 4, 8, 16, 32, 64, 128}

zetas ==
    << -1044, -758, -359, -1517, 1493, 1422, 287, 202, -171, 622, 1577, 182,
      962, -1202, -1474, 1468, 573, -1325, 264, 383, -829, 1458, -1602, -130,
      -681, 1017, 732, 608, -1542, 411, -205, -1571, 1223, 652, -552, 1015,
      -1293, 1491, -282, -1544, 516, -8, -320, -666, -1618, -1162, 126, 1469,
      -853, -90, -271, 830, 107, -1421, -247, -951, -398, 961, -1508, -725,
      448, -1065, 677, -1275, -1103, 430, 555, 843, -1251, 871, 1550, 105,
      422, 587, 177, -235, -291, -460, 1574, 1653, -246, 778, 1159, -147,
      -777, 1483, -602, 1119, -1590, 644, -872, 349, 418, 329, -156, -75,
      817, 1097, 603, 610, 1322, -1285, -1465, 384, -1215, -136, 1218, -1335,
      -874, 220, -1187, -1659, -1185, -1530, -1278, 794, -1510, -854, -870, 478,
      -108, -308, 996, 991, 958, -1460, 1522, 1628 >>
zeta(k) == zetas[k + 1]

\* The first coefficient of a butterfly, and the zeta of its group: ntt counts
\* the groups up from 1, invntt down from 127, over all layers.
First(j, len) == j % (2 * len) < len
NttZeta(j, len) == zeta((128 \div len) + (j \div (2 * len)))
InvZeta(j, len) == zeta((256 \div len) - 1 - (j \div (2 * len)))

-----------------------------------------------------------------------------
(* ntt.c: what a layer computes in int, and what it stores in int16_t *)

NttSum(r, len, j) ==
    IF First(j, len) THEN r[j] + fqmul(NttZeta(j, len), r[j + len])
                     ELSE r[j - len] - fqmul(NttZeta(j, len), r[j])
NttLayer(r, len) == [j \in Coeffs |-> Int16(NttSum(r, len, j))]

InvSum(r, len, j) ==
    IF First(j, len) THEN r[j] + r[j + len] ELSE r[j] - r[j - len]
\* Mutant: the sums are not reduced.
LazyInvNttLayer(r, len) ==
    [j \in Coeffs |->
        IF First(j, len) THEN Int16(InvSum(r, len, j))
        ELSE fqmul(InvZeta(j, len), Int16(InvSum(r, len, j)))]
InvNttLayer(r, len) ==
    [j \in Coeffs |->
        IF First(j, len) THEN barrett_reduce(Int16(InvSum(r, len, j)))
        ELSE fqmul(InvZeta(j, len), Int16(InvSum(r, len, j)))]
InvNttScale(r) == [j \in Coeffs |-> fqmul(r[j], 1441)]

\* Coefficients 2i and 2i+1 are a polynomial modulo X^2 - z.
BaseZeta(j) == IF (j \div 2) % 2 = 0 THEN zeta(64 + (j \div 4))
                                     ELSE -zeta(64 + (j \div 4))
BasemulSum(a, b, j) ==
    IF j % 2 = 0
    THEN fqmul(fqmul(a[j+1], b[j+1]), BaseZeta(j)) + fqmul(a[j], b[j])
    ELSE fqmul(a[j-1], b[j]) + fqmul(a[j], b[j-1])

-----------------------------------------------------------------------------
(* poly.c *)

poly_basemul_montgomery(a, b) == [j \in Coeffs |-> Int16(BasemulSum(a, b, j))]
poly_tomont(r) == [j \in Coeffs |-> montgomery_reduce(r[j] * 1353)]
poly_reduce(r) == [j \in Coeffs |-> barrett_reduce(r[j])]
poly_add(a, b) == [j \in Coeffs |-> Int16(a[j] + b[j])]
poly_sub(a, b) == [j \in Coeffs |-> Int16(a[j] - b[j])]

-----------------------------------------------------------------------------
(* The accelerator; the transform's ROM holds the zetas modulo q, the matrix
   product's ROM as they are. *)

\* Both outputs of the butterfly that coefficient j belongs to.
Butterfly(r, len, inverse, j) ==
    LET z == (IF inverse THEN InvZeta(j, len) ELSE NttZeta(j, len)) % KYBER_Q
    IN  IF First(j, len) THEN kyber_ntt_butterfly(inverse, r[j], r[j + len], z)
                         ELSE kyber_ntt_butterfly(inverse, r[j - len], r[j], z)
HwLayer(r, len, inverse) ==
    [j \in Coeffs |-> Butterfly(r, len, inverse, j)[IF First(j, len) THEN 1 ELSE 2]]

HwBasemul(a, b, j) ==
    LET e == j - (j % 2)
    IN  kyber_basemul_pipe(a[e], a[e+1], b[e], b[e+1], BaseZeta(j))[(j % 2) + 1]
=============================================================================
