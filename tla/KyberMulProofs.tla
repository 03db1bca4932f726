--------------------------- MODULE KyberMulProofs ---------------------------
(***************************************************************************)
(* What the reductions of KyberReduce compute, for every argument in the   *)
(* ranges their callers keep to; KyberMul for every K and every set of     *)
(* input polynomials: the reference overflows no int16_t, the              *)
(* accelerator's accumulator stays below q, both end with the same         *)
(* residues, and these are those of the sum of the products modulo         *)
(* X^256 + 1; and KyberSweep at every coefficient: reductions, divisions,  *)
(* message bits and samplers agree.  Ranges are written as inequalities:   *)
(* the provers enumerate an interval between two literals.                 *)
(***************************************************************************)
EXTENDS KyberMul, KyberSweep, WellFoundedInduction, TLAPS

Within(x, lo, hi) == x \in Int /\ lo <= x /\ x <= hi

LEMMA Int16sIff == ASSUME NEW x PROVE x \in Int16s <=> Within(x, -32768, 32767)
<1>1. INT16_MAX \in Int /\ INT16_MAX <= 32767 /\ INT16_MAX >= 32767
  BY SMT DEF INT16_MAX
<1> QED BY SMT, <1>1 DEF Int16s, Within

LEMMA CanonicalIff == ASSUME NEW x PROVE x \in Canonical <=> Within(x, 0, 3328)
<1>1. KYBER_Q \in Int /\ KYBER_Q <= 3329 /\ KYBER_Q >= 3329
  BY SMT DEF KYBER_Q
<1> QED BY SMT, <1>1 DEF Canonical, Within

\* int16_t arithmetic is arithmetic modulo 2^16, and exact where nothing
\* overflows.
LEMMA Int16Mod == ASSUME NEW x \in Int PROVE \E m \in Int : Int16(x) = x + 65536 * m
<1> DEFINE m == -((x + 32768) \div 65536)
<1>1. m \in Int /\ Int16(x) = x + 65536 * m
  BY SMT DEF Int16
<1> QED BY <1>1

LEMMA Int16Range == ASSUME NEW x \in Int PROVE Within(Int16(x), -32768, 32767)
BY SMT DEF Int16, Within

LEMMA Int16Exact ==
  ASSUME NEW x, Within(x, -32768, 32767) PROVE Int16(x) = x
BY SMT DEF Int16, Within

\* Congruence modulo q with the multiple made visible.
LEMMA CongruentIs ==
  ASSUME NEW x \in Int, NEW y \in Int, Congruent(x, y)
  PROVE  \E m \in Int : x = y + 3329 * m
<1> DEFINE m == (x - y) \div 3329
<1>1. m \in Int /\ x = y + 3329 * m
  BY SMT DEF Congruent, KYBER_Q
<1> HIDE DEF m
<1> QED BY <1>1

-----------------------------------------------------------------------------
(* Montgomery reduction *)

\* The quotient of the division by 2^16 is exact.
LEMMA MontgomeryExact ==
  ASSUME NEW a \in Int
  PROVE  \E n \in Int : a - Int16(Int16(a) * QINV) * KYBER_Q = 65536 * n
<1>1. PICK m1 \in Int : Int16(a) = a + 65536 * m1
  BY Int16Mod
<1>2. Int16(a) * QINV \in Int
  BY SMT, <1>1 DEF QINV
<1>3. PICK m2 \in Int : Int16(Int16(a) * QINV) = Int16(a) * QINV + 65536 * m2
  BY <1>2, Int16Mod
<1> DEFINE n == 169 * a + 11075583 * m1 - 3329 * m2
<1>4. n \in Int /\ a - Int16(Int16(a) * QINV) * KYBER_Q = 65536 * n
  BY SMT, <1>1, <1>3 DEF QINV, KYBER_Q
<1> HIDE DEF n
<1> QED BY <1>4

\* reduce.c:16: for every input below 2^15 * q the result is below q and is
\* the input divided by 2^16 modulo q; no int16_t on the way overflows.
THEOREM MontgomeryCorrect ==
  ASSUME NEW a, Within(a, -109084672, 109084671)
  PROVE  /\ Within(montgomery_reduce(a), -3328, 3328)
         /\ Congruent(65536 * montgomery_reduce(a), a)
<1> DEFINE t == Int16(Int16(a) * QINV)
<1>1. a \in Int
  BY SMT DEF Within
<1>2. Int16(a) * QINV \in Int
  BY SMT, <1>1, Int16Range DEF QINV, Within
<1>3. Within(t, -32768, 32767)
  BY SMT, <1>2, Int16Range
<1>4. PICK n \in Int : a - t * KYBER_Q = 65536 * n
  BY SMT, <1>1, MontgomeryExact
<1> HIDE DEF t
<1>5. Within(n, -3328, 3328)
  BY SMT, <1>3, <1>4 DEF KYBER_Q, Within
<1>6. (65536 * n) \div 65536 = n
  BY SMT
<1>7. montgomery_reduce(a) = n
  <2>1. Int16(n) = n
    BY SMT, <1>5, Int16Exact DEF Within
  <2> QED BY SMT, <1>4, <1>6, <2>1 DEF montgomery_reduce, t
<1>8. 65536 * n = a + 3329 * (-t) /\ -t \in Int /\ 65536 * n \in Int
  BY SMT, <1>1, <1>3, <1>4 DEF KYBER_Q, Within
<1>9. Congruent(65536 * n, a)
  <2>1. 65536 * n - a = 3329 * (-t)
    BY SMT, <1>1, <1>8
  <2> QED BY SMT, <1>1, <1>3, <2>1 DEF Congruent, KYBER_Q, Within
<1> QED BY SMT, <1>5, <1>7, <1>9

LEMMA MulQ == ASSUME NEW x \in Int PROVE kyber_mul_q_pipe(x) = 3329 * x
BY SMT DEF kyber_mul_q_pipe

\* kyber_mul_qinv_pipe: one adder on the high byte is the whole product.
LEMMA MulQinv ==
  ASSUME NEW x \in Int
  PROVE  Int16(kyber_mul_qinv_pipe(x)) = Int16(Int16(x) * QINV)
<1> DEFINE low == x % 256
           rest == x \div 256
           high == rest % 256
           top == rest \div 256
           carry == (high + 243 * low) \div 256
<1>1. /\ low \in Int /\ high \in Int /\ top \in Int /\ carry \in Int
      /\ x = low + 256 * high + 65536 * top
      /\ kyber_mul_qinv_pipe(x) = low + 256 * (high + 243 * low - 256 * carry)
  BY SMT DEF kyber_mul_qinv_pipe
<1>2. PICK m \in Int : Int16(x) = x + 65536 * m
  BY Int16Mod
<1> HIDE DEF low, high, top, carry, rest
<1> DEFINE n == low - carry + 13 * high + 3327 * top + 3327 * m
<1>3. /\ n \in Int /\ Int16(x) * QINV \in Int
      /\ kyber_mul_qinv_pipe(x) = Int16(x) * QINV + 65536 * n
  BY SMT, <1>1, <1>2 DEF QINV
<1> HIDE DEF n
<1> QED BY SMT, <1>3 DEF Int16

\* kyber_pqc_math.v:132: for every input the pipelined unit gives the number
\* that the reference's function gives.
THEOREM MontgomeryUnitsAgree ==
  ASSUME NEW a \in Int
  PROVE  kyber_montgomery_pipe(a) = montgomery_reduce(a)
<1> DEFINE t == Int16(Int16(a) * QINV)
<1>1. Int16(a) * QINV \in Int
  BY SMT, Int16Range DEF QINV, Within
<1>2. t \in Int
  BY SMT, <1>1, Int16Range DEF Within
<1> HIDE DEF t
<1>3. kyber_mul_q_pipe(t) = t * KYBER_Q
  BY SMT, <1>2, MulQ DEF KYBER_Q
<1>4. Int16(kyber_mul_qinv_pipe(a)) = t
  BY SMT, MulQinv DEF t
<1> QED BY SMT, <1>3, <1>4 DEF kyber_montgomery_pipe, montgomery_reduce, t

-----------------------------------------------------------------------------
(* Barrett reduction *)

\* reduce.c:35: the centred residue of every int16_t.
THEOREM BarrettCorrect ==
  ASSUME NEW a, Within(a, -32768, 32767)
  PROVE  Within(barrett_reduce(a), -1664, 1664) /\ Congruent(barrett_reduce(a), a)
<1> DEFINE t == (20159 * a + 33554432) \div 67108864
<1>1. a \in Int /\ t \in Int
  BY SMT DEF Within
<1>2. Within(t, -10, 10) /\ Within(a - t * KYBER_Q, -1664, 1664)
  BY SMT DEF Within, KYBER_Q
<1>3. barrett_reduce(a) = Int16(a - Int16(Int16(t) * KYBER_Q))
  BY SMT DEF barrett_reduce
<1> HIDE DEF t
<1>4. Int16(t) = t
  BY SMT, <1>2, Int16Exact DEF Within
<1>5. t * KYBER_Q \in Int
  BY SMT, <1>1 DEF KYBER_Q
<1>6. PICK m \in Int : Int16(t * KYBER_Q) = t * KYBER_Q + 65536 * m
  BY <1>5, Int16Mod
<1>7. barrett_reduce(a) = a - t * KYBER_Q
  <2>1. a - Int16(t * KYBER_Q) = (a - t * KYBER_Q) + 65536 * (-m)
    BY SMT, <1>1, <1>5, <1>6
  <2>2. Int16(a - Int16(t * KYBER_Q)) = a - t * KYBER_Q
    BY SMT, <1>2, <2>1, <1>6 DEF Int16, Within
  <2> QED BY SMT, <1>3, <1>4, <2>2
<1>8. Congruent(a - t * KYBER_Q, a)
  BY SMT, <1>1 DEF Congruent, KYBER_Q
<1> QED BY SMT, <1>2, <1>7, <1>8

\* kyber_pqc_math.v:165: the accelerator's unit, which does not round its
\* quotient, gives a residue in 0..q: q itself for the negative multiples.
THEOREM BarrettUnitCorrect ==
  ASSUME NEW a, Within(a, -32768, 32767)
  PROVE  /\ Within(kyber_barrett_pipe(a), 0, 3329)
         /\ Congruent(kyber_barrett_pipe(a), a)
<1> DEFINE t == kyber_mul_barrett_v_pipe(a)
<1>1. a \in Int /\ t \in Int
  BY SMT DEF Within, kyber_mul_barrett_v_pipe
<1>2. Within(a - 3329 * t, 0, 3329)
  BY SMT DEF Within, kyber_mul_barrett_v_pipe
<1> HIDE DEF t
<1>3. kyber_barrett_pipe(a) = Int16(a - Int16(3329 * t))
  BY SMT, <1>1, MulQ DEF kyber_barrett_pipe, t
<1>4. PICK m \in Int : Int16(3329 * t) = 3329 * t + 65536 * m
  BY <1>1, Int16Mod
<1>5. kyber_barrett_pipe(a) = a - 3329 * t
  <2>1. a - Int16(3329 * t) = (a - 3329 * t) + 65536 * (-m)
    BY SMT, <1>1, <1>4
  <2>2. Int16(a - Int16(3329 * t)) = a - 3329 * t
    BY SMT, <1>2, <2>1, <1>4 DEF Int16, Within
  <2> QED BY SMT, <1>3, <2>2
<1>6. Congruent(a - 3329 * t, a)
  BY SMT, <1>1 DEF Congruent, KYBER_Q
<1> QED BY SMT, <1>2, <1>5, <1>6

-----------------------------------------------------------------------------
(* Congruence modulo q *)

LEMMA CongruentSum ==
  ASSUME NEW x \in Int, NEW y \in Int, NEW z \in Int, NEW w \in Int,
         Congruent(x, y), Congruent(z, w)
  PROVE  Congruent(x + z, y + w) /\ Congruent(x - z, y - w)
BY SMT DEF Congruent, KYBER_Q

LEMMA CongruentTrans ==
  ASSUME NEW x \in Int, NEW y \in Int, NEW z \in Int,
         Congruent(x, y), Congruent(y, z)
  PROVE  Congruent(x, z) /\ Congruent(y, x)
BY SMT DEF Congruent, KYBER_Q

LEMMA CongruentProduct ==
  ASSUME NEW x \in Int, NEW y \in Int, NEW z \in Int, NEW w \in Int,
         Congruent(x, y), Congruent(z, w)
  PROVE  Congruent(x * z, y * w)
<1>1. PICK m \in Int : x = y + 3329 * m
  BY SMT, CongruentIs
<1>2. PICK n \in Int : z = w + 3329 * n
  BY SMT, CongruentIs
<1> DEFINE k == m * w + n * y + 3329 * (m * n)
<1>3. k \in Int /\ x * z - y * w = 3329 * k
  BY SMT, <1>1, <1>2
<1> HIDE DEF k
<1> QED BY SMT, <1>3 DEF Congruent, KYBER_Q

\* 2^16 has an inverse modulo q, 169.
LEMMA CongruentUnscale ==
  ASSUME NEW x \in Int, NEW y \in Int, Congruent(65536 * x, 65536 * y)
  PROVE  Congruent(x, y)
<1>1. PICK m \in Int : 65536 * x = 65536 * y + 3329 * m
  BY SMT, CongruentIs
<1>2. x - y = 3329 * (169 * m - 3327 * (x - y))
  BY SMT, <1>1
<1> QED BY SMT, <1>2 DEF Congruent, KYBER_Q

-----------------------------------------------------------------------------
(* Products *)

LEMMA ProductBound ==
  ASSUME NEW x, NEW y, Within(x, -32767, 32767), Within(y, -3329, 3329)
  PROVE  Within(x * y, -109081343, 109081343)
<1>1. x \in Int /\ y \in Int /\ x * y \in Int
  BY SMT DEF Within
<1>2. CASE y >= 0
  <2>1. x * y <= 32767 * y /\ -(32767 * y) <= x * y
    BY SMT, <1>1, <1>2 DEF Within
  <2> QED BY SMT, <1>1, <2>1 DEF Within
<1>3. CASE y < 0
  <2>1. 32767 * y <= x * y /\ x * y <= -(32767 * y)
    BY SMT, <1>1, <1>3 DEF Within
  <2> QED BY SMT, <1>1, <2>1 DEF Within
<1> QED BY SMT, <1>1, <1>2, <1>3

LEMMA FqmulCorrect ==
  ASSUME NEW x, NEW y, Within(x, -32767, 32767), Within(y, -3329, 3329)
  PROVE  /\ Within(fqmul(x, y), -3328, 3328)
         /\ Congruent(65536 * fqmul(x, y), x * y)
<1>1. Within(x * y, -109084672, 109084671)
  BY SMT, ProductBound DEF Within
<1> QED BY SMT, <1>1, MontgomeryCorrect DEF fqmul

\* Factors that agree modulo q have products that agree modulo q.
LEMMA FqmulAgrees ==
  ASSUME NEW x, NEW y, Within(x, -32767, 32767), Within(y, -3329, 3329),
         NEW v, NEW w, Within(v, -32767, 32767), Within(w, -3329, 3329),
         Congruent(x, v), Congruent(y, w)
  PROVE  Congruent(fqmul(x, y), fqmul(v, w))
<1> DEFINE f == fqmul(x, y)
           g == fqmul(v, w)
<1>1. /\ x \in Int /\ y \in Int /\ v \in Int /\ w \in Int
      /\ x * y \in Int /\ v * w \in Int
  BY SMT DEF Within
<1>2. f \in Int /\ Congruent(65536 * f, x * y)
  BY SMT, FqmulCorrect DEF Within
<1>3. g \in Int /\ Congruent(65536 * g, v * w)
  BY SMT, FqmulCorrect DEF Within
<1> HIDE DEF f, g
<1>4. Congruent(x * y, v * w)
  BY SMT, <1>1, CongruentProduct
<1>5. Congruent(65536 * f, 65536 * g)
  BY SMT, <1>1, <1>2, <1>3, <1>4 DEF Congruent, KYBER_Q
<1>6. Congruent(f, g)
  BY SMT, <1>2, <1>3, <1>5, CongruentUnscale
<1> QED BY SMT, <1>6 DEF f, g

\* The accelerator's Montgomery unit on a product is fqmul.
LEMMA PipeIsFqmul ==
  ASSUME NEW x \in Int, NEW y \in Int
  PROVE  kyber_montgomery_pipe(x * y) = fqmul(x, y)
<1>1. x * y \in Int
  BY SMT
<1> QED BY SMT, <1>1, MontgomeryUnitsAgree DEF fqmul

-----------------------------------------------------------------------------
(* The accelerator's units against the reference, value by value *)

\* A sum of int16_t size through the Barrett unit.
LEMMA BarrettOfSum ==
  ASSUME NEW x, Within(x, -32768, 32767)
  PROVE  /\ Within(kyber_barrett_pipe(Int16(x)), 0, 3329)
         /\ Congruent(kyber_barrett_pipe(Int16(x)), x)
<1>1. Int16(x) = x
  BY SMT, Int16Exact
<1> QED BY SMT, <1>1, BarrettUnitCorrect

\* kyber_pqc_math.v:198, forwards: both outputs are the reference's, in 0..q.
LEMMA ForwardButterfly ==
  ASSUME NEW inverse \in BOOLEAN, ~inverse,
         NEW a, NEW b, Within(a, -32767, 32767), Within(b, -32767, 32767),
         NEW v, NEW w, Within(v, 0, 3329), Within(w, 0, 3329),
         NEW z, NEW y, Within(z, -3329, 3329), Within(y, 0, 3328),
         Congruent(a, v), Congruent(b, w), Congruent(z, y)
  PROVE  LET R == kyber_ntt_butterfly(inverse, v, w, y)
         IN  /\ Within(R[1], 0, 3329) /\ Congruent(a + fqmul(z, b), R[1])
             /\ Within(R[2], 0, 3329) /\ Congruent(a - fqmul(z, b), R[2])
<1> DEFINE f == fqmul(z, b)
           g == fqmul(y, w)
           c == kyber_barrett_pipe(Int16(v + g))
           d == kyber_barrett_pipe(Int16(v - g))
<1>1. /\ a \in Int /\ b \in Int /\ v \in Int /\ w \in Int /\ y \in Int /\ z \in Int
      /\ b * z = z * b /\ w * y = y * w
  BY SMT DEF Within
<1>2. f = fqmul(b, z) /\ g = fqmul(w, y)
  BY SMT, <1>1 DEF fqmul
<1>3. Within(f, -3328, 3328) /\ Within(g, -3328, 3328) /\ Congruent(f, g)
  BY SMT, <1>2, FqmulCorrect, FqmulAgrees DEF Within
<1>4. kyber_ntt_butterfly(inverse, v, w, y) = <<c, d>>
  BY SMT, <1>1, PipeIsFqmul DEF kyber_ntt_butterfly
<1> HIDE DEF f, g
<1>5. Within(c, 0, 3329) /\ Congruent(c, v + g)
  BY SMT, <1>3, BarrettOfSum DEF Within
<1>6. Within(d, 0, 3329) /\ Congruent(d, v - g)
  BY SMT, <1>3, BarrettOfSum DEF Within
<1> HIDE DEF c, d
<1>7. Congruent(a + f, c) /\ Congruent(a - f, d)
  BY SMT, <1>1, <1>3, <1>5, <1>6 DEF Congruent, KYBER_Q, Within
<1> QED BY SMT, <1>4, <1>5, <1>6, <1>7 DEF f

\* Backwards: the sum, and the difference times zeta.
LEMMA InverseButterfly ==
  ASSUME NEW a, NEW b, Within(a, -3328, 3328), Within(b, -3328, 3328),
         NEW v, NEW w, Within(v, 0, 3329), Within(w, 0, 3329),
         NEW z, NEW y, Within(z, -3329, 3329), Within(y, 0, 3328),
         Congruent(a, v), Congruent(b, w), Congruent(z, y)
  PROVE  LET c == kyber_barrett_pipe(Int16(v + w))
             d == kyber_barrett_pipe(kyber_montgomery_pipe(y * Int16(w - v)))
         IN  /\ Within(c, 0, 3329) /\ Congruent(a + b, c)
             /\ Within(d, 0, 3329) /\ Congruent(fqmul(z, Int16(b - a)), d)
<1> DEFINE g == fqmul(y, Int16(w - v))
           f == fqmul(z, Int16(b - a))
           c == kyber_barrett_pipe(Int16(v + w))
           d == kyber_barrett_pipe(g)
<1>1. /\ a \in Int /\ b \in Int /\ v \in Int /\ w \in Int /\ y \in Int /\ z \in Int
  BY SMT DEF Within
<1>2. Int16(b - a) = b - a /\ Int16(w - v) = w - v
  BY SMT, Int16Exact DEF Within
<1>3. Within(b - a, -32767, 32767) /\ Within(w - v, -32767, 32767)
      /\ Congruent(b - a, w - v)
  BY SMT, <1>1, CongruentSum DEF Within
<1>4. f = fqmul(b - a, z) /\ g = fqmul(w - v, y)
  BY SMT, <1>1, <1>2 DEF fqmul
<1>5. Within(g, -3328, 3328) /\ Within(f, -3328, 3328) /\ Congruent(f, g)
  BY SMT, <1>3, <1>4, FqmulCorrect, FqmulAgrees DEF Within
<1>6. kyber_montgomery_pipe(y * Int16(w - v)) = g
  BY SMT, <1>1, <1>2, PipeIsFqmul
<1> HIDE DEF f, g
<1>7. Within(c, 0, 3329) /\ Congruent(c, v + w)
  BY SMT, BarrettOfSum DEF Within
<1>8. Within(d, 0, 3329) /\ Congruent(d, g)
  BY SMT, <1>5, BarrettUnitCorrect DEF Within
<1> HIDE DEF c, d
<1>9. Congruent(a + b, c) /\ Congruent(f, d)
  BY SMT, <1>1, <1>5, <1>7, <1>8 DEF Congruent, KYBER_Q, Within
<1> QED BY SMT, <1>6, <1>7, <1>8, <1>9 DEF f, c, d

\* kyber_pqc_math.v:251: the product modulo X^2 - z, coefficient 0.
LEMMA BasemulEven ==
  ASSUME NEW a0, NEW a1, NEW b0, NEW b1, NEW v0, NEW v1, NEW w0, NEW w1, NEW z,
         Within(a0, -3329, 3329), Within(a1, -3329, 3329),
         Within(b0, -3329, 3329), Within(b1, -3329, 3329),
         Within(v0, 0, 3329), Within(v1, 0, 3329),
         Within(w0, 0, 3329), Within(w1, 0, 3329), Within(z, -3329, 3329),
         Congruent(a0, v0), Congruent(a1, v1), Congruent(b0, w0), Congruent(b1, w1)
  PROVE  LET c == kyber_basemul_pipe(v0, v1, w0, w1, z)[1]
         IN  /\ Within(c, 0, 3329)
             /\ Congruent(fqmul(fqmul(a1, b1), z) + fqmul(a0, b0), c)
<1> DEFINE f00 == fqmul(a0, b0)  g00 == fqmul(v0, w0)
           f11 == fqmul(a1, b1)  g11 == fqmul(v1, w1)
           fz  == fqmul(f11, z)  gz  == fqmul(g11, z)
           c == kyber_barrett_pipe(Int16(g00 + gz))
<1>1. /\ v0 \in Int /\ v1 \in Int /\ w0 \in Int /\ w1 \in Int /\ z \in Int
      /\ Congruent(z, z)
  BY SMT DEF Within, Congruent, KYBER_Q
<1>2. /\ Within(f00, -3328, 3328) /\ Within(g00, -3328, 3328) /\ Congruent(f00, g00)
  BY SMT, FqmulCorrect, FqmulAgrees DEF Within
<1>3. /\ Within(f11, -3328, 3328) /\ Within(g11, -3328, 3328) /\ Congruent(f11, g11)
  BY SMT, FqmulCorrect, FqmulAgrees DEF Within
<1>4. kyber_basemul_pipe(v0, v1, w0, w1, z)[1] = c
  <2>1. z * g11 = g11 * z /\ g11 \in Int
    BY SMT, <1>1, <1>3 DEF Within
  <2> QED BY SMT, <1>1, <2>1, PipeIsFqmul DEF kyber_basemul_pipe
<1> HIDE DEF f00, f11, g00, g11
<1>5. /\ Within(fz, -3328, 3328) /\ Within(gz, -3328, 3328) /\ Congruent(fz, gz)
  BY SMT, <1>1, <1>3, FqmulCorrect, FqmulAgrees DEF Within
<1> HIDE DEF fz, gz
<1>6. Within(c, 0, 3329) /\ Congruent(c, g00 + gz)
  BY SMT, <1>2, <1>5, BarrettOfSum DEF Within
<1> HIDE DEF c
<1>7. Congruent(fz + f00, c)
  BY SMT, <1>2, <1>5, <1>6 DEF Congruent, KYBER_Q, Within
<1> QED BY SMT, <1>4, <1>6, <1>7 DEF fz, f11, f00

\* Coefficient 1.
LEMMA BasemulOdd ==
  ASSUME NEW a0, NEW a1, NEW b0, NEW b1, NEW v0, NEW v1, NEW w0, NEW w1, NEW z,
         Within(a0, -3329, 3329), Within(a1, -3329, 3329),
         Within(b0, -3329, 3329), Within(b1, -3329, 3329),
         Within(v0, 0, 3329), Within(v1, 0, 3329),
         Within(w0, 0, 3329), Within(w1, 0, 3329),
         Congruent(a0, v0), Congruent(a1, v1), Congruent(b0, w0), Congruent(b1, w1)
  PROVE  LET c == kyber_basemul_pipe(v0, v1, w0, w1, z)[2]
         IN  Within(c, 0, 3329) /\ Congruent(fqmul(a0, b1) + fqmul(a1, b0), c)
<1> DEFINE f01 == fqmul(a0, b1)  g01 == fqmul(v0, w1)
           f10 == fqmul(a1, b0)  g10 == fqmul(v1, w0)
           c == kyber_barrett_pipe(Int16(g01 + g10))
<1>1. v0 \in Int /\ v1 \in Int /\ w0 \in Int /\ w1 \in Int
  BY SMT DEF Within
<1>2. /\ Within(f01, -3328, 3328) /\ Within(g01, -3328, 3328) /\ Congruent(f01, g01)
  BY SMT, FqmulCorrect, FqmulAgrees DEF Within
<1>3. /\ Within(f10, -3328, 3328) /\ Within(g10, -3328, 3328) /\ Congruent(f10, g10)
  BY SMT, FqmulCorrect, FqmulAgrees DEF Within
<1>4. kyber_basemul_pipe(v0, v1, w0, w1, z)[2] = c
  BY SMT, <1>1, PipeIsFqmul DEF kyber_basemul_pipe
<1> HIDE DEF f01, f10, g01, g10
<1>5. Within(c, 0, 3329) /\ Congruent(c, g01 + g10)
  BY SMT, <1>2, <1>3, BarrettOfSum DEF Within
<1> HIDE DEF c
<1>6. Congruent(f01 + f10, c)
  BY SMT, <1>2, <1>3, <1>5 DEF Congruent, KYBER_Q, Within
<1> QED BY SMT, <1>4, <1>5, <1>6 DEF f01, f10

\* kyber_pwma_local.v:143: one addition and one subtraction are enough.
LEMMA AccumulateCorrect ==
  ASSUME NEW x, NEW y, Within(x, 0, 3328), Within(y, -3328, 3329)
  PROVE  /\ Within(accumulate(x, y), 0, 3328)
         /\ Congruent(x + y, accumulate(x, y))
BY SMT DEF accumulate, Within, Congruent, KYBER_Q

LEMMA CanonicalOf ==
  ASSUME NEW x, Within(x, -3328, 6657)
  PROVE  /\ Within(canonical_modq12(x), 0, 3328)
         /\ Congruent(canonical_modq12(x), x)
BY SMT DEF canonical_modq12, Within, Congruent, KYBER_Q

-----------------------------------------------------------------------------
(* Indices *)

LEMMA CoeffsIff == ASSUME NEW j PROVE j \in Coeffs <=> Within(j, 0, 255)
<1>1. KYBER_N \in Int /\ KYBER_N <= 256 /\ KYBER_N >= 256
  BY SMT DEF KYBER_N
<1> QED BY SMT, <1>1 DEF Coeffs, Within

LEMMA LenType == ASSUME NEW n \in 0..6 PROVE NttLen(n) \in Lens /\ InvLen(n) \in Lens
BY SMT DEF NttLen, InvLen, Lens

LEMMA ZetaRange == ASSUME NEW i \in 0..127 PROVE Within(zeta(i), -1659, 1659)
BY SMT DEF zeta, zetas, Within

LEMMA Partners ==
  ASSUME NEW len \in Lens, NEW j \in Coeffs
  PROVE  /\ First(j, len) => j + len \in Coeffs
         /\ ~First(j, len) => j - len \in Coeffs
BY SMT, CoeffsIff DEF Lens, First, Within

LEMMA ZetaIndices ==
  ASSUME NEW len \in Lens, NEW j \in Coeffs
  PROVE  /\ Within(NttZeta(j, len), -1659, 1659)
         /\ Within(InvZeta(j, len), -1659, 1659)
<1>1. Within(j, 0, 255)
  BY SMT, CoeffsIff
<1>2. (128 \div len) + (j \div (2 * len)) \in 0..127
  <2>1. Within((128 \div len) + (j \div (2 * len)), 0, 127)
    BY SMT, <1>1 DEF Lens, Within
  <2> QED BY SMT, <2>1 DEF Within
<1>3. (256 \div len) - 1 - (j \div (2 * len)) \in 0..127
  <2>1. Within((256 \div len) - 1 - (j \div (2 * len)), 0, 127)
    BY SMT, <1>1 DEF Lens, Within
  <2> QED BY SMT, <2>1 DEF Within
<1> DEFINE m == (128 \div len) + (j \div (2 * len))
           n == (256 \div len) - 1 - (j \div (2 * len))
<1>4. NttZeta(j, len) = zeta(m) /\ InvZeta(j, len) = zeta(n)
  BY Zenon DEF NttZeta, InvZeta
<1> HIDE DEF m, n
<1>5. Within(zeta(m), -1659, 1659) /\ Within(zeta(n), -1659, 1659)
  BY ONLY <1>2, <1>3, ZetaRange, SMT DEF m, n
<1> QED BY ONLY <1>4, <1>5, SMT

LEMMA BaseZetaRange == ASSUME NEW j \in Coeffs PROVE Within(BaseZeta(j), -1659, 1659)
<1>1. 64 + (j \div 4) \in 0..127
  BY SMT, CoeffsIff DEF Within
<1> QED BY SMT, <1>1, ZetaRange DEF BaseZeta, Within

-----------------------------------------------------------------------------
(* Polynomials *)

Bounded(f, lo, hi) == \A j \in Coeffs : Within(f[j], lo, hi)
Agree(f, g) == \A j \in Coeffs : Congruent(f[j], g[j])

\* A layer of the transform, stored in int16_t without a loss, and the
\* accelerator's layer, reduced: coefficient by coefficient the same residue.
LEMMA ForwardLayer ==
  ASSUME NEW inverse \in BOOLEAN, ~inverse, NEW len \in Lens, NEW n \in 0..6,
         NEW f, NEW g, Bounded(f, -(3328 * (n + 1)), 3328 * (n + 1)),
         Bounded(g, 0, 3329), Agree(f, g), NEW j \in Coeffs
  PROVE  /\ Within(NttSum(f, len, j), -(3328 * (n + 2)), 3328 * (n + 2))
         /\ Within(HwLayer(g, len, inverse)[j], 0, 3329)
         /\ Congruent(NttSum(f, len, j), HwLayer(g, len, inverse)[j])
<1> DEFINE z == NttZeta(j, len)
           y == NttZeta(j, len) % KYBER_Q
<1>1. /\ Within(z, -3329, 3329) /\ Within(y, 0, 3328) /\ Congruent(z, y)
  BY SMT, ZetaIndices DEF Within, Congruent, KYBER_Q
<1>2. Butterfly(g, len, inverse, j) =
        IF First(j, len) THEN kyber_ntt_butterfly(inverse, g[j], g[j + len], y)
                         ELSE kyber_ntt_butterfly(inverse, g[j - len], g[j], y)
  BY SMT DEF Butterfly
<1>3. HwLayer(g, len, inverse)[j]
        = Butterfly(g, len, inverse, j)[IF First(j, len) THEN 1 ELSE 2]
  BY SMT DEF HwLayer
<1>4. \A i \in Coeffs : /\ Within(f[i], -32767, 32767)
                        /\ Within(f[i], -(3328 * (n + 1)), 3328 * (n + 1))
                        /\ Within(g[i], 0, 3329) /\ Congruent(f[i], g[i])
  BY SMT DEF Bounded, Agree, Within
<1>5. CASE First(j, len)
  <2> DEFINE R == kyber_ntt_butterfly(inverse, g[j], g[j + len], y)
             p1 == fqmul(z, f[j + len])
  <2>1. j + len \in Coeffs
    BY SMT, <1>5, Partners
  <2>2. Within(R[1], 0, 3329) /\ Congruent(f[j] + p1, R[1])
    BY SMT, <1>1, <1>4, <2>1, ForwardButterfly
  <2>3. Within(p1, -3328, 3328)
    <3>1. z * f[j + len] = f[j + len] * z
      BY SMT, <1>1, <1>4, <2>1 DEF Within
    <3>2. p1 = fqmul(f[j + len], z)
      BY SMT, <3>1 DEF fqmul
    <3> QED BY SMT, <1>1, <1>4, <2>1, <3>2, FqmulCorrect
  <2>4. NttSum(f, len, j) = f[j] + p1
    BY SMT, <1>5 DEF NttSum
  <2>5. HwLayer(g, len, inverse)[j] = R[1]
    BY SMT, <1>2, <1>3, <1>5
  <2> HIDE DEF R, p1
  <2>6. Within(f[j] + p1, -(3328 * (n + 2)), 3328 * (n + 2))
    BY SMT, <1>4, <2>3 DEF Within
  <2> QED BY SMT, <2>2, <2>4, <2>5, <2>6
<1>6. CASE ~First(j, len)
  <2> DEFINE R == kyber_ntt_butterfly(inverse, g[j - len], g[j], y)
             p1 == fqmul(z, f[j])
  <2>1. j - len \in Coeffs
    BY SMT, <1>6, Partners
  <2>2. Within(R[2], 0, 3329) /\ Congruent(f[j - len] - p1, R[2])
    BY SMT, <1>1, <1>4, <2>1, ForwardButterfly
  <2>3. Within(p1, -3328, 3328)
    <3>1. z * f[j] = f[j] * z
      BY SMT, <1>1, <1>4 DEF Within
    <3>2. p1 = fqmul(f[j], z)
      BY SMT, <3>1 DEF fqmul
    <3> QED BY SMT, <1>1, <1>4, <3>2, FqmulCorrect
  <2>4. NttSum(f, len, j) = f[j - len] - p1
    BY SMT, <1>6 DEF NttSum
  <2>5. HwLayer(g, len, inverse)[j] = R[2]
    BY SMT, <1>2, <1>3, <1>6
  <2> HIDE DEF R, p1
  <2>6. Within(f[j - len] - p1, -(3328 * (n + 2)), 3328 * (n + 2))
    BY SMT, <1>4, <2>1, <2>3 DEF Within
  <2> QED BY SMT, <2>2, <2>4, <2>5, <2>6
<1> QED BY <1>5, <1>6

\* A layer of the inverse transform.
HwInverse(f, len) ==
  [j \in Coeffs |->
     IF First(j, len)
     THEN kyber_barrett_pipe(Int16(f[j] + f[j + len]))
     ELSE kyber_barrett_pipe(kyber_montgomery_pipe(
              (InvZeta(j, len) % KYBER_Q) * Int16(f[j] - f[j - len])))]

LEMMA HwInverseIs == ASSUME NEW f, NEW len PROVE HwLayer(f, len, TRUE) = HwInverse(f, len)
BY SMT DEF HwLayer, HwInverse, Butterfly, kyber_ntt_butterfly

LEMMA InverseLayer ==
  ASSUME NEW len \in Lens, NEW f, NEW g, Bounded(f, -3328, 3328), Bounded(g, 0, 3329), Agree(f, g),
         NEW j \in Coeffs
  PROVE  /\ Within(InvSum(f, len, j), -6656, 6656)
         /\ Within(InvNttLayer(f, len)[j], -3328, 3328)
         /\ Within(HwInverse(g, len)[j], 0, 3329)
         /\ Congruent(InvNttLayer(f, len)[j], HwInverse(g, len)[j])
<1> DEFINE z == InvZeta(j, len)
           y == InvZeta(j, len) % KYBER_Q
<1>1. /\ Within(z, -3329, 3329) /\ Within(y, 0, 3328) /\ Congruent(z, y)
  BY SMT, ZetaIndices DEF Within, Congruent, KYBER_Q
<1>4. \A i \in Coeffs : /\ Within(f[i], -3328, 3328)
                        /\ Within(g[i], 0, 3329) /\ Congruent(f[i], g[i])
  BY SMT DEF Bounded, Agree, Within
<1>5. CASE First(j, len)
  <2> DEFINE R == kyber_barrett_pipe(Int16(g[j] + g[j + len]))
             sum == f[j] + f[j + len]
  <2>1. j + len \in Coeffs
    BY SMT, <1>5, Partners
  <2>2. Within(R, 0, 3329) /\ Congruent(sum, R)
    <3>1. /\ Within(f[j], -3328, 3328) /\ Within(f[j + len], -3328, 3328)
          /\ Within(g[j], 0, 3329) /\ Within(g[j + len], 0, 3329)
          /\ Congruent(f[j], g[j]) /\ Congruent(f[j + len], g[j + len])
      BY SMT, <1>4, <2>1
    <3> QED BY ONLY SMT, <1>1, <3>1, InverseButterfly
  <2>3. Within(sum, -6656, 6656) /\ Int16(sum) = sum
    BY SMT, <1>4, <2>1, Int16Exact DEF Within
  <2>4. InvSum(f, len, j) = sum /\ InvNttLayer(f, len)[j] = barrett_reduce(sum)
    BY SMT, <1>5, <2>3 DEF InvSum, InvNttLayer
  <2>5. HwInverse(g, len)[j] = R
    BY SMT, <1>5 DEF HwInverse
  <2> HIDE DEF R, sum
  <2>6. Within(barrett_reduce(sum), -1664, 1664) /\ Congruent(barrett_reduce(sum), sum)
    BY SMT, <2>3, BarrettCorrect DEF Within
  <2>7. Congruent(barrett_reduce(sum), R)
    BY SMT, <2>2, <2>3, <2>6, CongruentTrans DEF Within
  <2> QED BY SMT, <2>2, <2>3, <2>4, <2>5, <2>6, <2>7 DEF Within
<1>6. CASE ~First(j, len)
  <2> DEFINE R == kyber_barrett_pipe(kyber_montgomery_pipe(y * Int16(g[j] - g[j - len])))
             diff == f[j] - f[j - len]
  <2>1. j - len \in Coeffs
    BY SMT, <1>6, Partners
  <2>2. Within(R, 0, 3329) /\ Congruent(fqmul(z, Int16(diff)), R)
    BY SMT, <1>1, <1>4, <2>1, InverseButterfly
  <2>3. Within(diff, -6656, 6656) /\ Int16(diff) = diff
    BY SMT, <1>4, <2>1, Int16Exact DEF Within
  <2>4. InvSum(f, len, j) = diff /\ InvNttLayer(f, len)[j] = fqmul(z, Int16(diff))
    BY SMT, <1>6 DEF InvSum, InvNttLayer
  <2>5. HwInverse(g, len)[j] = R
    BY SMT, <1>6 DEF HwInverse
  <2> HIDE DEF R, diff
  <2>6. Within(fqmul(z, Int16(diff)), -3328, 3328)
    <3>1. z * diff = diff * z
      BY SMT, <1>1, <2>3 DEF Within
    <3>2. fqmul(z, Int16(diff)) = fqmul(diff, z)
      BY SMT, <2>3, <3>1 DEF fqmul
    <3> QED BY SMT, <1>1, <2>3, <3>2, FqmulCorrect DEF Within
  <2> QED BY SMT, <2>2, <2>3, <2>4, <2>5, <2>6
<1> QED BY SMT, <1>5, <1>6

\* The product of two transformed polynomials.
LEMMA BasemulAgrees ==
  ASSUME NEW a, NEW b, Bounded(a, -1664, 1664), Bounded(b, -1664, 1664),
         NEW v, NEW w, Bounded(v, 0, 3329), Bounded(w, 0, 3329),
         Agree(a, v), Agree(b, w), NEW j \in Coeffs
  PROVE  /\ Within(BasemulSum(a, b, j), -6656, 6656)
         /\ Within(HwBasemul(v, w, j), 0, 3329)
         /\ Congruent(BasemulSum(a, b, j), HwBasemul(v, w, j))
<1> DEFINE z == BaseZeta(j)
<1>1. Within(z, -3329, 3329)
  BY SMT, BaseZetaRange DEF Within
<1>2. \A i \in Coeffs : /\ Within(a[i], -3329, 3329) /\ Within(b[i], -3329, 3329)
                        /\ Within(a[i], -32767, 32767)
                        /\ Within(v[i], 0, 3329) /\ Within(w[i], 0, 3329)
                        /\ Congruent(a[i], v[i]) /\ Congruent(b[i], w[i])
  BY SMT DEF Bounded, Agree, Within
<1>3. \A x, y : Within(x, -3329, 3329) /\ Within(y, -3329, 3329)
                   => Within(fqmul(x, y), -3328, 3328)
  BY SMT, FqmulCorrect DEF Within
<1>4. CASE j % 2 = 0
  <2> DEFINE R == kyber_basemul_pipe(v[j], v[j+1], w[j], w[j+1], z)
             sum == fqmul(fqmul(a[j+1], b[j+1]), z) + fqmul(a[j], b[j])
  <2>1. j + 1 \in Coeffs /\ j - (j % 2) = j /\ (j % 2) + 1 = 1
    BY SMT, <1>4, CoeffsIff DEF Within
  <2>2. HwBasemul(v, w, j) = R[1] /\ BasemulSum(a, b, j) = sum
    BY SMT, <1>4, <2>1 DEF HwBasemul, BasemulSum
  <2>3. Within(R[1], 0, 3329) /\ Congruent(sum, R[1])
    BY SMT, <1>1, <1>2, <2>1, BasemulEven
  <2>4. Within(fqmul(fqmul(a[j+1], b[j+1]), z), -3328, 3328)
    <3>1. Within(fqmul(a[j+1], b[j+1]), -3329, 3329)
      BY SMT, <1>2, <1>3, <2>1 DEF Within
    <3> QED BY SMT, <1>1, <1>3, <3>1
  <2>5. Within(fqmul(a[j], b[j]), -3328, 3328)
    BY SMT, <1>2, <1>3
  <2>6. Within(sum, -6656, 6656)
    BY SMT, <2>4, <2>5 DEF Within
  <2> QED BY SMT, <2>2, <2>3, <2>6
<1>5. CASE j % 2 = 1
  <2> DEFINE R == kyber_basemul_pipe(v[j-1], v[j], w[j-1], w[j], z)
             sum == fqmul(a[j-1], b[j]) + fqmul(a[j], b[j-1])
  <2>1. j - 1 \in Coeffs /\ j - (j % 2) = j - 1 /\ (j - 1) + 1 = j /\ (j % 2) + 1 = 2
    BY SMT, <1>5, CoeffsIff DEF Within
  <2>2. HwBasemul(v, w, j) = R[2] /\ BasemulSum(a, b, j) = sum
    BY SMT, <1>5, <2>1 DEF HwBasemul, BasemulSum
  <2>3. Within(R[2], 0, 3329) /\ Congruent(sum, R[2])
    <3>1. /\ Within(a[j-1], -3329, 3329) /\ Within(a[j], -3329, 3329)
          /\ Within(b[j-1], -3329, 3329) /\ Within(b[j], -3329, 3329)
          /\ Within(v[j-1], 0, 3329) /\ Within(v[j], 0, 3329)
          /\ Within(w[j-1], 0, 3329) /\ Within(w[j], 0, 3329)
          /\ Congruent(a[j-1], v[j-1]) /\ Congruent(a[j], v[j])
          /\ Congruent(b[j-1], w[j-1]) /\ Congruent(b[j], w[j])
      BY SMT, <1>2, <2>1
    <3> QED BY ONLY SMT, <3>1, BasemulOdd
  <2>4. /\ Within(fqmul(a[j-1], b[j]), -3328, 3328)
        /\ Within(fqmul(a[j], b[j-1]), -3328, 3328)
    BY SMT, <1>2, <1>3, <2>1
  <2>5. Within(sum, -6656, 6656)
    BY SMT, <2>4 DEF Within
  <2> QED BY SMT, <2>2, <2>3, <2>5
<1>6. j % 2 = 0 \/ j % 2 = 1
  BY SMT, CoeffsIff DEF Within
<1> QED BY <1>4, <1>5, <1>6
-----------------------------------------------------------------------------
(* The invariant *)

Control ==
    /\ keygen \in BOOLEAN
    /\ pc \in {"ntt", "acc", "tomont", "invntt", "done"}
    /\ Within(layer, 0, 7) /\ Within(term, 0, K)

\* Both sides hold the same residues; the reference's grow by q-1 a layer until
\* poly_ntt reduces them, the accelerator's are reduced by every butterfly.
Transformed ==
    \A s \in Slots :
        /\ Bounded(hp[s], 0, 3329)
        /\ Agree(p[s], hp[s])
        /\ pc = "ntt" => Bounded(p[s], -(3328 * (layer + 1)), 3328 * (layer + 1))
        /\ pc # "ntt" => Bounded(p[s], -1664, 1664)

\* The accelerator's sum already holds the error, and 2^16 times what the
\* reference will multiply by 1353 / 2^16.
KeyRelation(j) == Congruent(65536 * hr[j], 65536 * hp[2*K][j] + 1353 * r[j])

Accumulated(j) ==
    /\ pc = "ntt" => r[j] = 0 /\ hr[j] = 0
    /\ pc = "acc" => /\ Within(r[j], -(6656 * term), 6656 * term)
                     /\ Within(hr[j], 0, 3328)
                     /\ keygen => KeyRelation(j)
                     /\ ~keygen => Congruent(r[j], hr[j])
                     /\ ~keygen /\ term = 0 => hr[j] = 0
    /\ pc = "tomont" => /\ Within(r[j], -1664, 1664)
                        /\ Within(hr[j], 0, 3328)
                        /\ KeyRelation(j)
    /\ pc = "invntt" => /\ Within(r[j], -3328, 3328)
                        /\ Within(hr[j], 0, 3329)
                        /\ Congruent(r[j], hr[j])
    /\ pc = "done" => Within(hr[j], 0, 3328) /\ Congruent(r[j], hr[j])

IInv == Control /\ Transformed /\ \A j \in Coeffs : Accumulated(j)

LEMMA SlotsFacts ==
  /\ K \in Int /\ 2 <= K /\ K <= 4
  /\ 2 * K \in Slots
  /\ \A i : Within(i, 0, K) /\ i < K => i \in Slots /\ K + i \in Slots
BY SMT, KAssumption DEF Slots, Within

LEMMA InitInv == MulInit => IInv
<1> SUFFICES ASSUME MulInit PROVE IInv
  OBVIOUS
<1>1. Control
  BY SMT, SlotsFacts DEF MulInit, Control, Within
<1>2. \A s \in Slots, j \in Coeffs :
        /\ Within(input[s][j], -3328, 3328)
        /\ Within(hp[s][j], 0, 3329) /\ Congruent(input[s][j], hp[s][j])
  <2> SUFFICES ASSUME NEW s \in Slots, NEW j \in Coeffs
               PROVE  /\ Within(input[s][j], -3328, 3328)
                      /\ Within(hp[s][j], 0, 3329) /\ Congruent(input[s][j], hp[s][j])
    OBVIOUS
  <2>1. input[s][j] \in -(KYBER_Q-1)..KYBER_Q-1
    BY SMT, InputsAssumption DEF MulInit
  <2>2. KYBER_Q \in Int /\ KYBER_Q <= 3329 /\ KYBER_Q >= 3329
    BY SMT DEF KYBER_Q
  <2>3. Within(input[s][j], -3328, 3328)
    BY SMT, <2>1, <2>2 DEF Within
  <2>4. hp[s][j] = canonical_modq12(input[s][j])
    BY SMT DEF MulInit, canonical
  <2>5. /\ Within(canonical_modq12(input[s][j]), 0, 3328)
        /\ Congruent(canonical_modq12(input[s][j]), input[s][j])
    BY SMT, <2>3, CanonicalOf DEF Within
  <2> QED BY SMT, <2>3, <2>4, <2>5, CongruentTrans DEF Within, Congruent, KYBER_Q
<1>3. Transformed
  BY SMT, <1>2 DEF MulInit, Transformed, Bounded, Agree, Within
<1>4. ASSUME NEW j \in Coeffs PROVE Accumulated(j)
  BY SMT DEF MulInit, Accumulated, Zero
<1> QED BY <1>1, <1>3, <1>4 DEF IInv

-----------------------------------------------------------------------------
(* Each pass keeps it *)

LEMMA NttStep == IInv /\ ntt => IInv'
<1> SUFFICES ASSUME IInv, ntt PROVE IInv'
  OBVIOUS
<1>1. /\ Control /\ Transformed /\ \A j \in Coeffs : Accumulated(j)
      /\ pc = "ntt" /\ layer < 7 /\ layer' = layer + 1 /\ pc' = "ntt"
      /\ UNCHANGED <<keygen, term, r, hr>>
  BY DEF IInv, ntt
<1>2. layer \in 0..6 /\ NttLen(layer) \in Lens
  <2>1. layer \in 0..6
    BY SMT, <1>1 DEF Control, Within
  <2> QED BY <2>1, LenType
<1>3. \E inverse \in BOOLEAN :
        /\ ~inverse
        /\ hp' = [s \in Slots |-> HwLayer(hp[s], NttLen(layer), inverse)]
  <2> WITNESS FALSE \in BOOLEAN
  <2> QED BY DEF ntt
<1>4. PICK inverse \in BOOLEAN :
        /\ ~inverse
        /\ hp' = [s \in Slots |-> HwLayer(hp[s], NttLen(layer), inverse)]
  BY <1>3
<1>5. Control'
  BY SMT, <1>1 DEF Control, Within
<1>6. Transformed'
  <2> SUFFICES ASSUME NEW s \in Slots
               PROVE  /\ Bounded(hp'[s], 0, 3329)
                      /\ Agree(p'[s], hp'[s])
                      /\ Bounded(p'[s], -(3328 * (layer' + 1)), 3328 * (layer' + 1))
    BY <1>1 DEF Transformed
  <2>1. /\ Bounded(p[s], -(3328 * (layer + 1)), 3328 * (layer + 1))
        /\ Bounded(hp[s], 0, 3329) /\ Agree(p[s], hp[s])
    BY <1>1 DEF Transformed
  <2> SUFFICES ASSUME NEW j \in Coeffs
               PROVE  /\ Within(hp'[s][j], 0, 3329)
                      /\ Congruent(p'[s][j], hp'[s][j])
                      /\ Within(p'[s][j], -(3328 * (layer' + 1)), 3328 * (layer' + 1))
    BY DEF Bounded, Agree
  <2> DEFINE x == NttSum(p[s], NttLen(layer), j)
             y == HwLayer(hp[s], NttLen(layer), inverse)[j]
  <2>2. /\ Within(x, -(3328 * (layer + 2)), 3328 * (layer + 2))
        /\ Within(y, 0, 3329) /\ Congruent(x, y)
    BY <1>2, <1>4, <2>1, ForwardLayer
  <2>3. p'[s][j] = Int16(x) /\ hp'[s][j] = y
    BY <1>4 DEF ntt, NttLayer
  <2> HIDE DEF x, y
  <2>4. Int16(x) = x
    BY SMT, <1>1, <2>2, Int16Exact DEF Control, Within
  <2> QED BY SMT, <1>1, <2>2, <2>3, <2>4 DEF Control, Within
<1>7. ASSUME NEW j \in Coeffs PROVE Accumulated(j)'
  BY SMT, <1>1 DEF Accumulated
<1> QED BY <1>5, <1>6, <1>7 DEF IInv

LEMMA ReduceNttStep == IInv /\ reduce_ntt => IInv'
<1> SUFFICES ASSUME IInv, reduce_ntt PROVE IInv'
  OBVIOUS
<1>1. /\ Control /\ Transformed /\ \A j \in Coeffs : Accumulated(j)
      /\ pc = "ntt" /\ layer = 7 /\ pc' = "acc" /\ layer' = 0
      /\ UNCHANGED <<keygen, term, r, hp>>
  BY DEF IInv, reduce_ntt
<1>2. Control'
  BY SMT, <1>1 DEF Control, Within
<1>3. \A s \in Slots, j \in Coeffs :
        /\ Within(hp[s][j], 0, 3329) /\ Congruent(p[s][j], hp[s][j])
        /\ Within(p[s][j], -26624, 26624)
  BY SMT, <1>1 DEF Transformed, Bounded, Agree
<1>4. Transformed'
  <2> SUFFICES ASSUME NEW s \in Slots, NEW j \in Coeffs
               PROVE  /\ Within(hp[s][j], 0, 3329)
                      /\ Congruent(p'[s][j], hp[s][j])
                      /\ Within(p'[s][j], -1664, 1664)
    BY <1>1 DEF Transformed, Bounded, Agree
  <2>1. p'[s][j] = barrett_reduce(p[s][j])
    BY DEF reduce_ntt, poly_reduce
  <2>2. /\ Within(barrett_reduce(p[s][j]), -1664, 1664)
        /\ Congruent(barrett_reduce(p[s][j]), p[s][j])
    BY SMT, <1>3, BarrettCorrect DEF Within
  <2> QED BY SMT, <1>3, <2>1, <2>2, CongruentTrans DEF Within
<1>5. ASSUME NEW j \in Coeffs PROVE Accumulated(j)'
  <2>1. r'[j] = 0 /\ hr[j] = 0 /\ Within(term, 0, K)
    BY SMT, <1>1 DEF Accumulated, Control
  <2>2. CASE keygen
    <3>1. hr'[j] = canonical_modq12(hp[2*K][j])
      BY <2>2 DEF reduce_ntt, canonical
    <3>2. Within(hp[2*K][j], 0, 3329)
      BY SMT, <1>3, SlotsFacts
    <3>3. Within(hr'[j], 0, 3328) /\ Congruent(hr'[j], hp[2*K][j])
      BY SMT, <3>1, <3>2, CanonicalOf DEF Within
    <3>4. Congruent(65536 * hr'[j], 65536 * hp[2*K][j] + 1353 * r'[j])
      <4>1. PICK a \in Int : hr'[j] = hp[2*K][j] + 3329 * a
        BY SMT, <3>2, <3>3, CongruentIs DEF Within
      <4>2. 65536 * hr'[j] - (65536 * hp[2*K][j] + 1353 * r'[j]) = 3329 * (65536 * a)
        BY SMT, <2>1, <3>2, <4>1 DEF Within
      <4> QED BY SMT, <4>2 DEF Congruent, KYBER_Q
    <3> QED BY SMT, <1>1, <2>1, <2>2, <3>3, <3>4, SlotsFacts
            DEF Accumulated, KeyRelation, Within
  <2>3. CASE ~keygen
    <3>1. hr'[j] = 0
      BY <2>1, <2>3 DEF reduce_ntt
    <3> QED BY SMT, <1>1, <2>1, <2>3, <3>1, SlotsFacts
            DEF Accumulated, Within, Congruent, KYBER_Q
  <2> QED BY <2>2, <2>3
<1> QED BY <1>2, <1>4, <1>5 DEF IInv

\* The product that basemul_acc adds.
LEMMA ProductFacts ==
  ASSUME IInv, pc = "acc", term < K, NEW j \in Coeffs
  PROVE  /\ Within(BasemulSum(p[term], p[K + term], j), -6656, 6656)
         /\ Within(HwBasemul(hp[term], hp[K + term], j), 0, 3329)
         /\ Congruent(BasemulSum(p[term], p[K + term], j),
                      HwBasemul(hp[term], hp[K + term], j))
<1>1. term \in Slots /\ K + term \in Slots
  BY SMT, SlotsFacts DEF IInv, Control
<1>2. \A s \in Slots : /\ Bounded(hp[s], 0, 3329) /\ Agree(p[s], hp[s])
                       /\ Bounded(p[s], -1664, 1664)
  BY DEF IInv, Transformed
<1> QED BY <1>1, <1>2, BasemulAgrees

LEMMA BasemulStep == IInv /\ basemul_acc => IInv'
<1> SUFFICES ASSUME IInv, basemul_acc PROVE IInv'
  OBVIOUS
<1>1. /\ Control /\ Transformed /\ \A j \in Coeffs : Accumulated(j)
      /\ pc = "acc" /\ term < K /\ pc' = "acc" /\ term' = term + 1
      /\ UNCHANGED <<keygen, layer, p, hp>>
  BY DEF IInv, basemul_acc
<1>2. Control'
  BY SMT, <1>1, SlotsFacts DEF Control, Within
<1>3. Transformed'
  BY <1>1 DEF Transformed
<1>4. ASSUME NEW j \in Coeffs PROVE Accumulated(j)'
  <2> DEFINE t == BasemulSum(p[term], p[K + term], j)
             h == HwBasemul(hp[term], hp[K + term], j)
             m == kyber_montgomery_pipe(1353 * h)
  <2>1. Within(t, -6656, 6656) /\ Within(h, 0, 3329) /\ Congruent(t, h)
    BY <1>1, ProductFacts
  <2>2. r'[j] = IF term = 0 THEN Int16(t) ELSE Int16(r[j] + Int16(t))
    BY DEF basemul_acc, poly_basemul_montgomery, poly_add
  <2>3. hr'[j] = accumulate(IF keygen \/ term > 0 THEN hr[j] ELSE 0,
                            IF keygen THEN m ELSE h)
    BY DEF basemul_acc, selected
  <2>4. /\ Within(m, -3328, 3328) /\ Congruent(65536 * m, 1353 * h)
    <3>1. 1353 * h \in Int /\ Within(1353 * h, -109084672, 109084671)
      BY SMT, <2>1 DEF Within
    <3> QED BY SMT, <3>1, MontgomeryUnitsAgree, MontgomeryCorrect
  <2> HIDE DEF t, h, m
  <2>5. /\ Within(r[j], -(6656 * term), 6656 * term) /\ Within(hr[j], 0, 3328)
        /\ keygen => KeyRelation(j)
        /\ ~keygen => Congruent(r[j], hr[j])
        /\ ~keygen /\ term = 0 => hr[j] = 0
    BY SMT, <1>1 DEF Accumulated
  <2>6. Int16(t) = t
    BY SMT, <2>1, Int16Exact DEF Within
  <2>7. Within(r[j] + t, -(6656 * term'), 6656 * term')
    BY SMT, <1>1, <2>1, <2>5, SlotsFacts DEF Control, Within
  <2>8. Int16(r[j] + t) = r[j] + t
    BY SMT, <1>1, <2>7, SlotsFacts, Int16Exact DEF Control, Within
  <2>9. r'[j] = r[j] + t
    BY SMT, <1>1, <2>1, <2>2, <2>5, <2>6, <2>8 DEF Control, Within
  <2>10. term' # 0
    BY SMT, <1>1 DEF Control, Within
  <2>11. CASE keygen
    <3>1. hr'[j] = accumulate(hr[j], m)
      BY <2>3, <2>11
    <3>2. Within(hr'[j], 0, 3328) /\ Congruent(hr[j] + m, hr'[j])
      BY SMT, <2>4, <2>5, <3>1, AccumulateCorrect DEF Within
    <3>3. Within(hp[2*K][j], 0, 3329)
      BY SMT, <1>1, SlotsFacts DEF Transformed, Bounded
    <3>4. KeyRelation(j)'
      <4> DEFINE e == hp[2*K][j]
      <4>1. Congruent(65536 * hr[j], 65536 * e + 1353 * r[j])
        BY <2>5, <2>11 DEF KeyRelation
      <4>2. Congruent(65536 * hr'[j], 65536 * e + 1353 * (r[j] + t))
        <5> HIDE DEF e
        <5>1. PICK a \in Int : 65536 * hr[j] = (65536 * e + 1353 * r[j]) + 3329 * a
          BY SMT, <2>5, <3>3, <4>1, CongruentIs DEF Within, e
        <5>2. PICK b \in Int : 65536 * m = 1353 * h + 3329 * b
          BY SMT, <2>1, <2>4, CongruentIs DEF Within
        <5>3. PICK c \in Int : hr[j] + m = hr'[j] + 3329 * c
          <6>1. hr[j] + m \in Int /\ hr'[j] \in Int
            BY SMT, <2>4, <2>5, <3>2 DEF Within
          <6> QED BY SMT, <3>2, <6>1, CongruentIs
        <5>4. PICK d \in Int : t = h + 3329 * d
          BY SMT, <2>1, CongruentIs DEF Within
        <5>5. 65536 * hr'[j] - (65536 * e + 1353 * (r[j] + t))
                = 3329 * (a + b - 65536 * c - 1353 * d)
          BY SMT, <2>1, <2>4, <2>5, <3>2, <3>3, <5>1, <5>2, <5>3, <5>4 DEF Within, e
        <5> QED BY SMT, <5>5 DEF Congruent, KYBER_Q
      <4> QED BY <1>1, <2>9, <4>2 DEF KeyRelation
    <3> QED BY SMT, <1>1, <2>7, <2>9, <2>11, <3>2, <3>4 DEF Accumulated
  <2>12. CASE ~keygen
    <3>1. hr'[j] = accumulate(hr[j], h)
      BY SMT, <1>1, <2>3, <2>5, <2>12 DEF Control, Within
    <3>2. Within(hr'[j], 0, 3328) /\ Congruent(hr[j] + h, hr'[j])
      BY SMT, <2>1, <2>5, <3>1, AccumulateCorrect DEF Within
    <3>3. Congruent(r[j] + t, hr'[j])
      BY SMT, <2>1, <2>5, <2>12, <3>2 DEF Congruent, KYBER_Q, Within
    <3> QED BY SMT, <1>1, <2>7, <2>9, <2>10, <2>12, <3>2, <3>3 DEF Accumulated
  <2> QED BY <2>11, <2>12
<1> QED BY <1>2, <1>3, <1>4 DEF IInv

LEMMA ReduceAccStep == IInv /\ reduce_acc => IInv'
<1> SUFFICES ASSUME IInv, reduce_acc PROVE IInv'
  OBVIOUS
<1>1. /\ Control /\ Transformed /\ \A j \in Coeffs : Accumulated(j)
      /\ pc = "acc" /\ pc' = IF keygen THEN "tomont" ELSE "invntt"
      /\ r' = poly_reduce(r)
      /\ UNCHANGED <<keygen, layer, term, p, hp, hr>>
  BY DEF IInv, reduce_acc
<1>2. Control'
  BY SMT, <1>1 DEF Control, Within
<1>3. Transformed'
  BY SMT, <1>1 DEF Transformed
<1>4. ASSUME NEW j \in Coeffs PROVE Accumulated(j)'
  <2>1. /\ Within(r[j], -(6656 * term), 6656 * term) /\ Within(hr[j], 0, 3328)
        /\ keygen => KeyRelation(j)
        /\ ~keygen => Congruent(r[j], hr[j])
    BY SMT, <1>1 DEF Accumulated
  <2>2. Within(r[j], -26624, 26624)
    BY SMT, <1>1, <2>1, SlotsFacts DEF Control, Within
  <2>3. Within(r'[j], -1664, 1664) /\ Congruent(r'[j], r[j])
    BY SMT, <1>1, <2>2, BarrettCorrect DEF poly_reduce, Within
  <2>4. CASE keygen
    <3>1. Within(hp[2*K][j], 0, 3329)
      BY SMT, <1>1, SlotsFacts DEF Transformed, Bounded
    <3>2. KeyRelation(j)'
      <4> DEFINE e == hp[2*K][j]
      <4>1. Congruent(65536 * hr[j], 65536 * e + 1353 * r[j])
        BY <2>1, <2>4 DEF KeyRelation
      <4>2. Congruent(65536 * hr[j], 65536 * e + 1353 * r'[j])
        <5> HIDE DEF e
        <5>1. PICK a \in Int : 65536 * hr[j] = (65536 * e + 1353 * r[j]) + 3329 * a
          BY SMT, <2>1, <3>1, <4>1, CongruentIs DEF Within, e
        <5>2. PICK b \in Int : r'[j] = r[j] + 3329 * b
          BY SMT, <2>2, <2>3, CongruentIs DEF Within
        <5>3. 65536 * hr[j] - (65536 * e + 1353 * r'[j]) = 3329 * (a - 1353 * b)
          BY SMT, <2>1, <2>2, <2>3, <3>1, <5>1, <5>2 DEF Within, e
        <5> QED BY SMT, <5>3 DEF Congruent, KYBER_Q
      <4> QED BY <1>1, <4>2 DEF KeyRelation
    <3> QED BY SMT, <1>1, <2>1, <2>3, <2>4, <3>2 DEF Accumulated
  <2>5. CASE ~keygen
    <3>1. Congruent(r'[j], hr[j])
      BY SMT, <2>1, <2>3, <2>5, CongruentTrans DEF Within
    <3> QED BY SMT, <1>1, <2>1, <2>3, <2>5, <3>1 DEF Accumulated, Within
  <2> QED BY <2>4, <2>5
<1> QED BY <1>2, <1>3, <1>4 DEF IInv

\* What the reference has before its last reduction in the public key.
LEMMA TomontFacts ==
  ASSUME IInv, pc = "tomont", NEW j \in Coeffs
  PROVE  LET sum == montgomery_reduce(r[j] * 1353) + p[2*K][j]
         IN  Within(sum, -4992, 4992) /\ Congruent(sum, hr[j])
<1> DEFINE m == montgomery_reduce(r[j] * 1353)
           x == p[2*K][j]
           e == hp[2*K][j]
<1>1. /\ Within(r[j], -1664, 1664) /\ Within(hr[j], 0, 3328)
      /\ Congruent(65536 * hr[j], 65536 * e + 1353 * r[j])
  BY SMT DEF IInv, Accumulated, KeyRelation
<1>2. Within(x, -1664, 1664) /\ Within(e, 0, 3329) /\ Congruent(x, e)
  <2>1. 2 * K \in Slots
    BY SlotsFacts
  <2>2. pc # "ntt"
    OBVIOUS
  <2> QED BY <2>1, <2>2 DEF IInv, Transformed, Bounded, Agree
<1>3. Within(m, -3328, 3328) /\ Congruent(65536 * m, r[j] * 1353)
  <2>1. Within(r[j] * 1353, -109084672, 109084671)
    BY SMT, <1>1 DEF Within
  <2> QED BY SMT, <2>1, MontgomeryCorrect
<1> HIDE DEF m, x, e
<1>4. PICK a \in Int : 65536 * hr[j] = (65536 * e + 1353 * r[j]) + 3329 * a
  BY SMT, <1>1, <1>2, CongruentIs DEF Within
<1>5. PICK b \in Int : 65536 * m = r[j] * 1353 + 3329 * b
  <2> DEFINE U == 65536 * m
             v == r[j] * 1353
  <2>1. U \in Int /\ v \in Int /\ Congruent(U, v)
    BY SMT, <1>1, <1>3 DEF Within
  <2> HIDE DEF U, v
  <2>2. \E b \in Int : U = v + 3329 * b
    BY SMT, <2>1, CongruentIs
  <2> QED BY <2>2 DEF U, v
<1>6. PICK c \in Int : x = e + 3329 * c
  BY SMT, <1>2, CongruentIs DEF Within
<1>7. 65536 * (m + x) - 65536 * hr[j] = 3329 * (b - a + 65536 * c)
  BY SMT, <1>1, <1>2, <1>3, <1>4, <1>5, <1>6 DEF Within
<1>8. Congruent(65536 * (m + x), 65536 * hr[j])
  BY SMT, <1>7 DEF Congruent, KYBER_Q
<1>9. Congruent(m + x, hr[j])
  <2>1. m + x \in Int /\ hr[j] \in Int
    BY SMT, <1>1, <1>2, <1>3 DEF Within
  <2> QED BY SMT, <1>8, <2>1, CongruentUnscale
<1>10. Within(m + x, -4992, 4992)
  BY SMT, <1>2, <1>3 DEF Within
<1> QED BY <1>9, <1>10 DEF m, x

LEMMA TomontStep == IInv /\ tomont_add => IInv'
<1> SUFFICES ASSUME IInv, tomont_add PROVE IInv'
  OBVIOUS
<1>1. /\ Control /\ Transformed /\ \A j \in Coeffs : Accumulated(j)
      /\ pc = "tomont" /\ pc' = "done"
      /\ r' = poly_reduce(poly_add(poly_tomont(r), p[2*K]))
      /\ UNCHANGED <<keygen, layer, term, p, hp, hr>>
  BY DEF IInv, tomont_add
<1>2. Control'
  BY SMT, <1>1 DEF Control
<1>3. Transformed'
  BY SMT, <1>1 DEF Transformed
<1>4. ASSUME NEW j \in Coeffs PROVE Accumulated(j)'
  <2> DEFINE sum == montgomery_reduce(r[j] * 1353) + p[2*K][j]
  <2>1. Within(sum, -4992, 4992) /\ Congruent(sum, hr[j])
    BY <1>1, TomontFacts
  <2>2. r'[j] = barrett_reduce(Int16(sum))
    BY <1>1 DEF poly_reduce, poly_add, poly_tomont
  <2>3. Within(hr[j], 0, 3328)
    BY SMT, <1>1 DEF Accumulated
  <2> HIDE DEF sum
  <2>4. Int16(sum) = sum
    BY SMT, <2>1, Int16Exact DEF Within
  <2>5. Within(r'[j], -1664, 1664) /\ Congruent(r'[j], sum)
    BY SMT, <2>1, <2>2, <2>4, BarrettCorrect DEF Within
  <2>6. Congruent(r'[j], hr[j])
    BY SMT, <2>1, <2>3, <2>5, CongruentTrans DEF Within
  <2> QED BY SMT, <1>1, <2>3, <2>6 DEF Accumulated
<1> QED BY <1>2, <1>3, <1>4 DEF IInv

LEMMA InvnttStep == IInv /\ invntt => IInv'
<1> SUFFICES ASSUME IInv, invntt PROVE IInv'
  OBVIOUS
<1>1. /\ Control /\ Transformed /\ \A j \in Coeffs : Accumulated(j)
      /\ pc = "invntt" /\ layer < 7 /\ layer' = layer + 1 /\ pc' = "invntt"
      /\ r' = InvNttLayer(r, InvLen(layer))
      /\ UNCHANGED <<keygen, term, p, hp>>
  BY DEF IInv, invntt
<1>2. InvLen(layer) \in Lens
  <2>1. layer \in 0..6
    BY SMT, <1>1 DEF Control, Within
  <2> QED BY <2>1, LenType
<1>3. hr' = HwInverse(hr, InvLen(layer))
  BY HwInverseIs DEF invntt
<1>4. Control'
  BY SMT, <1>1 DEF Control, Within
<1>5. Transformed'
  BY SMT, <1>1 DEF Transformed
<1>6. Bounded(r, -3328, 3328) /\ Bounded(hr, 0, 3329) /\ Agree(r, hr)
  BY SMT, <1>1 DEF Accumulated, Bounded, Agree
<1>7. ASSUME NEW j \in Coeffs PROVE Accumulated(j)'
  <2>1. /\ Within(r'[j], -3328, 3328) /\ Within(hr'[j], 0, 3329)
        /\ Congruent(r'[j], hr'[j])
    BY <1>1, <1>2, <1>3, <1>6, InverseLayer
  <2> QED BY SMT, <1>1, <2>1 DEF Accumulated
<1> QED BY <1>4, <1>5, <1>7 DEF IInv

LEMMA ScaleStep == IInv /\ scale => IInv'
<1> SUFFICES ASSUME IInv, scale PROVE IInv'
  OBVIOUS
<1>1. /\ Control /\ Transformed /\ \A j \in Coeffs : Accumulated(j)
      /\ pc = "invntt" /\ pc' = "done"
      /\ UNCHANGED <<keygen, layer, term, p, hp>>
  BY DEF IInv, scale
<1>2. Control'
  BY SMT, <1>1 DEF Control
<1>3. Transformed'
  BY SMT, <1>1 DEF Transformed
<1>4. ASSUME NEW j \in Coeffs PROVE Accumulated(j)'
  <2> DEFINE x == r[j]
             y == hr[j]
             m == montgomery_reduce(1441 * y)
  <2>1. Within(x, -3328, 3328) /\ Within(y, 0, 3329) /\ Congruent(x, y)
    BY SMT, <1>1 DEF Accumulated
  <2>2. r'[j] = fqmul(x, 1441) /\ hr'[j] = canonical_modq12(m)
    BY DEF scale, InvNttScale, scaled_invntt
  <2> HIDE DEF x, y
  <2>3. m = fqmul(y, 1441)
    <3>1. 1441 * y = y * 1441
      BY SMT, <2>1 DEF Within
    <3> QED BY SMT, <3>1 DEF fqmul
  <2>4. /\ Within(m, -3328, 3328) /\ Within(fqmul(x, 1441), -3328, 3328)
        /\ Congruent(fqmul(x, 1441), m)
    <3>1. Congruent(1441, 1441)
      BY SMT DEF Congruent, KYBER_Q
    <3> QED BY SMT, <2>1, <2>3, <3>1, FqmulCorrect, FqmulAgrees DEF Within
  <2> HIDE DEF m
  <2>5. Within(hr'[j], 0, 3328) /\ Congruent(hr'[j], m)
    BY SMT, <2>2, <2>4, CanonicalOf DEF Within
  <2>6. Congruent(r'[j], hr'[j])
    <3> DEFINE U == fqmul(x, 1441)
    <3>1. U \in Int /\ m \in Int /\ hr'[j] \in Int
      BY SMT, <2>4, <2>5 DEF Within
    <3>2. Congruent(U, m) /\ Congruent(hr'[j], m)
      BY <2>4, <2>5
    <3>3. Congruent(U, hr'[j])
      <4> HIDE DEF U
      <4> QED BY SMT, <3>1, <3>2 DEF Congruent, KYBER_Q
    <3> QED BY <2>2, <3>3
  <2> QED BY SMT, <1>1, <2>5, <2>6 DEF Accumulated
<1> QED BY <1>2, <1>3, <1>4 DEF IInv

LEMMA Invariant == MulSpec => []IInv
<1>1. IInv /\ [MulNext]_mulVars => IInv'
  <2> SUFFICES ASSUME IInv, [MulNext]_mulVars PROVE IInv'
    OBVIOUS
  <2>1. CASE UNCHANGED mulVars
    BY <2>1 DEF mulVars, IInv, Control, Transformed, Accumulated, KeyRelation
  <2> QED BY <2>1, NttStep, ReduceNttStep, BasemulStep, ReduceAccStep, TomontStep,
             InvnttStep, ScaleStep DEF MulNext
<1> QED BY <1>1, InitInv, PTL DEF MulSpec

-----------------------------------------------------------------------------
(* What follows *)

LEMMA NothingOverflows == IInv => NoOverflow
<1> SUFFICES ASSUME IInv, NEW j \in Coeffs
    PROVE
        /\ pc = "ntt" /\ layer < 7 =>
             \A s \in Slots : NttSum(p[s], NttLen(layer), j) \in Int16s
        /\ pc = "acc" /\ term < K =>
             LET t == BasemulSum(p[term], p[K + term], j)
             IN  t \in Int16s /\ (term > 0 => r[j] + t \in Int16s)
        /\ pc = "tomont" => montgomery_reduce(r[j] * 1353) + p[2*K][j] \in Int16s
        /\ pc = "invntt" /\ layer < 7 => InvSum(r, InvLen(layer), j) \in Int16s
  BY DEF NoOverflow
<1>1. /\ Control /\ Transformed /\ \A i \in Coeffs : Accumulated(i)
  BY DEF IInv
<1>2. ASSUME pc = "ntt", layer < 7, NEW s \in Slots
      PROVE  NttSum(p[s], NttLen(layer), j) \in Int16s
  <2> DEFINE x == NttSum(p[s], NttLen(layer), j)
  <2>1. layer \in 0..6 /\ NttLen(layer) \in Lens
    <3>1. layer \in 0..6
      BY SMT, <1>1, <1>2 DEF Control, Within
    <3> QED BY <3>1, LenType
  <2>2. /\ Bounded(p[s], -(3328 * (layer + 1)), 3328 * (layer + 1))
        /\ Bounded(hp[s], 0, 3329) /\ Agree(p[s], hp[s])
    BY <1>1, <1>2 DEF Transformed
  <2>3. PICK inverse \in BOOLEAN : ~inverse
    OBVIOUS
  <2>4. Within(x, -(3328 * (layer + 2)), 3328 * (layer + 2))
    BY <2>1, <2>2, <2>3, ForwardLayer
  <2> HIDE DEF x
  <2>5. Within(x, -32768, 32767)
    BY SMT, <1>1, <1>2, <2>4 DEF Control, Within
  <2> QED BY <2>5, Int16sIff DEF x
<1>3. ASSUME pc = "acc", term < K
      PROVE  LET t == BasemulSum(p[term], p[K + term], j)
             IN  t \in Int16s /\ r[j] + t \in Int16s
  <2> DEFINE t == BasemulSum(p[term], p[K + term], j)
  <2>1. Within(t, -6656, 6656)
    BY <1>3, ProductFacts
  <2>2. Within(r[j], -(6656 * term), 6656 * term)
    BY SMT, <1>1, <1>3 DEF Accumulated
  <2> HIDE DEF t
  <2>3. Within(t, -32768, 32767) /\ Within(r[j] + t, -32768, 32767)
    BY SMT, <1>1, <1>3, <2>1, <2>2, SlotsFacts DEF Control, Within
  <2> QED BY <2>3, Int16sIff DEF t
<1>4. ASSUME pc = "tomont"
      PROVE  montgomery_reduce(r[j] * 1353) + p[2*K][j] \in Int16s
  <2> DEFINE x == montgomery_reduce(r[j] * 1353) + p[2*K][j]
  <2>1. Within(x, -4992, 4992)
    BY <1>4, TomontFacts
  <2> HIDE DEF x
  <2>2. Within(x, -32768, 32767)
    BY SMT, <2>1 DEF Within
  <2> QED BY <2>2, Int16sIff DEF x
<1>5. ASSUME pc = "invntt", layer < 7
      PROVE  InvSum(r, InvLen(layer), j) \in Int16s
  <2> DEFINE x == InvSum(r, InvLen(layer), j)
  <2>1. layer \in 0..6 /\ InvLen(layer) \in Lens
    <3>1. layer \in 0..6
      BY SMT, <1>1, <1>5 DEF Control, Within
    <3> QED BY <3>1, LenType
  <2>2. Bounded(r, -3328, 3328) /\ Bounded(hr, 0, 3329) /\ Agree(r, hr)
    BY SMT, <1>1, <1>5 DEF Accumulated, Bounded, Agree
  <2>3. Within(x, -6656, 6656)
    BY <2>1, <2>2, InverseLayer
  <2> HIDE DEF x
  <2>4. Within(x, -32768, 32767)
    BY SMT, <2>3 DEF Within
  <2> QED BY <2>4, Int16sIff DEF x
<1> QED BY <1>2, <1>3, <1>4, <1>5

\* ntt.c:88, polyvec.c:210: no layer of the transform, no sum of products and no
\* sum of the public key leaves the int16_t the reference stores it in.
THEOREM ReferenceNeverOverflows == MulSpec => []NoOverflow
BY Invariant, NothingOverflows, PTL

\* kyber_pwma_local.v:154: the accelerator's accumulator is a residue below q
\* after every product, so one addition and one subtraction always suffice.
THEOREM AccumulatorStaysCanonical == MulSpec => []AccumulatorCanonical
<1>1. IInv => AccumulatorCanonical
  <2> SUFFICES ASSUME IInv, pc \in {"acc", "tomont", "done"}, NEW j \in Coeffs
               PROVE  hr[j] \in Canonical
    BY DEF AccumulatorCanonical
  <2>1. Within(hr[j], 0, 3328)
    BY SMT DEF IInv, Accumulated
  <2> QED BY <2>1, CanonicalIff
<1> QED BY <1>1, Invariant, PTL

\* poly.c, polyvec.c against kyber_ntt_core.v and kyber_pwma_local.v: whatever
\* the polynomials, the reference and the accelerator end with the same residues.
THEOREM SidesAgree == MulSpec => []SameResidues
<1>1. IInv => SameResidues
  BY DEF IInv, Accumulated, SameResidues
<1> QED BY <1>1, Invariant, PTL

-----------------------------------------------------------------------------
(* Induction over the natural numbers, for a set *)

LEMMA Least ==
  ASSUME NEW T, T \subseteq Nat, T # {}
  PROVE  \E n \in T : \A m \in T : n <= m
<1> DEFINE R == OpToRel(<, Nat)
<1>1. IsWellFoundedOn(R, Nat)
  BY Zenon, NatLessThanWellFounded
<1> HIDE DEF R
<1>2. PICK n \in T : \A m \in T : ~ (<<m, n>> \in R)
  BY <1>1, WFMin
<1> USE DEF R
<1>3. \A m \in T : ~(m < n)
  BY <1>2 DEF OpToRel
<1> QED
  BY <1>3

\* Induction over the naturals for a set, as the provers can use it.
LEMMA SetInduction ==
  ASSUME NEW S, 0 \in S, \A n \in Nat : n \in S => n + 1 \in S
  PROVE  Nat \subseteq S
<1> SUFFICES ASSUME Nat \ S # {} PROVE FALSE
  OBVIOUS
<1>1. PICK n \in Nat \ S : \A m \in Nat \ S : n <= m
  BY Least
<1>2. n - 1 \in Nat /\ n - 1 \notin S
  BY <1>1, SMT
<1> QED
  BY <1>1, <1>2, SMT

-----------------------------------------------------------------------------

-----------------------------------------------------------------------------
(* Sums *)

\* F[0] + .. + F[n-1].
Sum(F, n) == LET s[i \in 0..n] == IF i = 0 THEN 0 ELSE s[i-1] + F[i-1] IN s[n]

LEMMA SumExists ==
  ASSUME NEW F, NEW n \in Nat
  PROVE  \E s : s = [i \in 0..n |-> IF i = 0 THEN 0 ELSE s[i-1] + F[i-1]]
<1> DEFINE Is(s, k) == s = [i \in 0..k |-> IF i = 0 THEN 0 ELSE s[i-1] + F[i-1]]
           S == {k \in Nat : \E s : Is(s, k)}
<1>1. 0 \in S
  <2> DEFINE s == [i \in 0..0 |-> 0]
  <2>1. Is(s, 0)
    BY SMT
  <2> QED BY <2>1
<1>2. ASSUME NEW k \in Nat, k \in S PROVE k + 1 \in S
  <2>1. PICK s : Is(s, k)
    BY <1>2
  <2> DEFINE t == [i \in 0..k+1 |-> IF i = k + 1 THEN s[k] + F[k] ELSE s[i]]
  <2>2. Is(t, k + 1)
    <3>1. \A i \in 0..k : s[i] = IF i = 0 THEN 0 ELSE s[i-1] + F[i-1]
      BY <2>1, Zenon
    <3>2. \A i \in 0..k+1 : t[i] = IF i = 0 THEN 0 ELSE t[i-1] + F[i-1]
      BY <3>1, SMT
    <3> DEFINE U == [i \in 0..k+1 |-> IF i = 0 THEN 0 ELSE t[i-1] + F[i-1]]
    <3>3. \A i \in 0..k+1 : t[i] = U[i]
      BY <3>2, Zenon
    <3>4. t = U
      BY <3>3, SMT
    <3> QED BY <3>4, Zenon
  <2>3. \E x : Is(x, k + 1)
    <3> HIDE DEF t
    <3> QED BY <2>2, Zenon
  <2>4. k + 1 \in Nat
    OBVIOUS
  <2> HIDE DEF Is
  <2> QED BY <2>3, <2>4
<1> HIDE DEF S
<1>3. n \in S
  BY <1>1, <1>2, SetInduction
<1> QED BY <1>3 DEF S

LEMMA SumEquation ==
  ASSUME NEW F, NEW n \in Nat
  PROVE  \E s : /\ s[0] = 0 /\ Sum(F, n) = s[n]
                /\ \A i \in 1..n : s[i] = s[i-1] + F[i-1]
<1> DEFINE s == CHOOSE s : s = [i \in 0..n |-> IF i = 0 THEN 0 ELSE s[i-1] + F[i-1]]
<1>1. s = [i \in 0..n |-> IF i = 0 THEN 0 ELSE s[i-1] + F[i-1]]
  BY SumExists, Zenon
<1>2. Sum(F, n) = s[n]
  BY Zenon DEF Sum
<1> HIDE DEF s
<1>3. \A i \in 0..n : s[i] = IF i = 0 THEN 0 ELSE s[i-1] + F[i-1]
  BY <1>1, Zenon
<1>4. s[0] = 0 /\ \A i \in 1..n : s[i] = s[i-1] + F[i-1]
  BY <1>3, SMT
<1> QED BY <1>2, <1>4

LEMMA SumStep ==
  ASSUME NEW F
  PROVE  Sum(F, 0) = 0 /\ \A n \in Nat : Sum(F, n + 1) = Sum(F, n) + F[n]
<1>1. Sum(F, 0) = 0
  BY SumEquation
<1>2. ASSUME NEW n \in Nat PROVE Sum(F, n + 1) = Sum(F, n) + F[n]
  <2>1. PICK s : /\ s[0] = 0 /\ Sum(F, n) = s[n]
                 /\ \A i \in 1..n : s[i] = s[i-1] + F[i-1]
    BY SumEquation
  <2>2. PICK t : /\ t[0] = 0 /\ Sum(F, n + 1) = t[n + 1]
                 /\ \A i \in 1..n+1 : t[i] = t[i-1] + F[i-1]
    <3>1. n + 1 \in Nat
      OBVIOUS
    <3> QED BY <3>1, SumEquation
  <2> DEFINE S == {i \in Nat : i <= n => s[i] = t[i]}
  <2>3. 0 \in S
    BY <2>1, <2>2
  <2>4. ASSUME NEW i \in Nat, i \in S PROVE i + 1 \in S
    <3> SUFFICES ASSUME i + 1 <= n PROVE s[i+1] = t[i+1]
      OBVIOUS
    <3>1. s[i] = t[i] /\ i + 1 \in 1..n /\ i + 1 \in 1..n+1 /\ (i + 1) - 1 = i
      BY <2>4
    <3> QED BY <2>1, <2>2, <3>1, Zenon
  <2> HIDE DEF S
  <2>5. n \in S
    BY <2>3, <2>4, SetInduction
  <2>6. s[n] = t[n]
    BY <2>5 DEF S
  <2>7. n + 1 \in 1..n+1 /\ (n + 1) - 1 = n
    OBVIOUS
  <2>8. t[n + 1] = t[n] + F[n]
    BY <2>2, <2>7, Zenon
  <2> QED BY <2>1, <2>2, <2>6, <2>8, Zenon
<1> QED BY <1>1, <1>2

LEMMA SumInt ==
  ASSUME NEW F, NEW n \in Nat, \A i \in Nat : i < n => F[i] \in Int
  PROVE  Sum(F, n) \in Int
<1> DEFINE S == {k \in Nat : k <= n => Sum(F, k) \in Int}
<1>1. 0 \in S
  BY SumStep
<1>2. ASSUME NEW k \in Nat, k \in S PROVE k + 1 \in S
  <2>1. Sum(F, k + 1) = Sum(F, k) + F[k]
    BY SumStep
  <2> QED BY <1>2, <2>1, SMT
<1> HIDE DEF S
<1>3. n \in S
  BY <1>1, <1>2, SetInduction
<1> QED BY <1>3 DEF S

\* Sums are linear, also modulo q.
LEMMA SumLinear ==
  ASSUME NEW F, NEW G, NEW H, NEW c \in Int, NEW n \in Nat,
         \A i \in Nat : i < n => /\ F[i] \in Int /\ G[i] \in Int /\ H[i] \in Int
                                 /\ Congruent(F[i], G[i] + c * H[i])
  PROVE  Congruent(Sum(F, n), Sum(G, n) + c * Sum(H, n))
<1> DEFINE S == {k \in Nat : k <= n => Congruent(Sum(F, k), Sum(G, k) + c * Sum(H, k))}
<1>1. 0 \in S
  <2>1. Sum(F, 0) = 0 /\ Sum(G, 0) = 0 /\ Sum(H, 0) = 0
    BY SumStep
  <2>2. c * 0 = 0
    OBVIOUS
  <2> QED BY <2>1, <2>2, SMT DEF Congruent, KYBER_Q
<1>2. ASSUME NEW k \in Nat, k \in S PROVE k + 1 \in S
  <2> SUFFICES ASSUME k + 1 <= n
               PROVE  Congruent(Sum(F, k + 1), Sum(G, k + 1) + c * Sum(H, k + 1))
    OBVIOUS
  <2> DEFINE x == Sum(F, k)  y == Sum(G, k)  z == Sum(H, k)
  <2>1. x \in Int /\ y \in Int /\ z \in Int
    BY SumInt, SMT
  <2>2. F[k] \in Int /\ G[k] \in Int /\ H[k] \in Int
    BY SMT
  <2>3. Congruent(F[k], G[k] + c * H[k]) /\ Congruent(x, y + c * z)
    BY <1>2, SMT
  <2>4. Sum(F, k + 1) = x + F[k] /\ Sum(G, k + 1) = y + G[k] /\ Sum(H, k + 1) = z + H[k]
    BY SumStep
  <2> HIDE DEF x, y, z
  <2>5. c * z \in Int /\ c * H[k] \in Int
    BY <2>1, <2>2, SMT
  <2>6. Congruent(x + F[k], (y + c * z) + (G[k] + c * H[k]))
    <3> DEFINE v == y + c * z  w == G[k] + c * H[k]
    <3>1. v \in Int /\ w \in Int /\ Congruent(x, v) /\ Congruent(F[k], w)
      BY <2>1, <2>2, <2>3, <2>5, SMT
    <3> HIDE DEF v, w
    <3>2. Congruent(x + F[k], v + w)
      BY <2>1, <2>2, <3>1, CongruentSum
    <3> QED BY <3>2 DEF v, w
  <2>7. (y + c * z) + (G[k] + c * H[k]) = (y + G[k]) + c * (z + H[k])
    BY <2>1, <2>2, SMT
  <2> QED BY <2>4, <2>6, <2>7, Zenon
<1> HIDE DEF S
<1>3. n \in S
  BY <1>1, <1>2, SetInduction
<1> QED BY <1>3 DEF S

LEMMA SumAdd ==
  ASSUME NEW F, NEW G, NEW H, NEW n \in Nat,
         \A i \in Nat : i < n => F[i] \in Int /\ G[i] \in Int /\ H[i] = F[i] + G[i]
  PROVE  Sum(H, n) = Sum(F, n) + Sum(G, n)
<1> DEFINE S == {k \in Nat : k <= n => Sum(H, k) = Sum(F, k) + Sum(G, k)}
<1>1. 0 \in S
  BY SumStep, SMT
<1>2. ASSUME NEW k \in Nat, k \in S PROVE k + 1 \in S
  <2> SUFFICES ASSUME k + 1 <= n PROVE Sum(H, k + 1) = Sum(F, k + 1) + Sum(G, k + 1)
    OBVIOUS
  <2>1. Sum(F, k) \in Int /\ Sum(G, k) \in Int
    BY SumInt, SMT
  <2>2. F[k] \in Int /\ G[k] \in Int /\ H[k] = F[k] + G[k]
    BY SMT
  <2>3. /\ Sum(F, k + 1) = Sum(F, k) + F[k] /\ Sum(G, k + 1) = Sum(G, k) + G[k]
        /\ Sum(H, k + 1) = Sum(H, k) + H[k]
    BY SumStep
  <2> QED BY <1>2, <2>1, <2>2, <2>3, SMT
<1> HIDE DEF S
<1>3. n \in S
  BY <1>1, <1>2, SetInduction
<1> QED BY <1>3 DEF S

\* A sum in two parts.
LEMMA SumSplit ==
  ASSUME NEW F, NEW G, NEW m \in Nat, NEW n \in Nat,
         \A i \in Nat : i < m + n => F[i] \in Int,
         \A i \in Nat : i < n => G[i] = F[m + i]
  PROVE  Sum(F, m + n) = Sum(F, m) + Sum(G, n)
<1> DEFINE S == {k \in Nat : k <= n => Sum(F, m + k) = Sum(F, m) + Sum(G, k)}
<1>0. Sum(F, m) \in Int
  BY SumInt, SMT
<1>1. 0 \in S
  BY <1>0, SumStep, SMT
<1>2. ASSUME NEW k \in Nat, k \in S PROVE k + 1 \in S
  <2> SUFFICES ASSUME k + 1 <= n PROVE Sum(F, m + (k + 1)) = Sum(F, m) + Sum(G, k + 1)
    OBVIOUS
  <2>1. Sum(G, k) \in Int
    BY SumInt, SMT
  <2>2. G[k] \in Int /\ G[k] = F[m + k] /\ m + k \in Nat /\ m + (k + 1) = (m + k) + 1
    BY SMT
  <2>3. Sum(F, (m + k) + 1) = Sum(F, m + k) + F[m + k] /\ Sum(G, k + 1) = Sum(G, k) + G[k]
    BY <2>2, SumStep
  <2>4. Sum(F, m + k) = Sum(F, m) + Sum(G, k)
    BY <1>2, SMT
  <2> QED BY <1>0, <2>1, <2>2, <2>3, <2>4, SMT
<1> HIDE DEF S
<1>3. n \in S
  BY <1>1, <1>2, SetInduction
<1> QED BY <1>3 DEF S

-----------------------------------------------------------------------------
(* Products of polynomials *)

\* n coefficients, from c on.
Ints(f, c, n) == \A a \in Nat : a < n => f[c + a] \in Int

\* The summands of coefficient i of f * g modulo X^S - T, where f and g are the
\* S coefficients from c on.
Terms(f, g, S, T, c, i) ==
    [a \in 0..S-1 |->
        f[c + a] * g[c + (IF a <= i THEN i - a ELSE S + i - a)] * (IF a <= i THEN 1 ELSE T)]
Conv(f, g, S, T, c, i) == Sum(Terms(f, g, S, T, c, i), S)

IsTerms(t, f, g, S, T, c, i) ==
    \A a, k \in Nat : a < S /\ k < S =>
        /\ a + k = i => t[a] = f[c + a] * g[c + k]
        /\ a + k = S + i => t[a] = (f[c + a] * g[c + k]) * T
        /\ t[a] \in Int

LEMMA TermsAre ==
  ASSUME NEW f, NEW g, NEW S \in Nat, NEW T \in Int, NEW c \in Nat, NEW i \in Nat, i < S,
         Ints(f, c, S), Ints(g, c, S)
  PROVE  IsTerms(Terms(f, g, S, T, c, i), f, g, S, T, c, i)
<1> DEFINE t == Terms(f, g, S, T, c, i)
<1> SUFFICES ASSUME NEW a \in Nat, NEW k \in Nat, a < S, k < S
             PROVE  /\ a + k = i => t[a] = f[c + a] * g[c + k]
                    /\ a + k = S + i => t[a] = (f[c + a] * g[c + k]) * T
                    /\ t[a] \in Int
  BY Zenon DEF IsTerms
<1>1. t[a] = f[c + a] * g[c + (IF a <= i THEN i - a ELSE S + i - a)] * (IF a <= i THEN 1 ELSE T)
  <2>1. a \in 0..S-1
    OBVIOUS
  <2> QED BY <2>1, Zenon DEF Terms
<1> HIDE DEF t
<1>2. f[c + a] \in Int
  BY DEF Ints
<1>3. CASE a <= i
  <2> DEFINE x == f[c + a]  y == g[c + (i - a)]
  <2>1. i - a \in Nat /\ i - a < S
    BY <1>3
  <2>2. x \in Int /\ y \in Int
    BY <1>2, <2>1, Zenon DEF Ints
  <2>3. t[a] = x * y * 1
    BY <1>1, <1>3, Zenon
  <2> HIDE DEF x, y
  <2>4. t[a] = x * y /\ x * y \in Int
    BY <2>2, <2>3, SMT
  <2>5. a + k = i => k = i - a
    BY SMT
  <2>6. a + k = i => t[a] = f[c + a] * g[c + k]
    BY <2>4, <2>5, Zenon DEF x, y
  <2>7. ~(a + k = S + i)
    BY <1>3, SMT
  <2> QED BY <2>4, <2>6, <2>7, Zenon
<1>4. CASE a > i
  <2> DEFINE x == f[c + a]  y == g[c + (S + i - a)]
  <2>1. S + i - a \in Nat /\ S + i - a < S /\ ~(a <= i)
    BY <1>4
  <2>2. x \in Int /\ y \in Int
    BY <1>2, <2>1, Zenon DEF Ints
  <2>3. t[a] = x * y * T
    BY <1>1, <2>1, Zenon
  <2> HIDE DEF x, y
  <2>4. t[a] = (x * y) * T /\ (x * y) * T \in Int
    BY <2>2, <2>3, SMT
  <2>5. a + k = S + i => k = S + i - a
    BY SMT
  <2>6. a + k = S + i => t[a] = (f[c + a] * g[c + k]) * T
    BY <2>4, <2>5, Zenon DEF x, y
  <2>7. ~(a + k = i)
    BY <1>4, SMT
  <2> QED BY <2>4, <2>6, <2>7, Zenon
<1>5. a <= i \/ a > i
  BY SMT
<1> QED BY <1>3, <1>4, <1>5

LEMMA ConvInt ==
  ASSUME NEW f, NEW g, NEW S \in Nat, NEW T \in Int, NEW c \in Nat, NEW i \in Nat, i < S,
         Ints(f, c, S), Ints(g, c, S)
  PROVE  Conv(f, g, S, T, c, i) \in Int
<1> DEFINE t == Terms(f, g, S, T, c, i)
<1>1. IsTerms(t, f, g, S, T, c, i)
  BY TermsAre
<1> HIDE DEF t
<1>2. \A a \in Nat : a < S => t[a] \in Int
  BY <1>1, Zenon DEF IsTerms
<1>3. Sum(t, S) \in Int
  BY <1>2, SumInt
<1> QED BY <1>3, Zenon DEF Conv, t

\* (x0 + W x1) (y0 + W y1), in the two places a summand can have.
LEMMA Expand ==
  ASSUME NEW x0 \in Int, NEW x1 \in Int, NEW y0 \in Int, NEW y1 \in Int, NEW W \in Int
  PROVE  /\ (x0 + W * x1) * (y0 + W * y1)
              = (x0 * y0 + (x1 * y1) * (W * W)) + W * (x0 * y1 + x1 * y0)
         /\ ((x0 + W * x1) * (y0 + W * y1)) * W
              = ((x0 * y1) * (W * W) + (x1 * y0) * (W * W))
                + W * (x0 * y0 + (x1 * y1) * (W * W))
BY SMT

LEMMA CongruentRefl == ASSUME NEW x \in Int PROVE Congruent(x, x)
BY SMT DEF Congruent, KYBER_Q

LEMMA CongruentSym ==
  ASSUME NEW x \in Int, NEW y \in Int, Congruent(x, y)
  PROVE  Congruent(y, x)
BY SMT DEF Congruent, KYBER_Q

LEMMA CongruentTimes ==
  ASSUME NEW x \in Int, NEW y \in Int, NEW c \in Int, Congruent(x, y)
  PROVE  Congruent(c * x, c * y)
<1>1. Congruent(c, c)
  BY CongruentRefl
<1> QED BY <1>1, CongruentProduct

LEMMA CongruentLinear ==
  ASSUME NEW x \in Int, NEW y \in Int, NEW v \in Int, NEW w \in Int, NEW c \in Int,
         Congruent(x, v), Congruent(y, w)
  PROVE  Congruent(x + c * y, v + c * w) /\ x + c * y \in Int /\ v + c * w \in Int
<1>1. PICK m \in Int : x = v + 3329 * m
  BY CongruentIs
<1>2. PICK n \in Int : y = w + 3329 * n
  BY CongruentIs
<1>3. (x + c * y) - (v + c * w) = 3329 * (m + c * n)
  BY <1>1, <1>2, SMT
<1>4. m + c * n \in Int
  OBVIOUS
<1> QED BY <1>3, <1>4, SMT DEF Congruent, KYBER_Q

\* The summand of a half product, from those of the whole.
LEMMA LowTerm ==
  ASSUME NEW x0 \in Int, NEW x1 \in Int, NEW y0 \in Int, NEW y1 \in Int,
         NEW W \in Int, NEW T \in Int, Congruent(T, W * W), NEW m1 \in Int, NEW m2 \in Int,
         Congruent(m1, x0 + W * x1), Congruent(m2, y0 + W * y1)
  PROVE  Congruent(m1 * m2, (x0 * y0 + (x1 * y1) * T) + W * (x0 * y1 + x1 * y0))
<1>1. /\ x0 + W * x1 \in Int /\ y0 + W * y1 \in Int /\ x0 * y0 \in Int /\ x1 * y1 \in Int
      /\ W * (x0 * y1 + x1 * y0) \in Int /\ W * W \in Int /\ m1 * m2 \in Int
  BY SMT
<1> DEFINE R == (x0 + W * x1) * (y0 + W * y1)
           A == x0 * y0  B == x1 * y1  D == W * (x0 * y1 + x1 * y0)  V == W * W
<1>2. Congruent(m1 * m2, R) /\ R \in Int
  BY <1>1, CongruentProduct, SMT
<1>3. R = (A + B * V) + D
  BY Expand
<1>4. A \in Int /\ B \in Int /\ D \in Int /\ V \in Int
  BY <1>1
<1> HIDE DEF R, A, B, D, V
<1>5. PICK m \in Int : m1 * m2 = R + 3329 * m
  BY <1>1, <1>2, CongruentIs
<1>6. PICK n \in Int : T = V + 3329 * n
  BY <1>4, CongruentIs DEF V
<1>7. m1 * m2 - ((A + B * T) + D) = 3329 * (m - B * n)
  BY <1>1, <1>3, <1>4, <1>5, <1>6, SMT
<1>8. m - B * n \in Int
  BY <1>4
<1>9. Congruent(m1 * m2, (A + B * T) + D)
  BY <1>7, <1>8, SMT DEF Congruent, KYBER_Q
<1> QED BY <1>9 DEF A, B, D

LEMMA HighTerm ==
  ASSUME NEW x0 \in Int, NEW x1 \in Int, NEW y0 \in Int, NEW y1 \in Int,
         NEW W \in Int, NEW T \in Int, Congruent(T, W * W), NEW m1 \in Int, NEW m2 \in Int,
         Congruent(m1, x0 + W * x1), Congruent(m2, y0 + W * y1)
  PROVE  Congruent((m1 * m2) * W,
                   ((x0 * y1) * T + (x1 * y0) * T) + W * (x0 * y0 + (x1 * y1) * T))
<1> DEFINE s == x0 * y0 + (x1 * y1) * T
           t == x0 * y1 + x1 * y0
<1>1. Congruent(m1 * m2, s + W * t)
  BY LowTerm
<1>2. s \in Int /\ t \in Int /\ m1 * m2 \in Int /\ W * W \in Int
  BY SMT
<1>3. (x0 * y1) * T + (x1 * y0) * T = t * T
  BY SMT
<1> HIDE DEF s, t
<1>4. PICK m \in Int : m1 * m2 = (s + W * t) + 3329 * m
  BY <1>1, <1>2, CongruentIs
<1>5. PICK n \in Int : T = W * W + 3329 * n
  BY <1>2, CongruentIs
<1>6. (m1 * m2) * W - (t * T + W * s) = 3329 * (m * W - t * n)
  <2> DEFINE z == m1 * m2
  <2>1. z \in Int /\ z = (s + W * t) + 3329 * m
    BY <1>2, <1>4
  <2> HIDE DEF z
  <2>2. z * W - (t * T + W * s) = 3329 * (m * W - t * n)
    BY <1>2, <1>5, <2>1, SMT
  <2> QED BY <2>2 DEF z
<1>7. m * W - t * n \in Int
  BY <1>2
<1>8. Congruent((m1 * m2) * W, t * T + W * s)
  BY <1>6, <1>7, SMT DEF Congruent, KYBER_Q
<1> QED BY <1>3, <1>8 DEF s

\* A block of 2n coefficients modulo X^2n - T, where T is W^2, is mapped to one
\* of n coefficients modulo X^n - W by X^n = W; the product goes with it.
LEMMA HalfProduct ==
  ASSUME NEW n \in Nat, NEW W \in Int, NEW T \in Int, Congruent(T, W * W),
         NEW c \in Nat, NEW d \in Nat, NEW i \in Nat, i < n,
         NEW f, NEW g, NEW U, NEW v,
         Ints(f, c, 2 * n), Ints(g, c, 2 * n),
         \A a \in Nat : a < n =>
            /\ U[d + a] \in Int /\ v[d + a] \in Int
            /\ Congruent(U[d + a], f[c + a] + W * f[c + (n + a)])
            /\ Congruent(v[d + a], g[c + a] + W * g[c + (n + a)])
  PROVE  Congruent(Conv(U, v, n, W, d, i),
                   Conv(f, g, 2 * n, T, c, i) + W * Conv(f, g, 2 * n, T, c, n + i))
<1> DEFINE N == 2 * n
           j == n + i
<1>1. N \in Nat /\ i < N /\ j \in Nat /\ j < N /\ n + n = N /\ N = 2 * n /\ j = n + i
  BY SMT
<1>2. PICK P : P = Terms(U, v, n, W, d, i)
  OBVIOUS
<1>3. PICK A : A = Terms(f, g, N, T, c, i)
  OBVIOUS
<1>4. PICK B : B = Terms(f, g, N, T, c, j)
  OBVIOUS
<1> HIDE DEF N, j
<1>5. Ints(f, c, N) /\ Ints(g, c, N) /\ Ints(U, d, n) /\ Ints(v, d, n)
  BY Zenon DEF N, Ints
<1>6. \A a, k \in Nat : a < n /\ k < n =>
            /\ a + k = i => P[a] = U[d + a] * v[d + k]
            /\ a + k = n + i => P[a] = (U[d + a] * v[d + k]) * W
            /\ P[a] \in Int
  <2>1. IsTerms(P, U, v, n, W, d, i)
    BY <1>2, <1>5, TermsAre
  <2> QED BY <2>1, Zenon DEF IsTerms
<1>7. \A a, k \in Nat : a < N /\ k < N =>
            /\ a + k = i => A[a] = f[c + a] * g[c + k]
            /\ a + k = N + i => A[a] = (f[c + a] * g[c + k]) * T
            /\ A[a] \in Int
  <2>1. IsTerms(A, f, g, N, T, c, i)
    BY <1>1, <1>3, <1>5, TermsAre
  <2> QED BY <2>1, Zenon DEF IsTerms
<1>8. \A a, k \in Nat : a < N /\ k < N =>
            /\ a + k = j => B[a] = f[c + a] * g[c + k]
            /\ a + k = N + j => B[a] = (f[c + a] * g[c + k]) * T
            /\ B[a] \in Int
  <2>1. IsTerms(B, f, g, N, T, c, j)
    BY <1>1, <1>4, <1>5, TermsAre
  <2> QED BY <2>1, Zenon DEF IsTerms
<1>9. \A a \in Nat : a < N => A[a] \in Int /\ B[a] \in Int
  BY <1>7, <1>8
<1>10. \A a \in Nat : a < n => P[a] \in Int
  BY <1>6
<1> DEFINE A1 == [a \in 0..n-1 |-> A[n + a]]
           B1 == [a \in 0..n-1 |-> B[n + a]]
           X == [a \in 0..n-1 |-> A[a] + A1[a]]
           Y == [a \in 0..n-1 |-> B[a] + B1[a]]
<1>11. ASSUME NEW a \in Nat, a < n
       PROVE  /\ A1[a] = A[n + a] /\ B1[a] = B[n + a]
              /\ X[a] = A[a] + A1[a] /\ Y[a] = B[a] + B1[a]
  <2>1. a \in 0..n-1
    BY <1>11
  <2> QED BY <2>1, Zenon
<1> HIDE DEF A1, B1, X, Y
<1>12. ASSUME NEW a \in Nat, a < n
       PROVE  /\ A1[a] \in Int /\ B1[a] \in Int /\ A[a] \in Int /\ B[a] \in Int
              /\ X[a] \in Int /\ Y[a] \in Int
  <2>1. a < N /\ n + a < N /\ n + a \in Nat
    BY ONLY <1>1, <1>12, n \in Nat, SMT
  <2> QED BY <1>9, <1>11, <1>12, <2>1
<1>13. ASSUME NEW a \in Nat, a < n
       PROVE  Congruent(P[a], X[a] + W * Y[a])
  <2> DEFINE b == n + a
             k == IF a <= i THEN i - a ELSE n + i - a
             m == n + k
  <2>1. /\ b \in Nat /\ k \in Nat /\ m \in Nat /\ a < N /\ b < N /\ k < N /\ m < N /\ k < n
        /\ b + m = N + (a + k) /\ a + m = n + (a + k) /\ b + k = n + (a + k) /\ b = n + a /\ m = n + k
    BY ONLY <1>1, <1>13, n \in Nat, i \in Nat, i < n, a \in Nat, SMT
  <2>2. a + k = i \/ a + k = j
    BY ONLY <1>1, <1>13, n \in Nat, i \in Nat, i < n, a \in Nat, SMT
  <2> HIDE DEF b, k, m
  <2>3. PICK x0, x1, y0, y1, m1, m2 :
           /\ x0 = f[c + a] /\ x1 = f[c + b] /\ y0 = g[c + k] /\ y1 = g[c + m]
           /\ m1 = U[d + a] /\ m2 = v[d + k]
    OBVIOUS
  <2>4. x0 \in Int /\ x1 \in Int /\ y0 \in Int /\ y1 \in Int
    BY <1>5, <2>1, <2>3 DEF Ints
  <2>5. /\ m1 \in Int /\ m2 \in Int
        /\ Congruent(m1, x0 + W * x1) /\ Congruent(m2, y0 + W * y1)
    BY <1>13, <2>1, <2>3
  <2>6. X[a] = A[a] + A[b] /\ Y[a] = B[a] + B[b]
    BY <1>11, <1>13, <2>1
  <2>7. CASE a + k = i
    <3>1. b + m = N + i /\ a + m = j /\ b + k = j
      BY <1>1, <2>1, <2>7
    <3>2. P[a] = m1 * m2
      BY <1>6, <1>13, <2>1, <2>3, <2>7, Zenon
    <3>3. A[a] = x0 * y0 /\ A[b] = (x1 * y1) * T
      BY <1>7, <2>1, <2>3, <2>7, <3>1, Zenon
    <3>4. B[a] = x0 * y1 /\ B[b] = x1 * y0
      BY <1>8, <2>1, <2>3, <3>1, Zenon
    <3>5. Congruent(m1 * m2, (x0 * y0 + (x1 * y1) * T) + W * (x0 * y1 + x1 * y0))
      BY <2>4, <2>5, LowTerm
    <3> QED BY <2>6, <3>2, <3>3, <3>4, <3>5, Zenon
  <2>8. CASE a + k = j
    <3>1. b + m = N + j /\ a + m = N + i /\ b + k = N + i /\ a + k = n + i
      BY <1>1, <2>1, <2>8
    <3>2. P[a] = (m1 * m2) * W
      BY <1>6, <1>13, <2>1, <2>3, <3>1, Zenon
    <3>3. A[a] = (x0 * y1) * T /\ A[b] = (x1 * y0) * T
      BY <1>7, <2>1, <2>3, <3>1, Zenon
    <3>4. B[a] = x0 * y0 /\ B[b] = (x1 * y1) * T
      BY <1>8, <2>1, <2>3, <2>8, <3>1, Zenon
    <3>5. Congruent((m1 * m2) * W,
                    ((x0 * y1) * T + (x1 * y0) * T) + W * (x0 * y0 + (x1 * y1) * T))
      BY <2>4, <2>5, HighTerm
    <3> QED BY <2>6, <3>2, <3>3, <3>4, <3>5, Zenon
  <2> QED BY <2>2, <2>7, <2>8
<1>14. /\ Sum(A, N) = Sum(A, n) + Sum(A1, n)
       /\ Sum(B, N) = Sum(B, n) + Sum(B1, n)
  BY <1>1, <1>9, <1>11, SumSplit
<1>15. Sum(X, n) = Sum(A, n) + Sum(A1, n) /\ Sum(Y, n) = Sum(B, n) + Sum(B1, n)
  BY <1>11, <1>12, SumAdd
<1>16. Congruent(Sum(P, n), Sum(X, n) + W * Sum(Y, n))
  BY <1>10, <1>12, <1>13, SumLinear
<1>17. /\ Conv(U, v, n, W, d, i) = Sum(P, n)
       /\ Conv(f, g, N, T, c, i) = Sum(A, N) /\ Conv(f, g, N, T, c, j) = Sum(B, N)
  BY <1>2, <1>3, <1>4, Zenon DEF Conv
<1> QED BY <1>14, <1>15, <1>16, <1>17, Zenon DEF N, j

-----------------------------------------------------------------------------
(* The transform as a map of polynomials *)

\* After a layer a block of S coefficients from c on stands for a residue modulo
\* X^S - Root(S, c); 169 is 2^-16 modulo q.
Root(S, c) == IF S = 256 THEN -1
              ELSE IF First(c, S) THEN 169 * NttZeta(c, S) ELSE -(169 * NttZeta(c, S))
Parent(S, c) == IF First(c, S) THEN c ELSE c - S

\* ntt.c's table: the root of a block is the square of those of its halves, and
\* what the inverse transform multiplies by undoes it.
LEMMA ZetaSquares ==
  /\ Congruent(-1, (169 * zeta(1)) * (169 * zeta(1)))
  /\ \A k \in 1..63 :
       /\ Congruent(169 * zeta(k), (169 * zeta(2*k)) * (169 * zeta(2*k)))
       /\ Congruent(-(169 * zeta(k)), (169 * zeta(2*k + 1)) * (169 * zeta(2*k + 1)))
<1>1. Congruent(-1, (169 * zeta(1)) * (169 * zeta(1)))
  BY SMT DEF zeta, zetas, Congruent, KYBER_Q
<1>2. ASSUME NEW k \in 1..63
      PROVE  /\ Congruent(169 * zeta(k), (169 * zeta(2*k)) * (169 * zeta(2*k)))
             /\ Congruent(-(169 * zeta(k)), (169 * zeta(2*k + 1)) * (169 * zeta(2*k + 1)))
  BY SMTT(60) DEF zeta, zetas, Congruent, KYBER_Q
<1> QED BY <1>1, <1>2

Undoes(k, n) == Congruent(-((169 * zeta(k)) * (169 * zeta(n))), 1)

LEMMA ZetaInverses ==
  /\ Undoes(1, 1)
  /\ \A k \in 0..1 : Undoes(2 + k, 3 - k)
  /\ \A k \in 0..3 : Undoes(4 + k, 7 - k)
  /\ \A k \in 0..7 : Undoes(8 + k, 15 - k)
  /\ \A k \in 0..15 : Undoes(16 + k, 31 - k)
  /\ \A k \in 0..31 : Undoes(32 + k, 63 - k)
  /\ \A k \in 0..63 : Undoes(64 + k, 127 - k)
<1>1. /\ Undoes(1, 1)
      /\ \A k \in 0..1 : Undoes(2 + k, 3 - k)
      /\ \A k \in 0..3 : Undoes(4 + k, 7 - k)
      /\ \A k \in 0..7 : Undoes(8 + k, 15 - k)
  BY SMTT(60) DEF Undoes, zeta, zetas, Congruent, KYBER_Q
<1>2. /\ \A k \in 0..15 : Undoes(16 + k, 31 - k)
      /\ \A k \in 0..31 : Undoes(32 + k, 63 - k)
  BY SMTT(60) DEF Undoes, zeta, zetas, Congruent, KYBER_Q
<1>3. \A k \in 0..63 : Undoes(64 + k, 127 - k)
  BY SMTT(60) DEF Undoes, zeta, zetas, Congruent, KYBER_Q
<1> QED BY <1>1, <1>2, <1>3

\* Coefficient c + a of a block.
LEMMA BlockIndices ==
  ASSUME NEW len \in Lens, NEW c \in Coeffs, c % len = 0, NEW a \in Nat, a < len
  PROVE  LET b == Parent(len, c)
         IN  /\ c + a \in Coeffs /\ b \in Coeffs /\ b % (2 * len) = 0
             /\ b + a \in Coeffs /\ b + (len + a) \in Coeffs
             /\ First(c + a, len) <=> First(c, len)
             /\ NttZeta(c + a, len) = NttZeta(c, len)
             /\ First(c, len) => b + a = c + a /\ b + (len + a) = (c + a) + len
             /\ ~First(c, len) => b + a = (c + a) - len /\ b + (len + a) = c + a
             /\ ~First(c, len) => NttZeta(b, len) = NttZeta(c, len)
<1>1. Within(c, 0, 255) /\ Within(a, 0, len - 1)
  BY SMT, CoeffsIff DEF Within, Lens
<1> DEFINE b == Parent(len, c)
<1>2. /\ Within(c + a, 0, 255) /\ Within(b, 0, 255) /\ b % (2 * len) = 0
      /\ Within(b + a, 0, 255) /\ Within(b + (len + a), 0, 255)
      /\ First(c + a, len) <=> First(c, len)
      /\ (c + a) \div (2 * len) = c \div (2 * len)
      /\ First(c, len) => b + a = c + a /\ b + (len + a) = (c + a) + len
      /\ ~First(c, len) => b + a = (c + a) - len /\ b + (len + a) = c + a
      /\ ~First(c, len) => b \div (2 * len) = c \div (2 * len)
  BY SMTT(60), <1>1 DEF Lens, Within, Parent, First
<1>3. /\ c + a \in Coeffs /\ b \in Coeffs /\ b + a \in Coeffs /\ b + (len + a) \in Coeffs
  BY <1>2, CoeffsIff
<1>4. /\ NttZeta(c + a, len) = NttZeta(c, len)
      /\ ~First(c, len) => NttZeta(b, len) = NttZeta(c, len)
  <2> HIDE DEF b
  <2> QED BY <1>2, ZenonT(40) DEF NttZeta
<1> QED BY <1>2, <1>3, <1>4, Zenon

LEMMA RootSquare ==
  ASSUME NEW len \in Lens, NEW c \in Coeffs, c % len = 0
  PROVE  /\ Root(len, c) \in Int /\ Root(2 * len, Parent(len, c)) \in Int
         /\ Congruent(Root(2 * len, Parent(len, c)), Root(len, c) * Root(len, c))
<1> DEFINE b == Parent(len, c)
           k == (128 \div len) + (c \div (2 * len))
           m == (128 \div (2 * len)) + (b \div (4 * len))
<1>1. Within(c, 0, 255)
  BY SMT, CoeffsIff
<1>2. /\ Within(k, 1, 127)
      /\ len = 128 => k = 1
      /\ len # 128 => /\ Within(m, 1, 63)
                      /\ First(b, 2 * len) => k = 2 * m
                      /\ ~First(b, 2 * len) => k = 2 * m + 1
  BY SMTT(60), <1>1 DEF Lens, Within, Parent, First
<1>3. /\ NttZeta(c, len) = zeta(k) /\ 2 * (2 * len) = 4 * len
      /\ NttZeta(b, 2 * len) = zeta(m)
  BY SMT DEF Lens, NttZeta
<1>4. len # 256 /\ (2 * len = 256 <=> len = 128)
  BY SMT DEF Lens
<1> HIDE DEF k, m, b
<1> DEFINE z == 169 * zeta(k)
<1>5. k \in 0..127 /\ (len # 128 => m \in 1..63 /\ m \in 0..127)
  BY SMT, <1>2 DEF Within
<1>6. z \in Int /\ (len # 128 => 169 * zeta(m) \in Int)
  BY <1>5, ZetaRange, SMT DEF Within
<1>7. Root(len, c) = z \/ Root(len, c) = -z
  BY <1>3, <1>4, Zenon DEF Root
<1>8. Root(len, c) * Root(len, c) = z * z /\ Root(len, c) \in Int
  <2> HIDE DEF z
  <2> QED BY <1>6, <1>7, SMT
<1>9. Root(2 * len, b) \in Int /\ Congruent(Root(2 * len, b), z * z)
  <2>1. CASE len = 128
    <3>1. Root(2 * len, b) = -1 /\ k = 1
      BY <1>2, <1>4, <2>1, Zenon DEF Root
    <3> QED BY <3>1, ZetaSquares
  <2>2. CASE len # 128
    <3> DEFINE x(n) == 169 * zeta(n)
    <3>1. /\ Congruent(x(m), x(2*m) * x(2*m))
          /\ Congruent(-x(m), x(2*m + 1) * x(2*m + 1))
          /\ z = x(k) /\ x(m) \in Int
      BY <1>5, <1>6, <2>2, ZetaSquares
    <3>2. CASE First(b, 2 * len)
      <4>1. Root(2 * len, b) = x(m) /\ k = 2 * m
        BY <1>2, <1>3, <1>4, <2>2, <3>2, Zenon DEF Root
      <4> HIDE DEF x, z
      <4> QED BY ONLY <3>1, <4>1, Zenon
    <3>3. CASE ~First(b, 2 * len)
      <4>1. Root(2 * len, b) = -x(m) /\ k = 2 * m + 1
        BY <1>2, <1>3, <1>4, <2>2, <3>3, Zenon DEF Root
      <4> HIDE DEF x, z
      <4>2. -x(m) \in Int
        BY <3>1
      <4> QED BY ONLY <3>1, <4>1, <4>2, Zenon
    <3> QED BY <3>2, <3>3
  <2> QED BY <2>1, <2>2
<1> QED BY <1>8, <1>9, Zenon DEF b

\* A layer without reductions, and the seven of them.
Layer(f, len) ==
    [j \in Coeffs |-> IF First(j, len) THEN f[j] + (169 * NttZeta(j, len)) * f[j + len]
                                       ELSE f[j - len] - (169 * NttZeta(j, len)) * f[j]]
Level(f, n) ==
    LET f1 == Layer(f, 128)
        f2 == Layer(f1, 64)
        f3 == Layer(f2, 32)
        f4 == Layer(f3, 16)
        f5 == Layer(f4, 8)
        f6 == Layer(f5, 4)
    IN  CASE n = 0 -> f
          [] n = 1 -> f1
          [] n = 2 -> f2
          [] n = 3 -> f3
          [] n = 4 -> f4
          [] n = 5 -> f5
          [] n = 6 -> f6
          [] n = 7 -> Layer(f6, 2)
Poly(f) == \A j \in Coeffs : f[j] \in Int

LEMMA NttLens ==
  /\ NttLen(0) = 128 /\ NttLen(1) = 64 /\ NttLen(2) = 32 /\ NttLen(3) = 16
  /\ NttLen(4) = 8 /\ NttLen(5) = 4 /\ NttLen(6) = 2
BY SMT DEF NttLen

LEMMA LevelStep ==
  ASSUME NEW f
  PROVE  /\ Level(f, 0) = f
         /\ \A n \in 0..6 : Level(f, n + 1) = Layer(Level(f, n), NttLen(n))
<1>1. /\ Level(f, 0) = f /\ Level(f, 1) = Layer(Level(f, 0), 128)
      /\ Level(f, 2) = Layer(Level(f, 1), 64) /\ Level(f, 3) = Layer(Level(f, 2), 32)
      /\ Level(f, 4) = Layer(Level(f, 3), 16) /\ Level(f, 5) = Layer(Level(f, 4), 8)
      /\ Level(f, 6) = Layer(Level(f, 5), 4) /\ Level(f, 7) = Layer(Level(f, 6), 2)
  BY SMT DEF Level
<1> QED BY <1>1, NttLens, SMT

LEMMA LayerPoly ==
  ASSUME NEW len \in Lens, NEW f, Poly(f)
  PROVE  Poly(Layer(f, len))
<1> SUFFICES ASSUME NEW j \in Coeffs PROVE Layer(f, len)[j] \in Int
  BY DEF Poly
<1>1. NttZeta(j, len) \in Int
  BY ZetaIndices DEF Within
<1> DEFINE z == 169 * NttZeta(j, len)
<1>2. z \in Int
  BY <1>1
<1>3. Layer(f, len)[j] = IF First(j, len) THEN f[j] + z * f[j + len]
                                          ELSE f[j - len] - z * f[j]
  BY Zenon DEF Layer
<1> HIDE DEF z
<1>4. CASE First(j, len)
  <2>1. f[j] \in Int /\ f[j + len] \in Int
    BY <1>4, Partners DEF Poly
  <2> QED BY <1>2, <1>3, <1>4, <2>1
<1>5. CASE ~First(j, len)
  <2>1. f[j] \in Int /\ f[j - len] \in Int
    BY <1>5, Partners DEF Poly
  <2> QED BY <1>2, <1>3, <1>5, <2>1
<1> QED BY <1>4, <1>5

LEMMA LevelPoly ==
  ASSUME NEW f, Poly(f)
  PROVE  \A n \in 0..7 : Poly(Level(f, n))
<1> DEFINE S == {n \in Nat : n <= 7 => Poly(Level(f, n))}
<1>1. 0 \in S
  BY LevelStep
<1>2. ASSUME NEW n \in Nat, n \in S PROVE n + 1 \in S
  <2> SUFFICES ASSUME n + 1 <= 7 PROVE Poly(Level(f, n + 1))
    OBVIOUS
  <2>1. n \in 0..6 /\ Poly(Level(f, n))
    BY <1>2
  <2>2. NttLen(n) \in Lens
    BY <2>1, LenType
  <2>3. Level(f, n + 1) = Layer(Level(f, n), NttLen(n))
    BY <2>1, LevelStep
  <2> QED BY <2>1, <2>2, <2>3, LayerPoly
<1> HIDE DEF S
<1>3. Nat \subseteq S
  BY <1>1, <1>2, SetInduction
<1> QED BY <1>3 DEF S

LEMMA LayerBlock ==
  ASSUME NEW len \in Lens, NEW c \in Coeffs, c % len = 0, NEW a \in Nat, a < len,
         NEW f, Poly(f)
  PROVE  LET b == Parent(len, c)
         IN  Layer(f, len)[c + a] = f[b + a] + Root(len, c) * f[b + (len + a)]
<1> DEFINE b == Parent(len, c)
           z == 169 * NttZeta(c, len)
<1>1. /\ c + a \in Coeffs /\ b + a \in Coeffs /\ b + (len + a) \in Coeffs
      /\ First(c + a, len) <=> First(c, len)
      /\ NttZeta(c + a, len) = NttZeta(c, len)
      /\ First(c, len) => b + a = c + a /\ b + (len + a) = (c + a) + len
      /\ ~First(c, len) => b + a = (c + a) - len /\ b + (len + a) = c + a
  BY BlockIndices
<1>2. Layer(f, len)[c + a] = IF First(c + a, len) THEN f[c + a] + z * f[(c + a) + len]
                                                  ELSE f[(c + a) - len] - z * f[c + a]
  BY <1>1, Zenon DEF Layer
<1>3. Root(len, c) = IF First(c, len) THEN z ELSE -z
  <2>1. len # 256
    BY SMT DEF Lens
  <2> QED BY <2>1, Zenon DEF Root
<1>4. z \in Int /\ f[b + a] \in Int /\ f[b + (len + a)] \in Int
  <2>1. NttZeta(c, len) \in Int
    BY ZetaIndices DEF Within
  <2>2. f[b + a] \in Int /\ f[b + (len + a)] \in Int
    BY <1>1, Zenon DEF Poly
  <2> QED BY <2>1, <2>2
<1> HIDE DEF b, z
<1>5. CASE First(c, len)
  BY <1>1, <1>2, <1>3, <1>5, Zenon DEF b
<1>6. CASE ~First(c, len)
  <2> DEFINE x == f[b + a]  y == f[b + (len + a)]
  <2>1. Layer(f, len)[c + a] = x - z * y /\ Root(len, c) = -z
    BY <1>1, <1>2, <1>3, <1>6, Zenon
  <2>2. x \in Int /\ y \in Int
    BY <1>4
  <2> HIDE DEF x, y
  <2>3. x - z * y = x + (-z) * y
    BY <1>4, <2>2, SMT
  <2> QED BY <2>1, <2>3, Zenon DEF x, y, b
<1> QED BY <1>5, <1>6

\* h holds, block by block, the products of f and g.
IsProduct(f, g, h, S) ==
    \A c \in Coeffs, i \in Nat :
        c % S = 0 /\ i < S => Congruent(h[c + i], Conv(f, g, S, Root(S, c), c, i))

LEMMA LayerProduct ==
  ASSUME NEW len \in Lens, NEW f, NEW g, NEW h, Poly(f), Poly(g), Poly(h),
         IsProduct(f, g, h, 2 * len)
  PROVE  IsProduct(Layer(f, len), Layer(g, len), Layer(h, len), len)
<1> SUFFICES ASSUME NEW c \in Coeffs, NEW i \in Nat, c % len = 0, i < len
             PROVE  Congruent(Layer(h, len)[c + i],
                              Conv(Layer(f, len), Layer(g, len), len, Root(len, c), c, i))
  BY Zenon DEF IsProduct
<1> DEFINE b == Parent(len, c)
           W == Root(len, c)
           T == Root(2 * len, b)
           U == Layer(f, len)
           v == Layer(g, len)
           x == Conv(f, g, 2 * len, T, b, i)
           y == Conv(f, g, 2 * len, T, b, len + i)
           z == Conv(U, v, len, W, c, i)
<1>1. len \in Nat /\ c \in Nat /\ Lens \subseteq Nat
  BY SMT, CoeffsIff DEF Lens, Within
<1>2. W \in Int /\ T \in Int /\ Congruent(T, W * W)
  BY RootSquare
<1>3. /\ b \in Coeffs /\ b \in Nat /\ b % (2 * len) = 0
      /\ \A a \in Nat : a < len => c + a \in Coeffs /\ b + a \in Coeffs /\ b + (len + a) \in Coeffs
  BY SMT, BlockIndices, CoeffsIff DEF Within
<1> HIDE DEF b, W, T, U, v
<1>4. \A a \in Nat : a < len => /\ U[c + a] = f[b + a] + W * f[b + (len + a)]
                                /\ v[c + a] = g[b + a] + W * g[b + (len + a)]
                                /\ U[c + a] \in Int /\ v[c + a] \in Int
  <2> TAKE a \in Nat
  <2> HAVE a < len
  <2>1. /\ U[c + a] = f[b + a] + W * f[b + (len + a)]
        /\ v[c + a] = g[b + a] + W * g[b + (len + a)]
    BY LayerBlock DEF U, v, b, W
  <2>2. c + a \in Coeffs
    BY <1>3
  <2>3. Poly(U) /\ Poly(v)
    BY LayerPoly DEF U, v
  <2> QED BY <2>1, <2>2, <2>3 DEF Poly
<1>5. Ints(f, b, 2 * len) /\ Ints(g, b, 2 * len)
  <2> SUFFICES ASSUME NEW a \in Nat, a < 2 * len PROVE b + a \in Coeffs
    BY DEF Ints, Poly
  <2>1. CASE a < len
    BY <1>3, <2>1
  <2>2. CASE ~(a < len)
    <3> DEFINE k == a - len
    <3>1. k \in Nat /\ k < len /\ b + (len + k) = b + a
      BY <1>1, <1>3, <2>2, SMT
    <3> HIDE DEF k
    <3> QED BY <1>3, <3>1
  <2> QED BY <2>1, <2>2
<1>6. Congruent(z, x + W * y)
  <2>1. \A a \in Nat : a < len =>
            /\ U[c + a] \in Int /\ v[c + a] \in Int
            /\ Congruent(U[c + a], f[b + a] + W * f[b + (len + a)])
            /\ Congruent(v[c + a], g[b + a] + W * g[b + (len + a)])
    <3> TAKE a \in Nat
    <3> HAVE a < len
    <3>1. U[c + a] \in Int /\ v[c + a] \in Int
      BY <1>4
    <3>2. Congruent(U[c + a], U[c + a]) /\ Congruent(v[c + a], v[c + a])
      BY <3>1, CongruentRefl
    <3> QED BY <1>4, <3>1, <3>2
  <2> QED BY <1>1, <1>2, <1>3, <1>5, <2>1, HalfProduct
<1>7. Congruent(h[b + i], x) /\ Congruent(h[b + (len + i)], y)
  <2>1. len + i \in Nat /\ i < 2 * len /\ len + i < 2 * len
    BY <1>1
  <2> QED BY <1>3, <2>1, Zenon DEF IsProduct, T
<1>8. Layer(h, len)[c + i] = h[b + i] + W * h[b + (len + i)]
  BY LayerBlock DEF b, W
<1>9. h[b + i] \in Int /\ h[b + (len + i)] \in Int
  BY <1>3 DEF Poly
<1>10. x \in Int /\ y \in Int /\ z \in Int
  <2>1. 2 * len \in Nat /\ len + i \in Nat /\ i < 2 * len /\ len + i < 2 * len
    BY <1>1
  <2>2. Ints(U, c, len) /\ Ints(v, c, len)
    BY <1>4 DEF Ints
  <2> QED BY <1>1, <1>2, <1>3, <1>5, <2>1, <2>2, ConvInt
<1> HIDE DEF x, y, z
<1>11. Congruent(h[b + i] + W * h[b + (len + i)], x + W * y)
  BY <1>2, <1>7, <1>9, <1>10, CongruentLinear
<1>12. Congruent(h[b + i] + W * h[b + (len + i)], z)
  <2> DEFINE s == h[b + i] + W * h[b + (len + i)]  t == x + W * y
  <2>1. s \in Int /\ t \in Int /\ Congruent(s, t) /\ Congruent(z, t)
    BY <1>2, <1>6, <1>9, <1>10, <1>11
  <2> HIDE DEF s, t
  <2>2. Congruent(s, z)
    BY <1>10, <2>1, CongruentSym, CongruentTrans
  <2> QED BY <2>2 DEF s
<1> QED BY <1>8, <1>12 DEF z, U, v, W

\* The ranges the two transforms leave; the provers prefer a name to a numeral.
Centred(f) == Bounded(f, -1664, 1664)
BelowQ(f) == Bounded(f, -3328, 3328)
Modest(x) == Within(x, -3329, 3329)

LEMMA FqmulResidue ==
  ASSUME NEW x, NEW y, Within(x, -32767, 32767), Within(y, -3329, 3329)
  PROVE  /\ Within(fqmul(x, y), -3328, 3328)
         /\ Congruent(fqmul(x, y), 169 * (x * y))
<1> DEFINE m == fqmul(x, y)
           z == x * y
<1>1. Within(m, -3328, 3328) /\ Congruent(65536 * m, z)
  BY FqmulCorrect
<1>2. z \in Int /\ m \in Int
  BY <1>1, SMT DEF Within
<1> HIDE DEF m, z
<1>3. PICK n \in Int : 65536 * m = z + 3329 * n
  <2>1. 65536 * m \in Int
    BY <1>2
  <2> QED BY <1>1, <1>2, <2>1, CongruentIs
<1>4. m - 169 * z = 3329 * (169 * n - 3327 * m)
  BY <1>2, <1>3, SMT
<1>5. 169 * n - 3327 * m \in Int
  BY <1>2
<1>6. Congruent(m, 169 * z)
  BY <1>4, <1>5, SMT DEF Congruent, KYBER_Q
<1> QED BY <1>1, <1>6 DEF m, z

LEMMA PairConv ==
  ASSUME NEW f, NEW g, NEW T \in Int, NEW c \in Nat, Ints(f, c, 2), Ints(g, c, 2)
  PROVE  /\ Conv(f, g, 2, T, c, 0) = f[c] * g[c] + (f[c + 1] * g[c + 1]) * T
         /\ Conv(f, g, 2, T, c, 1) = f[c] * g[c + 1] + f[c + 1] * g[c]
<1>1. c + 0 = c /\ 0 \in Nat /\ 1 \in Nat /\ 2 \in Nat /\ 0 < 2 /\ 1 < 2 /\ 0 + 1 = 1 /\ 1 + 1 = 2
  BY SMT
<1>2. \A t : Sum(t, 2) = (0 + t[0]) + t[1]
  BY <1>1, SumStep, Zenon
<1>3. ASSUME NEW i \in Nat, i < 2, NEW t, t = Terms(f, g, 2, T, c, i)
      PROVE  /\ Conv(f, g, 2, T, c, i) = (0 + t[0]) + t[1]
             /\ IsTerms(t, f, g, 2, T, c, i)
  BY <1>1, <1>2, <1>3, TermsAre DEF Conv
<1>4. Conv(f, g, 2, T, c, 0) = f[c] * g[c] + (f[c + 1] * g[c + 1]) * T
  <2>1. PICK t : t = Terms(f, g, 2, T, c, 0)
    OBVIOUS
  <2>2. Conv(f, g, 2, T, c, 0) = (0 + t[0]) + t[1] /\ IsTerms(t, f, g, 2, T, c, 0)
    BY <1>1, <1>3, <2>1
  <2>3. t[0] = f[c + 0] * g[c + 0] /\ t[1] = (f[c + 1] * g[c + 1]) * T /\ t[0] \in Int
    BY <2>2, SMT DEF IsTerms
  <2>4. 0 + t[0] = t[0]
    BY <2>3
  <2> QED BY <1>1, <2>2, <2>3, <2>4, Zenon
<1>5. Conv(f, g, 2, T, c, 1) = f[c] * g[c + 1] + f[c + 1] * g[c]
  <2>1. PICK t : t = Terms(f, g, 2, T, c, 1)
    OBVIOUS
  <2>2. Conv(f, g, 2, T, c, 1) = (0 + t[0]) + t[1] /\ IsTerms(t, f, g, 2, T, c, 1)
    BY <1>1, <1>3, <2>1
  <2>3. t[0] = f[c + 0] * g[c + 1] /\ t[1] = f[c + 1] * g[c + 0] /\ t[0] \in Int
    BY <2>2, SMT DEF IsTerms
  <2>4. 0 + t[0] = t[0]
    BY <2>3
  <2> QED BY <1>1, <2>2, <2>3, <2>4, Zenon
<1> QED BY <1>4, <1>5

LEMMA BaseRoot ==
  ASSUME NEW j \in Coeffs
  PROVE  LET c == j - (j % 2)
         IN  /\ c \in Coeffs /\ c % 2 = 0 /\ c + 1 \in Coeffs /\ c \in Nat
             /\ Root(2, c) = 169 * BaseZeta(j)
             /\ (j % 2 = 0 /\ j = c) \/ (j % 2 = 1 /\ j = c + 1)
<1> DEFINE c == j - (j % 2)
<1>1. /\ c % 2 = 0
      /\ First(c, 2) <=> (j \div 2) % 2 = 0
      /\ (128 \div 2) + (c \div (2 * 2)) = 64 + (j \div 4)
      /\ (j % 2 = 0 /\ j = c) \/ (j % 2 = 1 /\ j = c + 1)
  <2>1. j \in Int
    BY CoeffsIff DEF Within
  <2>2. c % 2 = 0 /\ ((j % 2 = 0 /\ j = c) \/ (j % 2 = 1 /\ j = c + 1))
    BY <2>1, SMT
  <2>3. First(c, 2) <=> (j \div 2) % 2 = 0
    BY <2>1, SMT DEF First
  <2>4. (128 \div 2) + (c \div (2 * 2)) = 64 + (j \div 4)
    BY <2>1, SMT
  <2> QED BY <2>2, <2>3, <2>4
<1>2. c \in Coeffs /\ c + 1 \in Coeffs /\ c \in Nat
  <2>1. Within(c, 0, 254)
    BY SMT, CoeffsIff DEF Within
  <2> QED BY <2>1, CoeffsIff, SMT DEF Within
<1>3. BaseZeta(j) = IF First(c, 2) THEN NttZeta(c, 2) ELSE -NttZeta(c, 2)
  <2> HIDE DEF c
  <2> QED BY <1>1, Zenon DEF BaseZeta, NttZeta
<1>4. NttZeta(c, 2) \in Int
  <2>1. 2 \in Lens
    BY SMT DEF Lens
  <2> QED BY <1>2, <2>1, ZetaIndices DEF Within
<1>5. 169 * (-NttZeta(c, 2)) = -(169 * NttZeta(c, 2))
  BY <1>4, SMT
<1>6. 2 # 256
  BY SMT
<1>7. Root(2, c) = 169 * BaseZeta(j)
  BY <1>3, <1>5, <1>6, Zenon DEF Root
<1> QED BY <1>1, <1>2, <1>7

LEMMA ScaledSum ==
  ASSUME NEW A \in Int, NEW B \in Int, NEW z \in Int, NEW ab \in Int, NEW m \in Int, NEW n \in Int,
         Congruent(ab, 169 * B), Congruent(m, 169 * (ab * z)), Congruent(n, 169 * A)
  PROVE  Congruent(m + n, 169 * (A + B * (169 * z)))
<1> DEFINE U == 169 * B  v == 169 * (ab * z)  w == 169 * A
<1>1. U \in Int /\ v \in Int /\ w \in Int
  OBVIOUS
<1>2. Congruent(ab, U) /\ Congruent(m, v) /\ Congruent(n, w)
  OBVIOUS
<1> HIDE DEF U, v, w
<1>3. PICK k1 \in Int : ab = U + 3329 * k1
  BY <1>1, <1>2, CongruentIs
<1>4. PICK k2 \in Int : m = v + 3329 * k2
  BY <1>1, <1>2, CongruentIs
<1>5. PICK k3 \in Int : n = w + 3329 * k3
  BY <1>1, <1>2, CongruentIs
<1> DEFINE t == A + B * (169 * z)  k == (169 * k1) * z + k2 + k3
<1>6. m + n - 169 * t = 3329 * k
  <2>1. ab * z = (169 * B) * z + 3329 * (k1 * z)
    BY <1>3, SMT DEF U
  <2> DEFINE d == ab * z  e == k1 * z  g == B * z
  <2>2. d \in Int /\ e \in Int /\ g \in Int
    BY <1>3
  <2>3. d = 169 * g + 3329 * e /\ B * (169 * z) = 169 * g /\ (169 * k1) * z = 169 * e
    BY <2>1, SMT
  <2>4. m + n = 169 * d + 3329 * k2 + (169 * A + 3329 * k3)
    BY <1>4, <1>5 DEF v, w
  <2> DEFINE x == B * (169 * z)  y == (169 * k1) * z
  <2>5. t = A + x /\ k = y + k2 + k3 /\ x = 169 * g /\ y = 169 * e
    BY <2>3
  <2> HIDE DEF d, e, g, x, y, t, k
  <2> QED BY ONLY <2>2, <2>3, <2>4, <2>5, A \in Int, k2 \in Int, k3 \in Int, SMT
<1>7. k \in Int /\ t \in Int
  BY <1>3
<1> HIDE DEF k, t
<1>8. Congruent(m + n, 169 * t)
  BY <1>6, <1>7, SMT DEF Congruent, KYBER_Q
<1> QED BY <1>8 DEF t

LEMMA DifferenceTimes ==
  ASSUME NEW c \in Int, NEW x0 \in Int, NEW x1 \in Int, NEW z \in Int, NEW y \in Int,
         NEW s0 \in Int, NEW s1 \in Int,
         Congruent(s0, c * (x0 + z * x1)), Congruent(s1, c * (x0 - z * x1)),
         Congruent(-(z * (169 * y)), 1)
  PROVE  Congruent(169 * ((s1 - s0) * y), (2 * c) * x1)
<1> DEFINE U == c * (x0 + z * x1)  v == c * (x0 - z * x1)  e == -(z * (169 * y))
           w == (2 * c) * x1  d == s1 - s0
<1>1. U \in Int /\ v \in Int /\ e \in Int /\ w \in Int /\ d \in Int
  OBVIOUS
<1>2. Congruent(s0, U) /\ Congruent(s1, v) /\ Congruent(e, 1)
  OBVIOUS
<1>3. v - U = -(w * z)
  BY SMT
<1>4. Congruent(d, -(w * z))
  <2> DEFINE h == -(w * z)
  <2>1. v - U = h
    BY <1>3
  <2> HIDE DEF U, v, d, h
  <2>2. Congruent(s1 - s0, v - U)
    BY <1>1, <1>2, CongruentSum
  <2> QED BY <2>1, <2>2 DEF d, h
<1>5. Congruent(d * (169 * y), (-(w * z)) * (169 * y))
  <2> DEFINE h == -(w * z)  g == 169 * y
  <2>1. h \in Int /\ g \in Int /\ Congruent(d, h)
    BY <1>1, <1>4
  <2>2. Congruent(g, g)
    BY <2>1, CongruentRefl
  <2> HIDE DEF h, g, d
  <2>3. Congruent(d * g, h * g)
    BY <1>1, <2>1, <2>2, CongruentProduct
  <2> QED BY <2>3 DEF h, g
<1>6. d * (169 * y) = 169 * (d * y) /\ (-(w * z)) * (169 * y) = w * e
  <2>1. d * (169 * y) = 169 * (d * y)
    <3> HIDE DEF d
    <3> QED BY <1>1, SMT
  <2> HIDE DEF w
  <2>2. (-(w * z)) * (169 * y) = w * (-(z * (169 * y)))
    BY <1>1, SMT
  <2> QED BY <2>1, <2>2
<1>7. Congruent(w * e, w)
  <2> HIDE DEF w, e
  <2>1. 1 \in Int /\ w * 1 = w
    BY <1>1
  <2>2. Congruent(w * e, w * 1)
    BY <1>1, <1>2, <2>1, CongruentTimes
  <2> QED BY <2>1, <2>2
<1> DEFINE a == 169 * (d * y)  b == w * e
<1>8. a \in Int /\ b \in Int
  BY <1>1
<1>9. Congruent(a, b)
  BY <1>5, <1>6
<1> HIDE DEF a, b, w, d
<1>10. Congruent(a, w)
  BY <1>1, <1>7, <1>8, <1>9, CongruentTrans DEF b
<1> QED BY <1>10 DEF a, w, d

\* The reference's product of two transformed polynomials is 2^-16 times theirs.
LEMMA BaseProduct ==
  ASSUME NEW a, NEW b, Centred(a), Centred(b),
         NEW f, NEW g, NEW h, Poly(f), Poly(g), Poly(h), Agree(a, f), Agree(b, g),
         IsProduct(f, g, h, 2), NEW j \in Coeffs
  PROVE  Congruent(BasemulSum(a, b, j), 169 * h[j])
<1> DEFINE c == j - (j % 2)
           z == BaseZeta(j)
           T == Root(2, c)
<1>1. /\ c \in Coeffs /\ c % 2 = 0 /\ c + 1 \in Coeffs /\ c \in Nat
      /\ T = 169 * z
      /\ (j % 2 = 0 /\ j = c) \/ (j % 2 = 1 /\ j = c + 1)
  BY BaseRoot
<1>2. Within(z, -3329, 3329)
  BY BaseZetaRange, SMT DEF Within
<1> HIDE DEF c, z
<1>3. PICK a0, a1, b0, b1, x0, x1, y0, y1 :
        /\ a0 = a[c] /\ a1 = a[c + 1] /\ b0 = b[c] /\ b1 = b[c + 1]
        /\ x0 = f[c] /\ x1 = f[c + 1] /\ y0 = g[c] /\ y1 = g[c + 1]
  BY Zenon
<1>4. /\ Within(a0, -1664, 1664) /\ Within(a1, -1664, 1664)
      /\ Within(b0, -1664, 1664) /\ Within(b1, -1664, 1664)
      /\ x0 \in Int /\ x1 \in Int /\ y0 \in Int /\ y1 \in Int
      /\ Congruent(a0, x0) /\ Congruent(a1, x1) /\ Congruent(b0, y0) /\ Congruent(b1, y1)
  BY <1>1, <1>3 DEF Centred, Bounded, Agree, Poly
<1>5. /\ a0 \in Int /\ a1 \in Int /\ b0 \in Int /\ b1 \in Int /\ z \in Int /\ T \in Int
  BY <1>1, <1>2, <1>4, SMT DEF Within
<1>6. \A x, y : Modest(x) /\ Modest(y)
        => /\ Modest(fqmul(x, y)) /\ fqmul(x, y) \in Int
           /\ Congruent(fqmul(x, y), 169 * (x * y))
  <2> SUFFICES ASSUME NEW x, NEW y, Modest(x), Modest(y)
               PROVE  /\ Modest(fqmul(x, y)) /\ fqmul(x, y) \in Int
                      /\ Congruent(fqmul(x, y), 169 * (x * y))
    BY Zenon
  <2>1. Within(x, -32767, 32767) /\ Within(y, -3329, 3329)
    BY SMT DEF Modest, Within
  <2>2. Within(fqmul(x, y), -3328, 3328) /\ Congruent(fqmul(x, y), 169 * (x * y))
    BY <2>1, FqmulResidue
  <2> QED BY <2>2, SMT DEF Modest, Within
<1>7. Modest(a0) /\ Modest(a1) /\ Modest(b0) /\ Modest(b1) /\ Modest(z)
  BY <1>2, <1>4, SMT DEF Modest, Within
<1>8. Ints(f, c, 2) /\ Ints(g, c, 2)
  <2> SUFFICES ASSUME NEW i \in Nat, i < 2 PROVE f[c + i] \in Int /\ g[c + i] \in Int
    BY Zenon DEF Ints
  <2>1. c + i = c \/ c + i = c + 1
    BY <1>1, SMT
  <2> QED BY <1>1, <2>1, Zenon DEF Poly
<1>9. /\ Conv(f, g, 2, T, c, 0) = x0 * y0 + (x1 * y1) * T
      /\ Conv(f, g, 2, T, c, 1) = x0 * y1 + x1 * y0
  BY <1>1, <1>3, <1>5, <1>8, PairConv
<1>10. /\ Congruent(h[c + 0], x0 * y0 + (x1 * y1) * T)
       /\ Congruent(h[c + 1], x0 * y1 + x1 * y0)
  <2>1. 0 \in Nat /\ 1 \in Nat /\ 0 < 2 /\ 1 < 2
    BY SMT
  <2>2. /\ Congruent(h[c + 0], Conv(f, g, 2, T, c, 0))
        /\ Congruent(h[c + 1], Conv(f, g, 2, T, c, 1))
    BY <1>1, <2>1, Zenon DEF IsProduct
  <2> QED BY <1>9, <2>2, Zenon
<1>11. h[c] \in Int /\ h[c + 1] \in Int /\ c + 0 = c
  BY <1>1 DEF Poly
<1> HIDE DEF T
<1>12. CASE j % 2 = 0
  <2> DEFINE ab == fqmul(a1, b1)  m == fqmul(ab, z)  n == fqmul(a0, b0)
  <2>1. j = c
    BY <1>1, <1>12
  <2>2. BasemulSum(a, b, j) = m + n
    BY <1>3, <1>12, <2>1, Zenon DEF BasemulSum, z
  <2>3. Modest(ab) /\ ab \in Int /\ Congruent(ab, 169 * (a1 * b1))
    BY <1>6, <1>7
  <2>4. m \in Int /\ Congruent(m, 169 * (ab * z))
    BY <1>6, <1>7, <2>3
  <2>5. n \in Int /\ Congruent(n, 169 * (a0 * b0))
    BY <1>6, <1>7
  <2> HIDE DEF ab, m, n
  <2> DEFINE s == x0 * y0 + (x1 * y1) * T
             t == a0 * b0 + (a1 * b1) * T
  <2>10. Congruent(m + n, 169 * t)
    <3> DEFINE A == a0 * b0  B == a1 * b1
    <3>1. A \in Int /\ B \in Int
      BY <1>5
    <3>2. Congruent(ab, 169 * B) /\ Congruent(m, 169 * (ab * z)) /\ Congruent(n, 169 * A)
      BY <2>3, <2>4, <2>5
    <3> HIDE DEF A, B
    <3>3. Congruent(m + n, 169 * (A + B * (169 * z)))
      BY <1>5, <2>3, <2>4, <2>5, <3>1, <3>2, ScaledSum, ZenonT(40)
    <3> QED BY <1>1, <3>3 DEF A, B
  <2>11. Congruent(t, s)
    <3>1. Congruent(a0 * b0, x0 * y0) /\ Congruent(a1 * b1, x1 * y1)
      BY <1>4, <1>5, CongruentProduct
    <3>2. a0 * b0 \in Int /\ x0 * y0 \in Int /\ a1 * b1 \in Int /\ x1 * y1 \in Int
      BY <1>4, <1>5
    <3> DEFINE A == a0 * b0  B == a1 * b1  X == x0 * y0  Y == x1 * y1
    <3>3. B * T = T * B /\ Y * T = T * Y
      BY <1>5, <3>2, SMT
    <3> HIDE DEF A, B, X, Y
    <3>4. Congruent(A + T * B, X + T * Y)
      BY <1>5, <3>1, <3>2, CongruentLinear DEF A, B, X, Y
    <3> QED BY <3>3, <3>4, Zenon DEF A, B, X, Y
  <2>12. s \in Int /\ t \in Int
    BY <1>4, <1>5
  <2>13. Congruent(h[c], s)
    BY <1>10, <1>11
  <2> HIDE DEF s, t
  <2>14. Congruent(169 * t, 169 * h[c])
    BY <1>11, <2>11, <2>12, <2>13, CongruentSym, CongruentTrans, CongruentTimes
  <2>15. Congruent(m + n, 169 * h[c])
    <3> DEFINE U == m + n  v == 169 * t  w == 169 * h[c]
    <3>1. U \in Int /\ v \in Int /\ w \in Int
      BY <1>11, <2>4, <2>5, <2>12
    <3>2. Congruent(U, v) /\ Congruent(v, w)
      BY <2>10, <2>14
    <3> HIDE DEF U, v, w
    <3>3. Congruent(U, w)
      BY <3>1, <3>2, CongruentTrans
    <3> QED BY <3>3 DEF U, w
  <2> QED BY <2>1, <2>2, <2>15
<1>13. CASE j % 2 = 1
  <2> DEFINE m == fqmul(a0, b1)  n == fqmul(a1, b0)
  <2>1. j = c + 1 /\ j - 1 = c /\ ~(j % 2 = 0)
    BY <1>1, <1>13
  <2>2. BasemulSum(a, b, j) = m + n
    BY <1>3, <2>1, Zenon DEF BasemulSum
  <2>3. /\ m \in Int /\ Congruent(m, 169 * (a0 * b1))
        /\ n \in Int /\ Congruent(n, 169 * (a1 * b0))
    BY <1>6, <1>7
  <2> HIDE DEF m, n
  <2> DEFINE A == a0 * b1  B == a1 * b0  X == x0 * y1  Y == x1 * y0
  <2>4. Congruent(A, X) /\ Congruent(B, Y) /\ A \in Int /\ B \in Int /\ X \in Int /\ Y \in Int
    BY <1>4, <1>5, CongruentProduct
  <2>5. Congruent(h[c + 1], X + Y) /\ Congruent(m, 169 * A) /\ Congruent(n, 169 * B)
    BY <1>10, <2>3
  <2> HIDE DEF A, B, X, Y
  <2>6. Congruent(m + n, 169 * h[c + 1])
    <3> DEFINE t == h[c + 1]
    <3>1. t \in Int /\ Congruent(t, X + Y)
      BY <1>11, <2>5
    <3> HIDE DEF t
    <3>2. Congruent(m + n, 169 * t)
      BY <2>3, <2>4, <2>5, <3>1, SMT DEF Congruent, KYBER_Q
    <3> QED BY <3>2 DEF t
  <2> QED BY <2>1, <2>2, <2>6
<1>14. j % 2 = 0 \/ j % 2 = 1
  BY <1>1
<1> QED BY <1>12, <1>13, <1>14

LEMMA InverseZeta ==
  ASSUME NEW len \in Lens, NEW j \in Coeffs
  PROVE  Congruent(-((169 * NttZeta(j, len)) * (169 * InvZeta(j, len))), 1)
<1> DEFINE k == j \div (2 * len)
           m == 128 \div len
<1>1. Within(j, 0, 255)
  BY SMT, CoeffsIff
<1>2. \/ m = 1 /\ k = 0 /\ (256 \div len) - 1 - k = 1
      \/ m = 2 /\ Within(k, 0, 1) /\ (256 \div len) - 1 - k = 3 - k
      \/ m = 4 /\ Within(k, 0, 3) /\ (256 \div len) - 1 - k = 7 - k
      \/ m = 8 /\ Within(k, 0, 7) /\ (256 \div len) - 1 - k = 15 - k
      \/ m = 16 /\ Within(k, 0, 15) /\ (256 \div len) - 1 - k = 31 - k
      \/ m = 32 /\ Within(k, 0, 31) /\ (256 \div len) - 1 - k = 63 - k
      \/ m = 64 /\ Within(k, 0, 63) /\ (256 \div len) - 1 - k = 127 - k
  BY SMTT(60), <1>1 DEF Lens, Within
<1>3. NttZeta(j, len) = zeta(m + k) /\ InvZeta(j, len) = zeta((256 \div len) - 1 - k)
  BY Zenon DEF NttZeta, InvZeta
<1> DEFINE n == (256 \div len) - 1 - k
<1> HIDE DEF k, m, n
<1>4. \/ m + k = 1 /\ n = 1
      \/ m = 2 /\ k \in 0..1 /\ n = 3 - k
      \/ m = 4 /\ k \in 0..3 /\ n = 7 - k
      \/ m = 8 /\ k \in 0..7 /\ n = 15 - k
      \/ m = 16 /\ k \in 0..15 /\ n = 31 - k
      \/ m = 32 /\ k \in 0..31 /\ n = 63 - k
      \/ m = 64 /\ k \in 0..63 /\ n = 127 - k
  BY SMT, <1>2 DEF Within, n
<1>5. Undoes(m + k, n)
  BY <1>4, ZetaInverses
<1> QED BY <1>3, <1>5, Zenon DEF n, Undoes

\* A layer of the inverse transform takes back one of the transform, up to 2.
LEMMA InverseResidue ==
  ASSUME NEW len \in Lens, NEW s, BelowQ(s), NEW c \in Int,
         NEW f, Poly(f), \A i \in Coeffs : Congruent(s[i], c * Layer(f, len)[i]),
         NEW j \in Coeffs
  PROVE  Congruent(InvNttLayer(s, len)[j], (2 * c) * f[j])
<1> DEFINE z == 169 * NttZeta(j, len)
           y == InvZeta(j, len)
<1>1. z \in Int /\ Within(y, -1659, 1659) /\ y \in Int
  BY ZetaIndices, SMT DEF Within
<1>2. Congruent(-(z * (169 * y)), 1)
  BY InverseZeta
<1>3. /\ First(j, len) => /\ j + len \in Coeffs /\ ~First(j + len, len) /\ (j + len) - len = j
                          /\ NttZeta(j + len, len) = NttZeta(j, len)
      /\ ~First(j, len) => /\ j - len \in Coeffs /\ First(j - len, len) /\ (j - len) + len = j
                           /\ NttZeta(j - len, len) = NttZeta(j, len)
  <2>1. Within(j, 0, 255)
    BY CoeffsIff
  <2>2. /\ First(j, len) => /\ ~First(j + len, len) /\ (j + len) - len = j
                            /\ (j + len) \div (2 * len) = j \div (2 * len)
        /\ ~First(j, len) => /\ First(j - len, len) /\ (j - len) + len = j
                             /\ (j - len) \div (2 * len) = j \div (2 * len)
    BY <2>1, SMTT(60) DEF Lens, Within, First
  <2> QED BY <2>2, Partners, Zenon DEF NttZeta
<1>4. CASE First(j, len)
  <2> DEFINE x0 == f[j]  x1 == f[j + len]  s0 == s[j]  s1 == s[j + len]
  <2>1. Layer(f, len)[j] = x0 + z * x1 /\ Layer(f, len)[j + len] = x0 - z * x1
    BY <1>3, <1>4, Zenon DEF Layer
  <2>2. /\ x0 \in Int /\ x1 \in Int /\ Within(s0, -3328, 3328) /\ Within(s1, -3328, 3328)
        /\ s0 \in Int /\ s1 \in Int
    BY <1>3, <1>4 DEF Poly, BelowQ, Bounded, Within
  <2>3. Congruent(s0, c * (x0 + z * x1)) /\ Congruent(s1, c * (x0 - z * x1))
    BY <1>3, <1>4, <2>1
  <2>4. InvNttLayer(s, len)[j] = barrett_reduce(Int16(s0 + s1))
    BY <1>4, Zenon DEF InvNttLayer, InvSum
  <2> HIDE DEF x0, x1, s0, s1
  <2>5. Int16(s0 + s1) = s0 + s1 /\ Within(s0 + s1, -32768, 32767)
    BY <2>2, Int16Exact, SMT DEF Within
  <2>6. LET b == barrett_reduce(s0 + s1) IN b \in Int /\ Congruent(b, s0 + s1)
    BY <2>5, BarrettCorrect DEF Within
  <2> DEFINE d == z * x1
  <2>7. d \in Int
    BY <1>1, <2>2
  <2>8. c * (x0 + d) \in Int /\ c * (x0 - d) \in Int
    BY <2>2, <2>7
  <2> HIDE DEF d
  <2>9. Congruent(s0 + s1, c * (x0 + d) + c * (x0 - d))
    BY <2>2, <2>3, <2>8, CongruentSum DEF d
  <2>10. c * (x0 + d) + c * (x0 - d) = (2 * c) * x0
    BY <2>2, <2>7, SMT
  <2>11. Congruent(barrett_reduce(s0 + s1), (2 * c) * x0)
    <3> DEFINE b == barrett_reduce(s0 + s1)  v == s0 + s1  w == (2 * c) * x0
    <3>1. b \in Int /\ v \in Int /\ w \in Int /\ Congruent(b, v) /\ Congruent(v, w)
      BY <2>2, <2>6, <2>9, <2>10
    <3> HIDE DEF b, v, w
    <3>2. Congruent(b, w)
      BY <3>1, CongruentTrans
    <3> QED BY <3>2 DEF b, w
  <2> QED BY <2>4, <2>5, <2>11 DEF x0
<1>5. CASE ~First(j, len)
  <2> DEFINE x0 == f[j - len]  x1 == f[j]  s0 == s[j - len]  s1 == s[j]
  <2>1. Layer(f, len)[j - len] = x0 + z * x1 /\ Layer(f, len)[j] = x0 - z * x1
    BY <1>3, <1>5, Zenon DEF Layer
  <2>2. /\ x0 \in Int /\ x1 \in Int /\ Within(s0, -3328, 3328) /\ Within(s1, -3328, 3328)
        /\ s0 \in Int /\ s1 \in Int
    BY <1>3, <1>5 DEF Poly, BelowQ, Bounded, Within
  <2>3. Congruent(s0, c * (x0 + z * x1)) /\ Congruent(s1, c * (x0 - z * x1))
    BY <1>3, <1>5, <2>1
  <2>4. InvNttLayer(s, len)[j] = fqmul(y, Int16(s1 - s0))
    BY <1>5, Zenon DEF InvNttLayer, InvSum
  <2> HIDE DEF x0, x1, s0, s1, y, z
  <2> DEFINE d == s1 - s0
  <2>5. Int16(d) = d /\ Within(d, -32767, 32767) /\ d \in Int /\ Within(y, -3329, 3329)
    BY <1>1, <2>2, Int16Exact, SMT DEF Within
  <2>6. y * d = d * y
    BY <1>1, <2>5, SMT
  <2>7. fqmul(y, d) = fqmul(d, y)
    BY <2>6, Zenon DEF fqmul
  <2>8. LET m == fqmul(d, y) IN m \in Int /\ Congruent(m, 169 * (d * y))
    BY <2>5, FqmulResidue DEF Within
  <2> DEFINE w == (2 * c) * x1
  <2>13. Congruent(169 * (d * y), w)
    <3>1. x0 \in Int /\ x1 \in Int /\ z \in Int /\ y \in Int /\ s0 \in Int /\ s1 \in Int
      BY <1>1, <2>2
    <3> QED BY <1>2, <2>3, <3>1, DifferenceTimes, Zenon
  <2>14. Congruent(fqmul(d, y), w)
    <3> DEFINE m == fqmul(d, y)  v == 169 * (d * y)
    <3>1. m \in Int /\ v \in Int /\ w \in Int /\ Congruent(m, v) /\ Congruent(v, w)
      BY <1>1, <2>2, <2>5, <2>8, <2>13
    <3> HIDE DEF m, v, w
    <3>2. Congruent(m, w)
      BY <3>1, CongruentTrans
    <3> QED BY <3>2 DEF m
  <2>15. Int16(d) = d
    BY <2>5
  <2> QED BY <2>4, <2>7, <2>14, <2>15, Zenon DEF x1, d
<1> QED BY <1>4, <1>5

-----------------------------------------------------------------------------
(* The sum of products, as the property adds it up *)

LEMMA ModSumExists ==
  ASSUME NEW F, NEW n \in Nat
  PROVE  \E s : s = [i \in 0..n |-> IF i = 0 THEN 0 ELSE (s[i-1] + F[i-1]) % KYBER_Q]
<1> DEFINE mod(x, y) == (x + y) % KYBER_Q
           Is(s, k) == s = [i \in 0..k |-> IF i = 0 THEN 0 ELSE mod(s[i-1], F[i-1])]
           S == {k \in Nat : \E s : Is(s, k)}
<1> HIDE DEF mod
<1>1. 0 \in S
  <2> DEFINE s == [i \in 0..0 |-> 0]
  <2>1. Is(s, 0)
    BY SMT
  <2> QED BY <2>1
<1>2. ASSUME NEW k \in Nat, k \in S PROVE k + 1 \in S
  <2>1. PICK s : Is(s, k)
    BY <1>2
  <2> DEFINE t == [i \in 0..k+1 |-> IF i = k + 1 THEN mod(s[k], F[k]) ELSE s[i]]
  <2>2. Is(t, k + 1)
    <3>1. \A i \in 0..k : s[i] = IF i = 0 THEN 0 ELSE mod(s[i-1], F[i-1])
      BY <2>1, Zenon
    <3>2. \A i \in 0..k+1 : t[i] = IF i = 0 THEN 0 ELSE mod(t[i-1], F[i-1])
      BY <3>1, SMT
    <3> DEFINE U == [i \in 0..k+1 |-> IF i = 0 THEN 0 ELSE mod(t[i-1], F[i-1])]
    <3>3. \A i \in 0..k+1 : t[i] = U[i]
      BY <3>2, Zenon
    <3>4. t = U
      BY <3>3, SMT
    <3> QED BY <3>4, Zenon
  <2>3. \E x : Is(x, k + 1)
    <3> HIDE DEF t
    <3> QED BY <2>2, Zenon
  <2>4. k + 1 \in Nat
    OBVIOUS
  <2> HIDE DEF Is
  <2> QED BY <2>3, <2>4
<1> HIDE DEF S
<1>3. n \in S
  BY <1>1, <1>2, SetInduction
<1> QED BY <1>3 DEF S, mod

LEMMA Remainder ==
  ASSUME NEW x \in Int PROVE x % KYBER_Q \in Int /\ Congruent(x % KYBER_Q, x)
BY SMT DEF Congruent, KYBER_Q

LEMMA SumOfIs ==
  ASSUME NEW F, NEW n \in Nat, \A i \in Nat : i < n => F[i] \in Int
  PROVE  SumOf(F, n) \in Int /\ Congruent(SumOf(F, n), Sum(F, n))
<1> DEFINE s == CHOOSE s : s = [i \in 0..n |-> IF i = 0 THEN 0 ELSE (s[i-1] + F[i-1]) % KYBER_Q]
<1>1. s = [i \in 0..n |-> IF i = 0 THEN 0 ELSE (s[i-1] + F[i-1]) % KYBER_Q]
  BY ModSumExists, Zenon
<1>2. SumOf(F, n) = s[n]
  BY Zenon DEF SumOf
<1> HIDE DEF s
<1>3. \A i \in 0..n : s[i] = IF i = 0 THEN 0 ELSE (s[i-1] + F[i-1]) % KYBER_Q
  BY <1>1, Zenon
<1> DEFINE S == {k \in Nat : k <= n => s[k] \in Int /\ Congruent(s[k], Sum(F, k))}
<1>4. 0 \in S
  <2>1. s[0] = 0 /\ Sum(F, 0) = 0
    BY <1>3, SumStep
  <2>2. Congruent(0, 0)
    BY CongruentRefl
  <2> QED BY <2>1, <2>2
<1>5. ASSUME NEW k \in Nat, k \in S PROVE k + 1 \in S
  <2> SUFFICES ASSUME k + 1 <= n PROVE s[k + 1] \in Int /\ Congruent(s[k + 1], Sum(F, k + 1))
    OBVIOUS
  <2> DEFINE x == s[k]  y == Sum(F, k)  z == F[k]  w == (x + z) % KYBER_Q
  <2>1. s[k + 1] = w
    <3>1. k + 1 \in 0..n /\ k + 1 # 0 /\ (k + 1) - 1 = k
      OBVIOUS
    <3> QED BY <1>3, <3>1, Zenon
  <2>2. Sum(F, k + 1) = y + z
    BY SumStep
  <2>3. z \in Int /\ x \in Int /\ y \in Int /\ Congruent(x, y)
    BY <1>5, SumInt
  <2> HIDE DEF x, y, z
  <2>4. x + z \in Int /\ y + z \in Int
    BY <2>3
  <2>5. w \in Int /\ Congruent(w, x + z)
    BY <2>4, Remainder
  <2>6. Congruent(x + z, y + z)
    BY <2>3, CongruentRefl, CongruentSum
  <2> HIDE DEF w
  <2> DEFINE U == x + z  v == y + z
  <2>7. U \in Int /\ v \in Int /\ Congruent(w, U) /\ Congruent(U, v)
    BY <2>4, <2>5, <2>6
  <2> HIDE DEF U, v
  <2>8. Congruent(w, v)
    BY <2>5, <2>7, CongruentTrans
  <2> QED BY <2>1, <2>2, <2>5, <2>8 DEF v
<1> HIDE DEF S
<1>6. n \in S
  BY <1>4, <1>5, SetInduction
<1> QED BY <1>2, <1>6 DEF S

LEMMA SumCongruent ==
  ASSUME NEW F, NEW G, NEW n \in Nat,
         \A i \in Nat : i < n => F[i] \in Int /\ G[i] \in Int /\ Congruent(F[i], G[i])
  PROVE  Congruent(Sum(F, n), Sum(G, n))
<1>1. \A i \in Nat : i < n => /\ F[i] \in Int /\ G[i] \in Int /\ G[i] \in Int
                              /\ Congruent(F[i], G[i] + 0 * G[i])
  <2> TAKE i \in Nat
  <2> HAVE i < n
  <2>1. F[i] \in Int /\ G[i] \in Int /\ Congruent(F[i], G[i])
    OBVIOUS
  <2>2. G[i] + 0 * G[i] = G[i]
    BY <2>1
  <2> QED BY <2>1, <2>2
<1>2. 0 \in Int /\ Sum(G, n) \in Int
  BY SumInt
<1>3. Congruent(Sum(F, n), Sum(G, n) + 0 * Sum(G, n))
  BY <1>1, <1>2, SumLinear
<1>4. Sum(G, n) + 0 * Sum(G, n) = Sum(G, n)
  BY <1>2
<1> QED BY <1>3, <1>4

\* Sixteen blocks of sixteen summands are the 256 of the product modulo X^256 + 1.
LEMMA SummandsAre ==
  ASSUME NEW f, NEW g, NEW n \in Coeffs, NEW b \in Nat, b < 16, NEW i \in Nat, i < 16
  PROVE  Summands(f, g, n, b)[i] = Terms(f, g, 256, -1, 0, n)[16 * b + i]
<1> DEFINE k == 16 * b + i
<1>1. i \in 0..15 /\ k \in Nat /\ k <= 255 /\ n \in Nat /\ n <= 255
  BY SMT, CoeffsIff DEF Within
<1> HIDE DEF k
<1>2. k \in 0..256-1 /\ 0 + k = k
  BY <1>1, SMT
<1> DEFINE m == IF k <= n THEN n - k ELSE 256 + n - k
<1>3. (n - k) % KYBER_N = m /\ 0 + m = m
  BY <1>1, SMT DEF KYBER_N
<1>4. Summands(f, g, n, b)[i] = f[k] * g[(n - k) % KYBER_N] * (IF k <= n THEN 1 ELSE -1)
  BY <1>1, Zenon DEF Summands, k
<1>5. Terms(f, g, 256, -1, 0, n)[k] = f[0 + k] * g[0 + m] * (IF k <= n THEN 1 ELSE -1)
  BY <1>2, Zenon DEF Terms
<1> HIDE DEF m
<1> QED BY <1>2, <1>3, <1>4, <1>5, Zenon DEF k

LEMMA ProductIs ==
  ASSUME NEW f, NEW g, Poly(f), Poly(g), NEW n \in Coeffs
  PROVE  /\ Product(f, g, n) \in Int /\ Conv(f, g, 256, -1, 0, n) \in Int
         /\ Congruent(Product(f, g, n), Conv(f, g, 256, -1, 0, n))
<1> DEFINE t == Terms(f, g, 256, -1, 0, n)
           block(b) == Summands(f, g, n, b)
           B == [b \in 0..15 |-> SumOf(block(b), 16)]
<1>1. 256 \in Nat /\ -1 \in Int /\ 0 \in Nat /\ n \in Nat /\ n < 256
  BY CoeffsIff DEF Within
<1>2. Ints(f, 0, 256) /\ Ints(g, 0, 256)
  <2> SUFFICES ASSUME NEW a \in Nat, a < 256 PROVE 0 + a \in Coeffs
    BY DEF Ints, Poly
  <2> QED BY CoeffsIff DEF Within
<1>3. \A a \in Nat : a < 256 => t[a] \in Int
  <2>1. IsTerms(t, f, g, 256, -1, 0, n)
    BY <1>1, <1>2, TermsAre
  <2> HIDE DEF t
  <2> QED BY <2>1, Zenon DEF IsTerms
<1>4. \A b, i \in Nat : b < 16 /\ i < 16 => block(b)[i] = t[16 * b + i]
  BY SummandsAre
<1> HIDE DEF t, block
<1>5. \A b, i \in Nat : b < 16 /\ i < 16 => block(b)[i] \in Int
  <2> SUFFICES ASSUME NEW b \in Nat, NEW i \in Nat, b < 16, i < 16
               PROVE  block(b)[i] \in Int
    BY Zenon
  <2>1. 16 * b + i \in Nat /\ 16 * b + i < 256
    BY SMT
  <2> QED BY <1>3, <1>4, <2>1
<1>6. \A b \in Nat : b < 16 =>
          /\ B[b] \in Int /\ Sum(block(b), 16) \in Int
          /\ Congruent(B[b], Sum(block(b), 16))
  <2> SUFFICES ASSUME NEW b \in Nat, b < 16
               PROVE  /\ B[b] \in Int /\ Sum(block(b), 16) \in Int
                      /\ Congruent(B[b], Sum(block(b), 16))
    BY Zenon
  <2>1. B[b] = SumOf(block(b), 16)
    <3>1. b \in 0..15
      BY SMT
    <3> QED BY <3>1, Zenon
  <2> DEFINE h == block(b)
  <2>2. 16 \in Nat /\ \A i \in Nat : i < 16 => h[i] \in Int
    BY <1>5
  <2> HIDE DEF h
  <2>3. /\ SumOf(h, 16) \in Int /\ Congruent(SumOf(h, 16), Sum(h, 16))
        /\ Sum(h, 16) \in Int
    BY <2>2, SumOfIs, SumInt
  <2> QED BY <2>1, <2>3 DEF h
<1>7. Product(f, g, n) = SumOf(B, 16)
  BY Zenon DEF Product, block
<1> HIDE DEF B
<1>8. \A b \in Nat : b <= 16 => Sum(B, b) \in Int
  <2> SUFFICES ASSUME NEW b \in Nat, b <= 16 PROVE Sum(B, b) \in Int
    OBVIOUS
  <2>1. \A i \in Nat : i < b => B[i] \in Int
    BY <1>6
  <2> QED BY <2>1, SumInt
<1>9. \A b \in Nat : b <= 256 => Sum(t, b) \in Int
  <2> SUFFICES ASSUME NEW b \in Nat, b <= 256 PROVE Sum(t, b) \in Int
    OBVIOUS
  <2>1. \A i \in Nat : i < b => t[i] \in Int
    BY <1>3
  <2> QED BY <2>1, SumInt
<1> DEFINE S == {b \in Nat : b <= 16 => Congruent(Sum(B, b), Sum(t, 16 * b))}
<1>10. 0 \in S
  <2>1. Sum(B, 0) = 0 /\ Sum(t, 0) = 0 /\ 16 * 0 = 0 /\ Congruent(0, 0)
    BY SumStep, CongruentRefl
  <2> QED BY <2>1
<1>11. ASSUME NEW b \in Nat, b \in S PROVE b + 1 \in S
  <2> SUFFICES ASSUME b + 1 <= 16 PROVE Congruent(Sum(B, b + 1), Sum(t, 16 * (b + 1)))
    OBVIOUS
  <2> DEFINE h == block(b)  m == 16 * b
  <2>1. /\ b < 16 /\ b <= 16 /\ m \in Nat /\ m <= 256 /\ m + 16 <= 256 /\ 16 * (b + 1) = m + 16
        /\ 16 \in Nat
    BY SMT
  <2>2. \A i \in Nat : i < m + 16 => t[i] \in Int
    BY <1>3, <2>1
  <2>3. \A i \in Nat : i < 16 => h[i] = t[m + i]
    BY <1>4, <2>1
  <2> HIDE DEF h, m
  <2>4. Sum(t, m + 16) = Sum(t, m) + Sum(h, 16)
    BY <2>1, <2>2, <2>3, SumSplit
  <2>5. Sum(B, b + 1) = Sum(B, b) + B[b]
    BY SumStep
  <2> DEFINE x == Sum(B, b)  y == Sum(t, m)  z == B[b]  w == Sum(h, 16)
  <2>6. /\ x \in Int /\ y \in Int /\ z \in Int /\ w \in Int
        /\ Congruent(x, y) /\ Congruent(z, w)
    BY <1>6, <1>8, <1>9, <1>11, <2>1 DEF h, m
  <2> HIDE DEF x, y, z, w
  <2>7. Congruent(x + z, y + w)
    BY <2>6, CongruentSum
  <2>8. Sum(B, b + 1) = x + z /\ Sum(t, 16 * (b + 1)) = y + w
    BY <2>1, <2>4, <2>5 DEF x, y, z, w
  <2> QED BY <2>7, <2>8
<1> HIDE DEF S
<1>12. Congruent(Sum(B, 16), Sum(t, 256))
  <2>1. 16 \in S
    BY <1>10, <1>11, SetInduction
  <2>2. 16 <= 16 /\ 16 * 16 = 256
    OBVIOUS
  <2> QED BY <2>1, <2>2 DEF S
<1>13. SumOf(B, 16) \in Int /\ Congruent(SumOf(B, 16), Sum(B, 16))
  BY <1>6, SumOfIs
<1>14. Congruent(SumOf(B, 16), Sum(t, 256)) /\ Sum(t, 256) \in Int
  <2> DEFINE x == SumOf(B, 16)  y == Sum(B, 16)  z == Sum(t, 256)
  <2>1. /\ x \in Int /\ y \in Int /\ z \in Int /\ Congruent(x, y) /\ Congruent(y, z)
    BY <1>8, <1>9, <1>12, <1>13
  <2> HIDE DEF x, y, z
  <2>2. Congruent(x, z)
    BY <2>1, CongruentTrans
  <2> QED BY <2>1, <2>2 DEF x, z
<1>15. Conv(f, g, 256, -1, 0, n) = Sum(t, 256)
  BY Zenon DEF Conv, t
<1> QED BY <1>7, <1>13, <1>14, <1>15

-----------------------------------------------------------------------------
(* Sums of polynomials, and the chain of layers *)

IsSum(h, f, g) == \A j \in Coeffs : h[j] = f[j] + g[j]

LEMMA LayerSum ==
  ASSUME NEW len \in Lens, NEW f, NEW g, NEW h, Poly(f), Poly(g), IsSum(h, f, g)
  PROVE  IsSum(Layer(h, len), Layer(f, len), Layer(g, len))
<1> SUFFICES ASSUME NEW j \in Coeffs
             PROVE  Layer(h, len)[j] = Layer(f, len)[j] + Layer(g, len)[j]
  BY Zenon DEF IsSum
<1> DEFINE z == 169 * NttZeta(j, len)
<1>1. z \in Int
  BY ZetaIndices DEF Within
<1>2. \A q \in {f, g, h} : Layer(q, len)[j] = IF First(j, len) THEN q[j] + z * q[j + len]
                                              ELSE q[j - len] - z * q[j]
  BY Zenon DEF Layer
<1> HIDE DEF z
<1>3. ASSUME NEW x0 \in Int, NEW x1 \in Int, NEW y0 \in Int, NEW y1 \in Int
      PROVE  /\ (x0 + y0) + z * (x1 + y1) = (x0 + z * x1) + (y0 + z * y1)
             /\ (x0 + y0) - z * (x1 + y1) = (x0 - z * x1) + (y0 - z * y1)
  BY <1>1, SMT
<1>4. CASE First(j, len)
  <2>1. j + len \in Coeffs
    BY <1>4, Partners
  <2>2. /\ f[j] \in Int /\ f[j + len] \in Int /\ g[j] \in Int /\ g[j + len] \in Int
        /\ h[j] = f[j] + g[j] /\ h[j + len] = f[j + len] + g[j + len]
    BY <2>1 DEF Poly, IsSum
  <2>3. (f[j] + g[j]) + z * (f[j + len] + g[j + len])
          = (f[j] + z * f[j + len]) + (g[j] + z * g[j + len])
    <3> DEFINE x0 == f[j]  x1 == f[j + len]  y0 == g[j]  y1 == g[j + len]
    <3>1. x0 \in Int /\ x1 \in Int /\ y0 \in Int /\ y1 \in Int
      BY <2>2
    <3> HIDE DEF x0, x1, y0, y1
    <3>2. (x0 + y0) + z * (x1 + y1) = (x0 + z * x1) + (y0 + z * y1)
      BY <1>3, <3>1
    <3> QED BY <3>2 DEF x0, x1, y0, y1
  <2> QED BY <1>2, <1>4, <2>2, <2>3, Zenon
<1>5. CASE ~First(j, len)
  <2>1. j - len \in Coeffs
    BY <1>5, Partners
  <2>2. /\ f[j] \in Int /\ f[j - len] \in Int /\ g[j] \in Int /\ g[j - len] \in Int
        /\ h[j] = f[j] + g[j] /\ h[j - len] = f[j - len] + g[j - len]
    BY <2>1 DEF Poly, IsSum
  <2>3. (f[j - len] + g[j - len]) - z * (f[j] + g[j])
          = (f[j - len] - z * f[j]) + (g[j - len] - z * g[j])
    <3> DEFINE x0 == f[j - len]  x1 == f[j]  y0 == g[j - len]  y1 == g[j]
    <3>1. x0 \in Int /\ x1 \in Int /\ y0 \in Int /\ y1 \in Int
      BY <2>2
    <3> HIDE DEF x0, x1, y0, y1
    <3>2. (x0 + y0) - z * (x1 + y1) = (x0 - z * x1) + (y0 - z * y1)
      BY <1>3, <3>1
    <3> QED BY <3>2 DEF x0, x1, y0, y1
  <2> QED BY <1>2, <1>5, <2>2, <2>3, Zenon
<1> QED BY <1>4, <1>5

LEMMA LevelSum ==
  ASSUME NEW f, NEW g, NEW h, Poly(f), Poly(g), IsSum(h, f, g)
  PROVE  \A n \in 0..7 : IsSum(Level(h, n), Level(f, n), Level(g, n))
<1> DEFINE S == {n \in Nat : n <= 7 => IsSum(Level(h, n), Level(f, n), Level(g, n))}
<1>1. 0 \in S
  BY LevelStep
<1>2. ASSUME NEW n \in Nat, n \in S PROVE n + 1 \in S
  <2> SUFFICES ASSUME n + 1 <= 7
               PROVE  IsSum(Level(h, n + 1), Level(f, n + 1), Level(g, n + 1))
    OBVIOUS
  <2> DEFINE x == Level(f, n)  y == Level(g, n)  w == Level(h, n)  len == NttLen(n)
  <2>1. n \in 0..6 /\ n \in 0..7 /\ IsSum(w, x, y)
    BY <1>2
  <2>2. /\ Level(f, n + 1) = Layer(x, len) /\ Level(g, n + 1) = Layer(y, len)
        /\ Level(h, n + 1) = Layer(w, len)
    BY <2>1, LevelStep
  <2>3. Poly(x) /\ Poly(y) /\ len \in Lens
    BY <2>1, LevelPoly, LenType
  <2> HIDE DEF x, y, w, len
  <2>4. IsSum(Layer(w, len), Layer(x, len), Layer(y, len))
    BY <2>1, <2>3, LayerSum
  <2> QED BY <2>2, <2>4
<1> HIDE DEF S
<1>3. Nat \subseteq S
  BY <1>1, <1>2, SetInduction
<1> QED BY <1>3 DEF S

\* Coefficient 0 + .. of the only block of 256.
LEMMA TopProduct ==
  ASSUME NEW f, NEW g, Poly(f), Poly(g),
         NEW h, h = [j \in Coeffs |-> Conv(f, g, 256, -1, 0, j)]
  PROVE  Poly(h) /\ IsProduct(f, g, h, 256)
<1>1. Ints(f, 0, 256) /\ Ints(g, 0, 256)
  <2> SUFFICES ASSUME NEW a \in Nat, a < 256 PROVE 0 + a \in Coeffs
    BY DEF Ints, Poly
  <2> QED BY CoeffsIff DEF Within
<1>2. \A j \in Coeffs : Conv(f, g, 256, -1, 0, j) \in Int
  <2> TAKE j \in Coeffs
  <2>1. 256 \in Nat /\ -1 \in Int /\ 0 \in Nat /\ j \in Nat /\ j < 256
    BY CoeffsIff DEF Within
  <2> QED BY <1>1, <2>1, ConvInt
<1>3. \A j \in Coeffs : h[j] = Conv(f, g, 256, -1, 0, j)
  BY Zenon
<1>4. Poly(h)
  BY <1>2, <1>3, Zenon DEF Poly
<1>5. ASSUME NEW c \in Coeffs, NEW i \in Nat, c % 256 = 0, i < 256
      PROVE  Congruent(h[c + i], Conv(f, g, 256, Root(256, c), c, i))
  <2>1. c = 0 /\ i \in Coeffs /\ 0 + i = i
    BY <1>5, SMT, CoeffsIff DEF Within
  <2>2. Root(256, c) = -1
    BY Zenon DEF Root
  <2>3. h[c + i] = Conv(f, g, 256, -1, 0, i) /\ h[c + i] \in Int
    BY <1>2, <1>3, <2>1, ZenonT(40)
  <2>4. Congruent(h[c + i], h[c + i])
    BY <2>3, CongruentRefl
  <2> QED BY <2>1, <2>2, <2>3, <2>4, ZenonT(40)
<1> QED BY <1>4, <1>5, ZenonT(40) DEF IsProduct

SizeAt(n) == IF n = 0 THEN 256 ELSE NttLen(n - 1)

LEMMA LevelProduct ==
  ASSUME NEW f, NEW g, NEW h, Poly(f), Poly(g), Poly(h), IsProduct(f, g, h, 256)
  PROVE  IsProduct(Level(f, 7), Level(g, 7), Level(h, 7), 2)
<1> DEFINE S == {n \in Nat : n <= 7 => IsProduct(Level(f, n), Level(g, n), Level(h, n), SizeAt(n))}
<1>1. 0 \in S
  <2>1. SizeAt(0) = 256
    BY DEF SizeAt
  <2> QED BY <2>1, LevelStep
<1>2. ASSUME NEW n \in Nat, n \in S PROVE n + 1 \in S
  <2> SUFFICES ASSUME n + 1 <= 7
               PROVE  IsProduct(Level(f, n + 1), Level(g, n + 1), Level(h, n + 1), SizeAt(n + 1))
    OBVIOUS
  <2> DEFINE x == Level(f, n)  y == Level(g, n)  w == Level(h, n)  len == NttLen(n)
  <2>1. n \in 0..6 /\ n \in 0..7
    OBVIOUS
  <2>2. SizeAt(n) = 2 * len /\ SizeAt(n + 1) = len
    BY <2>1, NttLens DEF SizeAt
  <2>3. /\ Level(f, n + 1) = Layer(x, len) /\ Level(g, n + 1) = Layer(y, len)
        /\ Level(h, n + 1) = Layer(w, len)
    BY <2>1, LevelStep
  <2>4. Poly(x) /\ Poly(y) /\ Poly(w) /\ len \in Lens
    BY <2>1, LevelPoly, LenType
  <2>5. IsProduct(x, y, w, 2 * len)
    BY <1>2, <2>2
  <2> HIDE DEF x, y, w, len
  <2>6. IsProduct(Layer(x, len), Layer(y, len), Layer(w, len), len)
    BY <2>4, <2>5, LayerProduct
  <2> QED BY <2>2, <2>3, <2>6
<1> HIDE DEF S
<1>3. 7 \in S
  BY <1>1, <1>2, SetInduction
<1>4. SizeAt(7) = 2
  BY NttLens DEF SizeAt
<1> QED BY <1>3, <1>4 DEF S

Stored(f) == Bounded(f, -32767, 32767)

\* A layer of the reference's transform, as long as no sum leaves int16_t.
LEMMA ForwardResidue ==
  ASSUME NEW len \in Lens, NEW s, Stored(s),
         \A i \in Coeffs : NttSum(s, len, i) \in Int16s,
         NEW f, Poly(f), Agree(s, f), NEW j \in Coeffs
  PROVE  Congruent(NttLayer(s, len)[j], Layer(f, len)[j])
<1> DEFINE y == NttZeta(j, len)  z == 169 * y
<1>1. Within(y, -3329, 3329) /\ y \in Int /\ z \in Int
  BY ZetaIndices, SMT DEF Within
<1>2. NttLayer(s, len)[j] = NttSum(s, len, j)
  <2>1. Int16(NttSum(s, len, j)) = NttSum(s, len, j)
    BY Int16sIff, Int16Exact
  <2> QED BY <2>1 DEF NttLayer
<1>3. ASSUME NEW x, Within(x, -32767, 32767), NEW v \in Int, Congruent(x, v)
      PROVE  fqmul(y, x) \in Int /\ Congruent(fqmul(y, x), z * v) /\ z * v \in Int
  <2> HIDE DEF y
  <2>1. x \in Int
    BY <1>3 DEF Within
  <2>2. y * x = x * y /\ x * y \in Int
    BY <1>1, <2>1, SMT
  <2>3. fqmul(y, x) = fqmul(x, y)
    BY <2>2 DEF fqmul
  <2>4. fqmul(x, y) \in Int /\ Congruent(fqmul(x, y), 169 * (x * y))
    BY <1>1, <1>3, FqmulResidue DEF Within
  <2>5. Congruent(x * y, v * y)
    BY <1>1, <1>3, <2>1, CongruentRefl, CongruentProduct
  <2> DEFINE a == x * y  b == v * y
  <2>6. a \in Int /\ b \in Int /\ Congruent(a, b) /\ z * v = 169 * b
    BY <1>1, <2>2, <2>5, SMT
  <2> DEFINE m == fqmul(x, y)  U == 169 * a  w == 169 * b
  <2>7. m \in Int /\ Congruent(m, U)
    BY <2>4
  <2> HIDE DEF a, b, m
  <2>8. U \in Int /\ w \in Int /\ Congruent(U, w)
    BY <2>6, CongruentTimes
  <2> HIDE DEF U, w
  <2>9. Congruent(m, w)
    BY <2>7, <2>8, CongruentTrans
  <2> QED BY <2>3, <2>6, <2>7, <2>8, <2>9 DEF m, w
<1>4. CASE First(j, len)
  <2> DEFINE a == s[j]  b == fqmul(y, s[j + len])  v == f[j]  w == z * f[j + len]
  <2>1. j + len \in Coeffs
    BY <1>4, Partners
  <2>2. NttSum(s, len, j) = a + b
    BY <1>4 DEF NttSum
  <2>3. Layer(f, len)[j] = v + w
    BY <1>4, Zenon DEF Layer
  <2>4. /\ a \in Int /\ v \in Int /\ Congruent(a, v)
        /\ b \in Int /\ w \in Int /\ Congruent(b, w)
    BY <1>3, <2>1 DEF Stored, Bounded, Poly, Agree, Within
  <2> HIDE DEF a, b, v, w
  <2>5. Congruent(a + b, v + w)
    BY <2>4, CongruentSum
  <2> QED BY <1>2, <2>2, <2>3, <2>5
<1>5. CASE ~First(j, len)
  <2> DEFINE a == s[j - len]  b == fqmul(y, s[j])  v == f[j - len]  w == z * f[j]
  <2>1. j - len \in Coeffs
    BY <1>5, Partners
  <2>2. NttSum(s, len, j) = a - b
    BY <1>5 DEF NttSum
  <2>3. Layer(f, len)[j] = v - w
    BY <1>5, Zenon DEF Layer
  <2>4. /\ a \in Int /\ v \in Int /\ Congruent(a, v)
        /\ b \in Int /\ w \in Int /\ Congruent(b, w)
    BY <1>3, <2>1 DEF Stored, Bounded, Poly, Agree, Within
  <2> HIDE DEF a, b, v, w
  <2>5. Congruent(a - b, v - w)
    BY <2>4, CongruentSum
  <2> QED BY <1>2, <2>2, <2>3, <2>5
<1> QED BY <1>4, <1>5

-----------------------------------------------------------------------------
(* What the passes compute *)

Times(f, g) == [j \in Coeffs |-> Conv(f, g, 256, -1, 0, j)]
\* The first t products of polynomials q[0], .., q[2K-1] added up.
Addends(q, j) == [s \in 0..K-1 |-> Times(q[s], q[K + s])[j]]
Partial(q, t) == [j \in Coeffs |-> Sum(Addends(q, j), t)]

Polys(q) == \A s \in Slots : Poly(q[s])
Multiple(f, c, g) == \A j \in Coeffs : Congruent(f[j], c * g[j])
\* 2^-16 times the powers of 2 that the layers of the inverse transform leave.
Scale(n) == <<169, 338, 676, 1352, 2704, 5408, 10816, 21632>>[n + 1]
Pass == IF pc = "ntt" THEN layer ELSE 7
Key(q, j) == Level(Partial(q, K), 7)[j] + Level(q[2*K], 7)[j]

Tracked ==
    /\ Polys(input) /\ \A s \in Slots : Agree(p[s], Level(input[s], Pass))
    /\ pc = "ntt" => term = 0
    /\ pc = "acc" => layer = 0 /\ Multiple(r, 169, Level(Partial(input, term), 7))
    /\ pc = "tomont" => keygen /\ Multiple(r, 169, Level(Partial(input, K), 7))
    /\ pc = "invntt" => ~keygen /\ Multiple(r, Scale(layer), Level(Partial(input, K), 7 - layer))
    /\ pc = "done" => Poly(r)
    /\ pc = "done" /\ keygen => \A j \in Coeffs : Congruent(r[j], Key(input, j))
    /\ pc = "done" /\ ~keygen => Agree(r, Partial(input, K))

LEMMA TimesIs ==
  ASSUME NEW q, Polys(q), NEW s \in Int, 0 <= s, s < K
  PROVE  /\ s \in Slots /\ K + s \in Slots /\ s \in 0..K-1
         /\ Poly(q[s]) /\ Poly(q[K + s]) /\ Poly(Times(q[s], q[K + s]))
         /\ IsProduct(q[s], q[K + s], Times(q[s], q[K + s]), 256)
<1>1. s \in Slots /\ K + s \in Slots /\ s \in 0..K-1
  BY SlotsFacts DEF Within
<1>2. Poly(q[s]) /\ Poly(q[K + s])
  BY <1>1 DEF Polys
<1>3. /\ Poly(Times(q[s], q[K + s]))
      /\ IsProduct(q[s], q[K + s], Times(q[s], q[K + s]), 256)
  <2> DEFINE f == q[s]  g == q[K + s]  h == Times(f, g)
  <2>1. Poly(f) /\ Poly(g) /\ h = [j \in Coeffs |-> Conv(f, g, 256, -1, 0, j)]
    BY <1>2 DEF Times
  <2> HIDE DEF f, g, h
  <2>2. Poly(h) /\ IsProduct(f, g, h, 256)
    BY <2>1, TopProduct
  <2> QED BY <2>2 DEF f, g, h
<1> QED BY <1>1, <1>2, <1>3

LEMMA PartialFacts ==
  ASSUME NEW q, Polys(q)
  PROVE  /\ \A j \in Coeffs : Partial(q, 0)[j] = 0
         /\ \A t \in Nat : t <= K => Poly(Partial(q, t))
         /\ \A t \in Nat : t < K =>
               IsSum(Partial(q, t + 1), Partial(q, t), Times(q[t], q[K + t]))
<1>1. \A t \in Nat, j \in Coeffs : Partial(q, t)[j] = Sum(Addends(q, j), t)
  BY Zenon DEF Partial
<1>2. \A j \in Coeffs : Partial(q, 0)[j] = 0
  BY <1>1, SumStep
<1>3. \A j \in Coeffs, t \in Nat : t < K => /\ Addends(q, j)[t] = Times(q[t], q[K + t])[j]
                                            /\ Addends(q, j)[t] \in Int
  <2> SUFFICES ASSUME NEW j \in Coeffs, NEW t \in Nat, t < K
               PROVE  /\ Addends(q, j)[t] = Times(q[t], q[K + t])[j]
                      /\ Addends(q, j)[t] \in Int
    OBVIOUS
  <2>1. t \in 0..K-1 /\ Poly(Times(q[t], q[K + t]))
    BY TimesIs
  <2>2. Addends(q, j)[t] = Times(q[t], q[K + t])[j]
    BY <2>1, Zenon DEF Addends
  <2> QED BY <2>1, <2>2 DEF Poly
<1>4. \A t \in Nat : t <= K => Poly(Partial(q, t))
  <2> SUFFICES ASSUME NEW t \in Nat, t <= K, NEW j \in Coeffs PROVE Partial(q, t)[j] \in Int
    BY Zenon DEF Poly
  <2>1. \A s \in Nat : s < t => Addends(q, j)[s] \in Int
    BY <1>3, SlotsFacts
  <2> QED BY <1>1, <2>1, SumInt
<1>5. \A t \in Nat : t < K =>
         IsSum(Partial(q, t + 1), Partial(q, t), Times(q[t], q[K + t]))
  <2> SUFFICES ASSUME NEW t \in Nat, t < K, NEW j \in Coeffs
               PROVE  Partial(q, t + 1)[j] = Partial(q, t)[j] + Times(q[t], q[K + t])[j]
    BY Zenon DEF IsSum
  <2>1. t + 1 \in Nat
    OBVIOUS
  <2>2. Sum(Addends(q, j), t + 1) = Sum(Addends(q, j), t) + Addends(q, j)[t]
    BY SumStep
  <2> QED BY <1>1, <1>3, <2>1, <2>2
<1> QED BY <1>2, <1>4, <1>5

\* The same after the transform.
LEMMA LevelPartial ==
  ASSUME NEW q, Polys(q)
  PROVE  /\ \A j \in Coeffs : Level(Partial(q, 0), 7)[j] = 0
         /\ \A t \in Nat : t < K =>
               IsSum(Level(Partial(q, t + 1), 7), Level(Partial(q, t), 7),
                     Level(Times(q[t], q[K + t]), 7))
         /\ \A t \in Nat : t <= K => Poly(Level(Partial(q, t), 7))
<1>1. 7 \in 0..7 /\ 0 \in Nat /\ 0 <= K
  BY SlotsFacts
<1>2. \A t \in Nat : t <= K => Poly(Level(Partial(q, t), 7))
  BY <1>1, PartialFacts, LevelPoly
<1>3. \A j \in Coeffs : Level(Partial(q, 0), 7)[j] = 0
  <2> DEFINE z == Partial(q, 0)
  <2>1. Poly(z) /\ \A j \in Coeffs : z[j] = 0
    BY <1>1, PartialFacts
  <2> HIDE DEF z
  <2>2. IsSum(z, z, z)
    BY <2>1 DEF IsSum
  <2>3. IsSum(Level(z, 7), Level(z, 7), Level(z, 7)) /\ Poly(Level(z, 7))
    BY <1>1, <2>1, <2>2, LevelSum, LevelPoly
  <2> SUFFICES ASSUME NEW j \in Coeffs PROVE Level(z, 7)[j] = 0
    BY DEF z
  <2> DEFINE x == Level(z, 7)[j]
  <2>4. x \in Int /\ x = x + x
    BY <2>3, Zenon DEF IsSum, Poly
  <2> HIDE DEF x
  <2>5. x = 0
    BY <2>4
  <2> QED BY <2>5 DEF x
<1>4. \A t \in Nat : t < K =>
         IsSum(Level(Partial(q, t + 1), 7), Level(Partial(q, t), 7),
               Level(Times(q[t], q[K + t]), 7))
  <2> SUFFICES ASSUME NEW t \in Nat, t < K
               PROVE  IsSum(Level(Partial(q, t + 1), 7), Level(Partial(q, t), 7),
                            Level(Times(q[t], q[K + t]), 7))
    OBVIOUS
  <2> DEFINE f == Partial(q, t)  g == Times(q[t], q[K + t])  h == Partial(q, t + 1)
  <2>1. Poly(f) /\ Poly(g) /\ IsSum(h, f, g)
    BY PartialFacts, TimesIs, SlotsFacts
  <2> HIDE DEF f, g, h
  <2>2. IsSum(Level(h, 7), Level(f, 7), Level(g, 7))
    BY <1>1, <2>1, LevelSum
  <2> QED BY <2>2 DEF f, g, h
<1> QED BY <1>2, <1>3, <1>4

LEMMA Scales ==
  /\ Scale(0) = 169 /\ \A n \in 0..7 : Scale(n) \in Int
  /\ \A n \in 0..6 : Scale(n + 1) = 2 * Scale(n)
  /\ Congruent(169 * (1441 * Scale(7)), 1)
<1>1. /\ Scale(0) = 169 /\ Scale(1) = 338 /\ Scale(2) = 676 /\ Scale(3) = 1352
      /\ Scale(4) = 2704 /\ Scale(5) = 5408 /\ Scale(6) = 10816 /\ Scale(7) = 21632
  BY SMT DEF Scale
<1>2. Congruent(169 * (1441 * Scale(7)), 1)
  BY <1>1, SMT DEF Congruent, KYBER_Q
<1> QED BY <1>1, <1>2, SMT

-----------------------------------------------------------------------------

LEMMA InitTracked == MulInit => Tracked
<1> SUFFICES ASSUME MulInit PROVE Tracked
  OBVIOUS
<1>1. \A s \in Slots, j \in Coeffs : input[s][j] \in Int
  <2>1. \A s \in Slots, j \in Coeffs : input[s][j] \in -(KYBER_Q-1)..KYBER_Q-1
    BY InputsAssumption DEF MulInit
  <2>2. KYBER_Q \in Int
    BY DEF KYBER_Q
  <2> QED BY <2>1, <2>2
<1>2. Polys(input)
  BY <1>1, Zenon DEF Polys, Poly
<1>3. ASSUME NEW s \in Slots PROVE Agree(p[s], Level(input[s], Pass))
  <2>1. Pass = 0 /\ p = input
    BY DEF MulInit, Pass
  <2>2. Level(input[s], Pass) = input[s]
    BY <2>1, LevelStep
  <2>3. \A j \in Coeffs : Congruent(input[s][j], input[s][j])
    BY <1>1, CongruentRefl
  <2> QED BY <2>1, <2>2, <2>3, Zenon DEF Agree
<1>4. pc = "ntt" /\ term = 0
  BY DEF MulInit
<1> QED BY <1>2, <1>3, <1>4 DEF Tracked

LEMMA NttTracked == IInv /\ Tracked /\ ntt => Tracked'
<1> SUFFICES ASSUME IInv, Tracked, ntt PROVE Tracked'
  OBVIOUS
<1>1. /\ pc = "ntt" /\ layer < 7 /\ layer' = layer + 1 /\ pc' = "ntt"
      /\ p' = [s \in Slots |-> NttLayer(p[s], NttLen(layer))]
      /\ UNCHANGED <<keygen, input, term, r, hr>>
  BY DEF ntt
<1>2. layer \in 0..6 /\ layer \in 0..7 /\ NttLen(layer) \in Lens
  <2>1. layer \in 0..6 /\ layer \in 0..7
    BY SMT, <1>1 DEF IInv, Control, Within
  <2> QED BY <2>1, LenType
<1>3. Polys(input) /\ term = 0 /\ \A s \in Slots : Agree(p[s], Level(input[s], layer))
  BY <1>1 DEF Tracked, Pass
<1>4. ASSUME NEW s \in Slots PROVE Agree(p'[s], Level(input[s], layer + 1))
  <2> DEFINE x == p[s]  f == Level(input[s], layer)  len == NttLen(layer)
  <2>1. Poly(f)
    BY <1>2, <1>3, LevelPoly DEF Polys
  <2>2. Stored(x)
    <3>1. Bounded(p[s], -(3328 * (layer + 1)), 3328 * (layer + 1))
      BY <1>1 DEF IInv, Transformed
    <3>2. ASSUME NEW j \in Coeffs PROVE Within(p[s][j], -32767, 32767)
      <4>1. Within(p[s][j], -(3328 * (layer + 1)), 3328 * (layer + 1))
        BY <3>1 DEF Bounded
      <4> QED BY SMT, <1>2, <4>1 DEF Within
    <3> QED BY <3>2 DEF Stored, Bounded
  <2>3. \A i \in Coeffs : NttSum(x, len, i) \in Int16s
    BY <1>1, NothingOverflows DEF NoOverflow
  <2>4. Agree(x, f) /\ len \in Lens
    BY <1>2, <1>3
  <2>5. Level(input[s], layer + 1) = Layer(f, len)
    BY <1>2, LevelStep
  <2>6. p'[s] = NttLayer(x, len)
    BY <1>1
  <2> HIDE DEF x, f, len
  <2>7. \A j \in Coeffs : Congruent(NttLayer(x, len)[j], Layer(f, len)[j])
    BY <2>1, <2>2, <2>3, <2>4, ForwardResidue
  <2> QED BY <2>5, <2>6, <2>7 DEF Agree
<1>5. \A s \in Slots : Agree(p'[s], Level(input'[s], Pass'))
  BY <1>1, <1>4 DEF Pass
<1> QED BY <1>1, <1>3, <1>5 DEF Tracked

LEMMA ReduceNttTracked == IInv /\ Tracked /\ reduce_ntt => Tracked'
<1> SUFFICES ASSUME IInv, Tracked, reduce_ntt PROVE Tracked'
  OBVIOUS
<1>1. /\ pc = "ntt" /\ layer = 7 /\ pc' = "acc" /\ layer' = 0
      /\ p' = [s \in Slots |-> poly_reduce(p[s])]
      /\ UNCHANGED <<keygen, input, term, r, hp>>
  BY DEF reduce_ntt
<1>2. Polys(input) /\ term = 0 /\ \A s \in Slots : Agree(p[s], Level(input[s], 7))
  BY <1>1 DEF Tracked, Pass
<1>3. ASSUME NEW s \in Slots, NEW j \in Coeffs
      PROVE  Congruent(p'[s][j], Level(input[s], 7)[j])
  <2> DEFINE x == p[s][j]  b == barrett_reduce(x)  y == Level(input[s], 7)[j]
  <2>1. p'[s][j] = b
    BY <1>1 DEF poly_reduce
  <2>2. Within(x, -32768, 32767)
    <3>1. Bounded(p[s], -(3328 * (layer + 1)), 3328 * (layer + 1))
      BY <1>1 DEF IInv, Transformed
    <3> QED BY SMT, <1>1, <3>1 DEF Bounded, Within
  <2>3. Congruent(x, y) /\ y \in Int
    <3>1. Poly(Level(input[s], 7)) /\ Agree(p[s], Level(input[s], 7))
      BY <1>2, LevelPoly DEF Polys
    <3> QED BY <3>1, Zenon DEF Agree, Poly
  <2> HIDE DEF x, y
  <2>4. b \in Int /\ x \in Int /\ Congruent(b, x)
    BY <2>2, BarrettCorrect DEF Within
  <2> HIDE DEF b
  <2>5. Congruent(b, y)
    BY <2>3, <2>4, CongruentTrans
  <2> QED BY <2>1, <2>5 DEF y
<1>4. Multiple(r, 169, Level(Partial(input, 0), 7))
  <2> SUFFICES ASSUME NEW j \in Coeffs
               PROVE  Congruent(r[j], 169 * Level(Partial(input, 0), 7)[j])
    BY Zenon DEF Multiple
  <2>1. r[j] = 0
    BY <1>1 DEF IInv, Accumulated
  <2>2. Level(Partial(input, 0), 7)[j] = 0
    BY <1>2, LevelPartial
  <2>3. 169 * 0 = 0 /\ Congruent(0, 0)
    BY CongruentRefl
  <2> QED BY <2>1, <2>2, <2>3
<1>5. \A s \in Slots : Agree(p'[s], Level(input'[s], Pass'))
  BY <1>1, <1>3 DEF Agree, Pass
<1>6. pc' # "ntt" /\ pc' # "tomont" /\ pc' # "invntt" /\ pc' # "done" /\ input' = input /\ r' = r /\ term' = 0
  BY <1>1, <1>2
<1> QED BY <1>1, <1>2, <1>4, <1>5, <1>6 DEF Tracked

LEMMA CarriedOver ==
  ASSUME Tracked, UNCHANGED <<input, p>>, pc # "ntt", pc' # "ntt"
  PROVE  Polys(input') /\ \A s \in Slots : Agree(p'[s], Level(input'[s], Pass'))
BY DEF Tracked, Pass

\* The product of term, before it is added.
LEMMA ProductResidue ==
  ASSUME IInv, Tracked, pc = "acc", term < K, NEW j \in Coeffs
  PROVE  /\ Level(Times(input[term], input[K + term]), 7)[j] \in Int
         /\ Congruent(BasemulSum(p[term], p[K + term], j),
                      169 * Level(Times(input[term], input[K + term]), 7)[j])
<1> DEFINE a == p[term]  b == p[K + term]
           f0 == input[term]  g0 == input[K + term]  h0 == Times(f0, g0)
           f == Level(f0, 7)  g == Level(g0, 7)  h == Level(h0, 7)
<1>1. term \in Int /\ 0 <= term /\ Polys(input)
  BY DEF IInv, Control, Within, Tracked
<1>2. /\ term \in Slots /\ K + term \in Slots
      /\ Poly(f0) /\ Poly(g0) /\ Poly(h0) /\ IsProduct(f0, g0, h0, 256)
  BY <1>1, TimesIs
<1>3. Agree(a, f) /\ Agree(b, g)
  BY <1>2 DEF Tracked, Pass
<1>4. Centred(a) /\ Centred(b)
  BY <1>2 DEF IInv, Transformed, Centred
<1> HIDE DEF a, b, f0, g0, h0
<1>5. Poly(f) /\ Poly(g) /\ Poly(h)
  BY <1>2, LevelPoly
<1>6. IsProduct(f, g, h, 2)
  BY <1>2, LevelProduct
<1> HIDE DEF f, g, h
<1>7. Congruent(BasemulSum(a, b, j), 169 * h[j])
  BY <1>3, <1>4, <1>5, <1>6, BaseProduct
<1>8. h[j] \in Int
  BY <1>5 DEF Poly
<1> QED BY <1>7, <1>8 DEF a, b, h, h0, f0, g0

LEMMA BasemulTracked == IInv /\ Tracked /\ basemul_acc => Tracked'
<1> SUFFICES ASSUME IInv, Tracked, basemul_acc PROVE Tracked'
  OBVIOUS
<1>1. /\ pc = "acc" /\ term < K /\ pc' = "acc" /\ term' = term + 1
      /\ UNCHANGED <<keygen, input, layer, p, hp>>
  BY DEF basemul_acc
<1>2. Polys(input) /\ layer = 0 /\ Multiple(r, 169, Level(Partial(input, term), 7))
  BY <1>1 DEF Tracked
<1>3. term \in Nat /\ term <= K
  BY <1>1 DEF IInv, Control, Within
<1>4. ASSUME NEW j \in Coeffs
      PROVE  Congruent(r'[j], 169 * Level(Partial(input, term + 1), 7)[j])
  <2> DEFINE t == BasemulSum(p[term], p[K + term], j)
             x == Level(Partial(input, term), 7)[j]
             y == Level(Times(input[term], input[K + term]), 7)[j]
  <2>1. y \in Int /\ Congruent(t, 169 * y)
    BY <1>1, ProductResidue
  <2>2. Within(t, -6656, 6656) /\ (term > 0 => Within(r[j] + t, -32768, 32767))
    <3>1. Within(t, -6656, 6656)
      BY <1>1, ProductFacts
    <3>2. term > 0 => r[j] + t \in Int16s
      BY <1>1, NothingOverflows DEF NoOverflow
    <3> QED BY <3>1, <3>2, Int16sIff
  <2>3. r'[j] = IF term = 0 THEN Int16(t) ELSE Int16(r[j] + Int16(t))
    BY DEF basemul_acc, poly_basemul_montgomery, poly_add
  <2>4. x \in Int /\ Congruent(r[j], 169 * x)
    <3>1. Poly(Level(Partial(input, term), 7))
      BY <1>2, <1>3, LevelPartial
    <3>2. x \in Int
      BY <3>1 DEF Poly
    <3> QED BY <1>2, <3>2 DEF Multiple
  <2>5. Level(Partial(input, term + 1), 7)[j] = x + y
    <3>1. IsSum(Level(Partial(input, term + 1), 7), Level(Partial(input, term), 7),
                Level(Times(input[term], input[K + term]), 7))
      BY <1>1, <1>2, <1>3, LevelPartial
    <3> QED BY <3>1, Zenon DEF IsSum
  <2> HIDE DEF t, x, y
  <2>6. r[j] \in Int /\ t \in Int /\ (term = 0 => r[j] = 0)
    <3>1. Within(r[j], -(6656 * term), 6656 * term)
      BY <1>1 DEF IInv, Accumulated
    <3> QED BY SMT, <1>3, <2>2, <3>1 DEF Within
  <2>7. r'[j] = r[j] + t
    <3>1. Int16(t) = t
      BY SMT, <2>2, Int16Exact DEF Within
    <3>2. CASE term = 0
      BY <2>3, <2>6, <3>1, <3>2
    <3>3. CASE term # 0
      <4>1. Int16(r[j] + t) = r[j] + t
        BY <1>3, <2>2, <3>3, Int16Exact
      <4> QED BY <2>3, <3>1, <3>3, <4>1
    <3> QED BY <3>2, <3>3
  <2> DEFINE v == 169 * x  w == 169 * y  a == r[j]
  <2>8. /\ v \in Int /\ w \in Int /\ 169 * (x + y) = v + w
        /\ a \in Int /\ Congruent(a, v) /\ Congruent(t, w)
    BY <2>1, <2>4, <2>6
  <2> HIDE DEF v, w, a
  <2>9. Congruent(a + t, v + w)
    BY <2>6, <2>8, CongruentSum
  <2> QED BY <2>5, <2>7, <2>8, <2>9 DEF a
<1>5. Multiple(r', 169, Level(Partial(input', term'), 7))
  BY <1>1, <1>4 DEF Multiple
<1>6. Polys(input') /\ \A s \in Slots : Agree(p'[s], Level(input'[s], Pass'))
  BY <1>1, CarriedOver
<1> QED BY <1>1, <1>2, <1>5, <1>6 DEF Tracked

LEMMA ReduceAccTracked == IInv /\ Tracked /\ reduce_acc => Tracked'
<1> SUFFICES ASSUME IInv, Tracked, reduce_acc PROVE Tracked'
  OBVIOUS
<1>1. /\ pc = "acc" /\ term = K /\ pc' = IF keygen THEN "tomont" ELSE "invntt"
      /\ r' = poly_reduce(r)
      /\ UNCHANGED <<keygen, input, layer, term, p, hp, hr>>
  BY DEF reduce_acc
<1>2. Polys(input) /\ layer = 0 /\ Multiple(r, 169, Level(Partial(input, K), 7))
  BY <1>1 DEF Tracked
<1>3. ASSUME NEW j \in Coeffs
      PROVE  Congruent(r'[j], 169 * Level(Partial(input, K), 7)[j])
  <2> DEFINE x == r[j]  b == barrett_reduce(x)  y == 169 * Level(Partial(input, K), 7)[j]
  <2>1. r'[j] = b
    BY <1>1 DEF poly_reduce
  <2>2. Within(x, -32768, 32767)
    <3>1. Within(r[j], -(6656 * term), 6656 * term)
      BY <1>1 DEF IInv, Accumulated
    <3> QED BY SMT, <1>1, <3>1, SlotsFacts DEF Within
  <2>3. Congruent(x, y) /\ y \in Int
    <3>1. Poly(Level(Partial(input, K), 7))
      BY <1>2, LevelPartial, SlotsFacts
    <3>2. Level(Partial(input, K), 7)[j] \in Int
      BY <3>1, Zenon DEF Poly
    <3>3. Congruent(x, y)
      BY <1>2, Zenon DEF Multiple
    <3> QED BY <3>2, <3>3
  <2> HIDE DEF x, y
  <2>4. b \in Int /\ x \in Int /\ Congruent(b, x)
    BY <2>2, BarrettCorrect DEF Within
  <2> HIDE DEF b
  <2>5. Congruent(b, y)
    BY <2>3, <2>4, CongruentTrans
  <2> QED BY <2>1, <2>5 DEF y
<1>4. Multiple(r', 169, Level(Partial(input', K), 7))
  BY <1>1, <1>3 DEF Multiple
<1>5. Scale(0) = 169 /\ 7 - 0 = 7
  BY Scales
<1>6. pc' # "ntt" /\ pc' # "acc" /\ pc' # "done" /\ layer' = 0
      /\ (pc' = "tomont" => keygen') /\ (pc' = "invntt" => ~keygen')
  BY <1>1, <1>2
<1>7. Polys(input') /\ \A s \in Slots : Agree(p'[s], Level(input'[s], Pass'))
  BY <1>1, <1>6, CarriedOver
<1>8. Multiple(r', Scale(layer'), Level(Partial(input', K), 7 - layer'))
  BY <1>4, <1>5, <1>6
<1> QED BY <1>4, <1>6, <1>7, <1>8 DEF Tracked

LEMMA InvnttTracked == IInv /\ Tracked /\ invntt => Tracked'
<1> SUFFICES ASSUME IInv, Tracked, invntt PROVE Tracked'
  OBVIOUS
<1>1. /\ pc = "invntt" /\ layer < 7 /\ pc' = "invntt" /\ layer' = layer + 1
      /\ r' = InvNttLayer(r, InvLen(layer))
      /\ UNCHANGED <<keygen, input, term, p, hp>>
  BY DEF invntt
<1>2. /\ Polys(input) /\ ~keygen
      /\ Multiple(r, Scale(layer), Level(Partial(input, K), 7 - layer))
  BY <1>1 DEF Tracked
<1>3. layer \in 0..6
  BY SMT, <1>1 DEF IInv, Control, Within
<1>4. ASSUME NEW j \in Coeffs
      PROVE  Congruent(r'[j], Scale(layer + 1) * Level(Partial(input, K), 7 - (layer + 1))[j])
  <2> DEFINE c == Scale(layer)  len == InvLen(layer)  n == 6 - layer
             f == Level(Partial(input, K), n)
  <2>1. n \in 0..6 /\ n \in 0..7 /\ n + 1 = 7 - layer /\ 7 - (layer + 1) = n
    BY <1>3
  <2>2. len \in Lens /\ len = NttLen(n)
    BY <1>3, LenType DEF InvLen
  <2>3. c \in Int /\ Scale(layer + 1) = 2 * c
    BY <1>3, Scales
  <2>4. Poly(f)
    <3>1. Poly(Partial(input, K))
      BY <1>2, PartialFacts, SlotsFacts
    <3> QED BY <2>1, <3>1, LevelPoly
  <2>5. Level(Partial(input, K), 7 - layer) = Layer(f, len)
    BY <2>1, <2>2, LevelStep
  <2>6. BelowQ(r)
    BY <1>1 DEF IInv, Accumulated, BelowQ, Bounded
  <2>7. \A i \in Coeffs : Congruent(r[i], c * Layer(f, len)[i])
    BY <1>2, <2>5 DEF Multiple
  <2>8. r' = InvNttLayer(r, len)
    BY <1>1
  <2>9. Level(Partial(input, K), 7 - (layer + 1)) = f
    BY <2>1
  <2> HIDE DEF c, len, n, f
  <2>10. Congruent(InvNttLayer(r, len)[j], (2 * c) * f[j])
    BY <2>2, <2>3, <2>4, <2>6, <2>7, InverseResidue
  <2> QED BY <2>3, <2>8, <2>9, <2>10, Zenon
<1>5. Multiple(r', Scale(layer'), Level(Partial(input', K), 7 - layer'))
  BY <1>1, <1>4, Zenon DEF Multiple
<1>6. Polys(input') /\ \A s \in Slots : Agree(p'[s], Level(input'[s], Pass'))
  BY <1>1, CarriedOver
<1> QED BY <1>1, <1>2, <1>5, <1>6 DEF Tracked

LEMMA ScaleTracked == IInv /\ Tracked /\ scale => Tracked'
<1> SUFFICES ASSUME IInv, Tracked, scale PROVE Tracked'
  OBVIOUS
<1>1. /\ pc = "invntt" /\ layer = 7 /\ pc' = "done" /\ r' = InvNttScale(r)
      /\ UNCHANGED <<keygen, input, layer, term, p, hp>>
  BY DEF scale
<1>2. /\ Polys(input) /\ ~keygen
      /\ Multiple(r, Scale(7), Partial(input, K))
  <2>1. 7 - 7 = 0 /\ Level(Partial(input, K), 0) = Partial(input, K)
    BY LevelStep
  <2> QED BY <1>1, <2>1 DEF Tracked
<1>3. ASSUME NEW j \in Coeffs PROVE r'[j] \in Int /\ Congruent(r'[j], Partial(input, K)[j])
  <2> DEFINE x == r[j]  y == Partial(input, K)[j]  c == Scale(7)  m == fqmul(x, 1441)
  <2>1. r'[j] = m
    BY <1>1 DEF InvNttScale
  <2>2. Within(x, -3328, 3328)
    BY <1>1 DEF IInv, Accumulated
  <2>3. y \in Int /\ c \in Int /\ Congruent(x, c * y) /\ Congruent(169 * (1441 * c), 1)
    <3>1. Poly(Partial(input, K))
      BY <1>2, PartialFacts, SlotsFacts
    <3>2. y \in Int
      BY <3>1, Zenon DEF Poly
    <3>3. Congruent(x, c * y)
      BY <1>2, Zenon DEF Multiple
    <3> QED BY <3>2, <3>3, Scales
  <2> HIDE DEF x, y, c
  <2>4. x \in Int /\ m \in Int /\ Congruent(m, 169 * (x * 1441))
    <3>1. Within(x, -32767, 32767) /\ Within(1441, -3329, 3329)
      BY SMT, <2>2 DEF Within
    <3> QED BY SMT, <2>2, <3>1, FqmulResidue DEF Within
  <2> HIDE DEF m
  <2>5. PICK k1 \in Int : x = c * y + 3329 * k1
    <3> DEFINE d == c * y
    <3>1. d \in Int /\ Congruent(x, d)
      BY <2>3
    <3> HIDE DEF d
    <3>2. \E k1 \in Int : x = d + 3329 * k1
      BY <2>4, <3>1, CongruentIs
    <3> QED BY <3>2 DEF d
  <2>6. PICK k2 \in Int : m = 169 * (x * 1441) + 3329 * k2
    BY <2>4, CongruentIs
  <2>7. PICK k3 \in Int : 169 * (1441 * c) = 1 + 3329 * k3
    BY <2>3, CongruentIs
  <2> DEFINE d == c * y
  <2>8. (169 * (1441 * c)) * y = y + 3329 * (k3 * y) /\ 169 * (1441 * d) = (169 * (1441 * c)) * y
    BY <2>3, <2>7, SMT
  <2> DEFINE e == k3 * y  k == e + 243529 * k1 + k2
  <2>9. d \in Int /\ e \in Int /\ 169 * (1441 * d) = y + 3329 * e /\ x = d + 3329 * k1
    BY <2>3, <2>5, <2>8
  <2> HIDE DEF d, e
  <2>10. m - y = 3329 * k /\ k \in Int
    BY <2>3, <2>4, <2>6, <2>9, SMT
  <2> HIDE DEF k
  <2>11. Congruent(m, y)
    BY <2>3, <2>4, <2>10, SMT DEF Congruent, KYBER_Q
  <2> QED BY <2>1, <2>4, <2>11 DEF y
<1>4. Agree(r', Partial(input', K)) /\ Poly(r') /\ ~keygen'
  BY <1>1, <1>2, <1>3 DEF Agree, Poly
<1>5. Polys(input') /\ \A s \in Slots : Agree(p'[s], Level(input'[s], Pass'))
  BY <1>1, CarriedOver
<1> QED BY <1>1, <1>4, <1>5 DEF Tracked

LEMMA TomontTracked == IInv /\ Tracked /\ tomont_add => Tracked'
<1> SUFFICES ASSUME IInv, Tracked, tomont_add PROVE Tracked'
  OBVIOUS
<1>1. /\ pc = "tomont" /\ pc' = "done"
      /\ r' = poly_reduce(poly_add(poly_tomont(r), p[2*K]))
      /\ UNCHANGED <<keygen, input, layer, term, p, hp, hr>>
  BY DEF tomont_add
<1>2. /\ Polys(input) /\ keygen /\ 2*K \in Slots
      /\ Multiple(r, 169, Level(Partial(input, K), 7)) /\ Agree(p[2*K], Level(input[2*K], 7))
  BY <1>1, SlotsFacts DEF Tracked, Pass
<1>3. ASSUME NEW j \in Coeffs PROVE r'[j] \in Int /\ Congruent(r'[j], Key(input, j))
  <2> DEFINE x == Level(Partial(input, K), 7)[j]  y == Level(input[2*K], 7)[j]
             m == montgomery_reduce(r[j] * 1353)  e == p[2*K][j]  b == barrett_reduce(m + e)
  <2>1. x \in Int /\ y \in Int /\ Congruent(r[j], 169 * x) /\ Congruent(e, y)
    <3>1. Poly(Level(Partial(input, K), 7))
      BY <1>2, LevelPartial, SlotsFacts
    <3>2. Poly(input[2*K]) /\ 7 \in 0..7
      BY <1>2 DEF Polys
    <3>3. Poly(Level(input[2*K], 7))
      BY <3>2, LevelPoly
    <3> QED BY <1>2, <3>1, <3>3, Zenon DEF Poly, Multiple, Agree
  <2>2. Within(m + e, -32768, 32767) /\ Within(e, -1664, 1664)
    <3>1. m + e \in Int16s
      BY <1>1, NothingOverflows DEF NoOverflow
    <3>2. Within(e, -1664, 1664)
      BY <1>1, <1>2 DEF IInv, Transformed, Bounded
    <3> QED BY <3>1, <3>2, Int16sIff
  <2>3. r[j] \in Int /\ m \in Int /\ Congruent(65536 * m, r[j] * 1353)
    <3>1. Within(r[j], -1664, 1664)
      BY <1>1 DEF IInv, Accumulated
    <3>2. r[j] \in Int /\ Within(r[j] * 1353, -109084672, 109084671)
      BY SMT, <3>1 DEF Within
    <3> QED BY SMT, <3>2, MontgomeryCorrect DEF Within
  <2>4. r'[j] = b
    <3>1. r'[j] = barrett_reduce(Int16(m + e))
      BY <1>1 DEF poly_reduce, poly_add, poly_tomont
    <3> QED BY <2>2, <3>1, Int16Exact
  <2> HIDE DEF x, y, m, e
  <2>5. b \in Int /\ Congruent(b, m + e)
    BY <2>2, BarrettCorrect DEF Within
  <2> HIDE DEF b
  <2>6. Congruent(b, x + y)
    <3> DEFINE a == r[j]  U == 65536 * m  v == a * 1353  w == 169 * x  d == m + e
    <3>1. /\ a \in Int /\ e \in Int /\ w \in Int /\ U \in Int /\ v \in Int /\ d \in Int
          /\ Congruent(a, w) /\ Congruent(U, v) /\ Congruent(b, d)
      BY <2>1, <2>2, <2>3, <2>5 DEF Within
    <3> HIDE DEF a, U, v, w, d
    <3>2. PICK k1 \in Int : a = w + 3329 * k1
      BY <3>1, CongruentIs
    <3>3. PICK k2 \in Int : U = v + 3329 * k2
      BY <3>1, CongruentIs
    <3>4. PICK k3 \in Int : e = y + 3329 * k3
      BY <2>1, <3>1, CongruentIs
    <3>5. PICK k4 \in Int : b = d + 3329 * k4
      BY <2>5, <3>1, CongruentIs
    <3> DEFINE k == 169 * (1353 * k1 + k2) - 3327 * m + 11608 * x + k3 + k4
    <3>6. b - (x + y) = 3329 * k /\ k \in Int
      BY <2>1, <2>3, <3>1, <3>2, <3>3, <3>4, <3>5, SMT DEF U, v, w, d
    <3> HIDE DEF k
    <3> QED BY <2>1, <2>5, <3>6, SMT DEF Congruent, KYBER_Q
  <2> QED BY <2>4, <2>5, <2>6 DEF Key, x, y
<1>4. keygen' /\ Poly(r') /\ \A j \in Coeffs : Congruent(r'[j], Key(input', j))
  BY <1>1, <1>2, <1>3 DEF Poly
<1>5. Polys(input') /\ \A s \in Slots : Agree(p'[s], Level(input'[s], Pass'))
  BY <1>1, CarriedOver
<1> QED BY <1>1, <1>4, <1>5 DEF Tracked

LEMMA TrackedInvariant == MulSpec => []Tracked
<1>1. IInv /\ Tracked /\ [MulNext]_mulVars => Tracked'
  <2> SUFFICES ASSUME IInv, Tracked, [MulNext]_mulVars PROVE Tracked'
    OBVIOUS
  <2>1. CASE UNCHANGED mulVars
    BY <2>1 DEF mulVars, Tracked, Pass
  <2> QED BY <2>1, NttTracked, ReduceNttTracked, BasemulTracked, ReduceAccTracked,
             TomontTracked, InvnttTracked, ScaleTracked DEF MulNext
<1> QED BY <1>1, InitTracked, Invariant, PTL DEF MulSpec

\* SumOfProducts is the sum that the passes were followed with.
LEMMA SumsAgree ==
  ASSUME Polys(input), NEW j \in Coeffs
  PROVE  SumOfProducts(j) \in Int /\ Congruent(SumOfProducts(j), Partial(input, K)[j])
<1> DEFINE F == [s \in 0..K-1 |-> Product(input[s], input[K + s], j)]
           G == Addends(input, j)
<1>1. K \in Nat
  BY SlotsFacts
<1>2. \A s \in Nat : s < K => F[s] \in Int /\ G[s] \in Int /\ Congruent(F[s], G[s])
  <2> SUFFICES ASSUME NEW s \in Nat, s < K
               PROVE  F[s] \in Int /\ G[s] \in Int /\ Congruent(F[s], G[s])
    OBVIOUS
  <2>1. s \in 0..K-1 /\ Poly(input[s]) /\ Poly(input[K + s])
    BY TimesIs
  <2>2. F[s] = Product(input[s], input[K + s], j)
    BY <2>1, Zenon
  <2>3. G[s] = Conv(input[s], input[K + s], 256, -1, 0, j)
    BY <2>1, Zenon DEF Addends, Times
  <2> HIDE DEF F, G
  <2> DEFINE f == input[s]  g == input[K + s]
  <2>4. Poly(f) /\ Poly(g)
    BY <2>1
  <2> HIDE DEF f, g
  <2>5. /\ Product(f, g, j) \in Int /\ Conv(f, g, 256, -1, 0, j) \in Int
        /\ Congruent(Product(f, g, j), Conv(f, g, 256, -1, 0, j))
    BY <2>4, ProductIs
  <2> QED BY <2>2, <2>3, <2>5, Zenon DEF f, g
<1>3. SumOfProducts(j) = SumOf(F, K)
  BY Zenon DEF SumOfProducts
<1>4. Partial(input, K)[j] = Sum(G, K)
  BY Zenon DEF Partial
<1> HIDE DEF F, G
<1>5. SumOf(F, K) \in Int /\ Congruent(SumOf(F, K), Sum(F, K))
  BY <1>1, <1>2, SumOfIs
<1>6. Congruent(Sum(F, K), Sum(G, K)) /\ Sum(F, K) \in Int /\ Sum(G, K) \in Int
  BY <1>1, <1>2, SumCongruent, SumInt
<1> DEFINE x == SumOf(F, K)  y == Sum(F, K)  z == Sum(G, K)
<1>7. x \in Int /\ y \in Int /\ z \in Int /\ Congruent(x, y) /\ Congruent(y, z)
  BY <1>5, <1>6
<1> HIDE DEF x, y, z
<1>8. Congruent(x, z)
  BY <1>7, CongruentTrans
<1> QED BY <1>3, <1>4, <1>7, <1>8 DEF x, z

\* ntt.c, poly.c, polyvec.c: whatever the polynomials, what the reference ends
\* with is the sum of the products modulo X^256 + 1 and q, and the accelerator
\* ends with the same residues.
THEOREM ProductsAreRight == MulSpec => []SameResult
<1>1. IInv /\ Tracked /\ SameResidues => SameResult
  <2> SUFFICES ASSUME IInv, Tracked, pc = "done", ~keygen, NEW j \in Coeffs
               PROVE  Congruent(r[j], SumOfProducts(j))
    BY DEF SameResult
  <2> DEFINE x == r[j]  y == SumOfProducts(j)  z == Partial(input, K)[j]
  <2>1. y \in Int /\ Congruent(y, z)
    BY SumsAgree DEF Tracked
  <2>2. Congruent(x, z)
    BY DEF Tracked, Agree
  <2>3. z \in Int
    BY PartialFacts, SlotsFacts DEF Tracked, Poly
  <2>4. x \in Int
    BY DEF Tracked, Poly
  <2> HIDE DEF x, y, z
  <2>5. Congruent(z, y)
    BY <2>1, <2>3, CongruentSym
  <2>6. Congruent(x, y)
    BY <2>1, <2>2, <2>3, <2>4, <2>5, CongruentTrans
  <2> QED BY <2>6 DEF x, y
<1> QED BY <1>1, Invariant, TrackedInvariant, SidesAgree, PTL

\* indcpa.c, indcpa_keypair_derand: the public key is the transform of the sum
\* of products and of the error, added up.
THEOREM KeysAreRight ==
  MulSpec => [](pc = "done" /\ keygen => \A j \in Coeffs : Congruent(r[j], Key(input, j)))
<1>1. Tracked => (pc = "done" /\ keygen => \A j \in Coeffs : Congruent(r[j], Key(input, j)))
  BY DEF Tracked
<1> QED BY <1>1, TrackedInvariant, PTL

-----------------------------------------------------------------------------
(* KyberSweep: the reductions *)

LEMMA SmallProduct ==
  ASSUME NEW x, NEW y, Within(x, -32768, 32767), Within(y, -3328, 3328)
  PROVE  Within(x * y, -109084672, 109084671)
<1>1. x \in Int /\ y \in Int /\ x * y \in Int
  BY SMT DEF Within
<1>2. CASE y >= 0
  <2>1. x * y <= 32768 * y /\ -(32768 * y) <= x * y
    BY SMT, <1>1, <1>2 DEF Within
  <2> QED BY SMT, <1>1, <2>1 DEF Within
<1>3. CASE y < 0
  <2>1. 32768 * y <= x * y /\ x * y <= -(32768 * y)
    BY SMT, <1>1, <1>3 DEF Within
  <2> QED BY SMT, <1>1, <2>1 DEF Within
<1> QED BY SMT, <1>1, <1>2, <1>3

LEMMA SweepRange == SweepSpec => [](Within(u, 0, 3328))
<1>1. SweepInit => Within(u, 0, 3328)
  BY SMT DEF SweepInit, Within
<1>2. Within(u, 0, 3328) /\ [SweepNext]_u => Within(u, 0, 3328)'
  <2> SUFFICES ASSUME Within(u, 0, 3328), [SweepNext]_u PROVE Within(u', 0, 3328)
    BY SMT DEF Within
  <2>1. CASE UNCHANGED u
    BY <2>1
  <2>2. CASE SweepNext
    BY SMT, <2>2 DEF SweepNext, KYBER_Q, Within
  <2> QED BY <2>1, <2>2
<1> QED BY <1>1, <1>2, PTL DEF SweepSpec

LEMMA FactorsRange ==
  ASSUME Within(u, 0, 3328), NEW f \in Factors
  PROVE  Within(f, -3328, 3328)
BY SMT DEF Factors, Within

LEMMA ReductionsAt ==
  ASSUME Within(u, 0, 3328), NEW x \in Lifts
  PROVE  /\ barrett_reduce(x) = centred /\ centred \in -1664..1664
         /\ kyber_barrett_pipe(x) \in {u, u + KYBER_Q} \cap 0..KYBER_Q
         /\ \A f \in Factors :
              LET m == montgomery_reduce(x * f)
              IN  /\ m \in -(KYBER_Q-1)..KYBER_Q-1
                  /\ Congruent(m * 2285, (x * f) % KYBER_Q)
                  /\ kyber_montgomery_pipe(x * f) = m
<1>1. PICK n \in -10..9 : x = u + KYBER_Q * n
  BY DEF Lifts
<1>2. x \in Int16s
  BY DEF Lifts
<1>3. Within(x, -32768, 32767) /\ Within(u, -32768, 32767) /\ x \in Int /\ u \in Int /\ n \in Int
  BY <1>2, Int16sIff, SMT DEF Within
<1>4. Congruent(x, u)
  BY <1>1, <1>3, SMT DEF Congruent, KYBER_Q
<1>5. barrett_reduce(x) = centred /\ Within(centred, -1664, 1664)
  <2> DEFINE a == barrett_reduce(x)  b == barrett_reduce(u)
  <2>1. /\ Within(a, -1664, 1664) /\ Congruent(a, x)
        /\ Within(b, -1664, 1664) /\ Congruent(b, u)
    BY <1>3, BarrettCorrect
  <2> HIDE DEF a, b
  <2>2. a = b
    BY <1>3, <1>4, <2>1, SMT DEF Within, Congruent, KYBER_Q
  <2> QED BY <2>1, <2>2 DEF a, b, centred
<1>6. centred \in -1664..1664
  BY <1>5, SMT DEF Within
<1>7. kyber_barrett_pipe(x) \in {u, u + KYBER_Q} \cap 0..KYBER_Q
  <2> DEFINE a == kyber_barrett_pipe(x)
  <2>1. Within(a, 0, 3329) /\ Congruent(a, x)
    BY <1>3, BarrettUnitCorrect
  <2> HIDE DEF a
  <2>2. (a = u \/ a = u + 3329) /\ 0 <= a /\ a <= 3329 /\ a \in Int
    BY <1>3, <1>4, <2>1, SMT DEF Within, Congruent, KYBER_Q
  <2>3. KYBER_Q \in Int /\ a <= KYBER_Q /\ (a = u \/ a = u + KYBER_Q)
    BY <2>2, SMT DEF KYBER_Q
  <2> HIDE DEF KYBER_Q
  <2>4. 0 <= a /\ a \in Int
    BY <2>2
  <2>5. a \in {u, u + KYBER_Q} \cap 0..KYBER_Q
    BY ONLY <2>3, <2>4, SMT
  <2> QED BY <2>5 DEF a
<1>8. ASSUME NEW f \in Factors
      PROVE  /\ montgomery_reduce(x * f) \in -(KYBER_Q-1)..KYBER_Q-1
             /\ Congruent(montgomery_reduce(x * f) * 2285, (x * f) % KYBER_Q)
             /\ kyber_montgomery_pipe(x * f) = montgomery_reduce(x * f)
  <2> DEFINE a == x * f  m == montgomery_reduce(a)
  <2>1. Within(a, -109084672, 109084671) /\ a \in Int
    <3>1. Within(f, -3328, 3328)
      BY FactorsRange
    <3>2. Within(a, -109084672, 109084671)
      BY <1>3, <3>1, SmallProduct
    <3> QED BY <3>2 DEF Within
  <2> HIDE DEF a
  <2>2. Within(m, -3328, 3328) /\ Congruent(65536 * m, a) /\ kyber_montgomery_pipe(a) = m
    BY <2>1, MontgomeryCorrect, MontgomeryUnitsAgree
  <2> HIDE DEF m
  <2>3. m \in Int /\ m \in -(KYBER_Q-1)..KYBER_Q-1
    BY <2>2, SMT DEF Within, KYBER_Q
  <2>4. Congruent(m * 2285, a % KYBER_Q)
    BY <2>1, <2>2, <2>3, SMT DEF Congruent, KYBER_Q
  <2> QED BY <2>2, <2>3, <2>4 DEF a, m
<1> QED BY <1>5, <1>6, <1>7, <1>8

\* reduce.c:16, :35 against kyber_pqc_math.v:132, :165: at every int16_t value
\* the Barrett units give its residue, and for its products the two Montgomery
\* units give the same number, the product divided by 2^16 modulo q.
THEOREM ReductionsMatch == SweepSpec => []ReductionsAgree
<1>1. Within(u, 0, 3328) => ReductionsAgree
  BY ReductionsAt DEF ReductionsAgree
<1> QED BY <1>1, SweepRange, PTL

-----------------------------------------------------------------------------
(* KyberSweep: division by q as a multiplication and a shift *)

\* The products in limbs add up to the whole product.
LEMMA LimbsAdd ==
  ASSUME NEW x1 \in Int, NEW x0 \in Int, NEW c1 \in Int, NEW c0 \in Int
  PROVE  (2048 * x1 + x0) * (2048 * c1 + c0)
            = 4194304 * (x1 * c1) + 2048 * (x1 * c0 + x0 * c1) + x0 * c0
<1>1. (2048 * x1 + x0) * (2048 * c1 + c0)
        = (2048 * x1) * (2048 * c1) + (2048 * x1) * c0 + x0 * (2048 * c1) + x0 * c0
  BY SMT
<1> QED BY <1>1, SMT

LEMMA LimbsShift ==
  ASSUME NEW a \in Int, NEW b \in Int, NEW d \in Int
  PROVE  a + ((b + (d \div 2048)) \div 2048) = (4194304 * a + 2048 * b + d) \div 4194304
BY SMT

\* What MulShift leaves of a product before the last shift.
High(x, c) ==
    ((x \div 2048) * (c \div 2048)
        + (((x \div 2048) * (c % 2048) + (x % 2048) * (c \div 2048)
              + (((x % 2048) * (c % 2048)) \div 2048)) \div 2048))

LEMMA HighIs ==
  ASSUME NEW x \in Int, NEW c \in Int
  PROVE  High(x, c) = (x * c) \div 4194304
<1> DEFINE x1 == x \div 2048  x0 == x % 2048  c1 == c \div 2048  c0 == c % 2048
<1>1. x1 \in Int /\ x0 \in Int /\ c1 \in Int /\ c0 \in Int
      /\ x = 2048 * x1 + x0 /\ c = 2048 * c1 + c0
  BY SMT
<1> DEFINE a == x1 * c1  b == x1 * c0 + x0 * c1  d == x0 * c0
<1>2. High(x, c) = a + ((b + (d \div 2048)) \div 2048)
  BY SMT DEF High
<1> HIDE DEF x1, x0, c1, c0
<1>3. a \in Int /\ b \in Int /\ d \in Int
  BY <1>1
<1>4. x * c = 4194304 * a + 2048 * b + d
  BY <1>1, LimbsAdd
<1> HIDE DEF a, b, d
<1> QED BY <1>2, <1>3, <1>4, LimbsShift, SMT

\* poly.c:49, polyvec.c:22, kyber_codec_blocks.v:74: the shifts in use.
LEMMA MulShiftIs ==
  ASSUME NEW x, NEW c
  PROVE  /\ MulShift(x, c, 27) = High(x, c) \div 32
         /\ MulShift(x, c, 28) = High(x, c) \div 64
         /\ MulShift(x, c, 29) = High(x, c) \div 128
         /\ MulShift(x, c, 31) = High(x, c) \div 512
         /\ MulShift(x, c, 32) = High(x, c) \div 1024
BY SMT DEF MulShift, High

LEMMA Powers ==
  /\ 2^0 = 1 /\ 2^1 = 2 /\ 2^2 = 4 /\ 2^3 = 8 /\ 2^4 = 16 /\ 2^5 = 32 /\ 2^6 = 64 /\ 2^7 = 128
  /\ 2^9 = 512 /\ 2^10 = 1024 /\ 2^11 = 2048 /\ 2^12 = 4096 /\ 2^28 = 268435456
  /\ 2^(28 - 22) = 64 /\ 2^(27 - 22) = 32 /\ 2^(32 - 22) = 1024 /\ 2^(31 - 22) = 512
  /\ 2^(29 - 22) = 128 /\ 2^(4 - 1) = 8 /\ 2^(5 - 1) = 16 /\ 2^(10 - 1) = 512
  /\ 2^(11 - 1) = 1024 /\ 2^(4 + 1) = 32 /\ 2^(5 + 1) = 64 /\ 2^(10 + 1) = 2048
  /\ 2^(11 + 1) = 4096
BY SMT

\* A division by q written as a multiplication and two shifts.
LEMMA Divide4 ==
  ASSUME NEW n, Within(n, 0, 54912),
         NEW y, y = n + 1, NEW c, c = 80635
  PROVE  MulShift(y, c, 28) = n \div 3329
<1> DEFINE e == n \div 3329  m == n % 3329  w == 80635 * (m + 1) - 1541 * e
<1>1. /\ n \in Int /\ e \in Int /\ m \in Int /\ n = 3329 * e + m /\ 0 <= m /\ m <= 3328
      /\ 0 <= e /\ e <= 16
  BY SMT DEF Within
<1> HIDE DEF e, m
<1>2. (n + 1) * 80635 = 4194304 * (64 * e) + w
  BY ONLY <1>1, SMT
<1>3. w \in Int /\ 0 <= w /\ w < 268435456
  BY ONLY <1>1, SMT
<1> HIDE DEF w
<1>4. (4194304 * (64 * e) + w) \div 4194304 = 64 * e + (w \div 4194304)
  BY ONLY <1>1, <1>3, SMT
<1>5. (64 * e + (w \div 4194304)) \div 64 = e
  BY ONLY <1>1, <1>3, SMT
<1>6. y \in Int /\ c \in Int /\ y * c = (n + 1) * 80635
  BY ONLY <1>1, y = n + 1, c = 80635, SMT
<1>7. High(y, c) = (y * c) \div 4194304
  BY ONLY <1>6, HighIs, SMT
<1>8. MulShift(y, c, 28) = High(y, c) \div 64
  BY ONLY MulShiftIs, SMT
<1> QED BY ONLY <1>2, <1>4, <1>5, <1>6, <1>7, <1>8, SMT DEF e

LEMMA Divide5 ==
  ASSUME NEW n, Within(n, 0, 108160),
         NEW y, y = n, NEW c, c = 40318
  PROVE  MulShift(y, c, 27) = n \div 3329
<1> DEFINE e == n \div 3329  m == n % 3329  w == 894 * e + 40318 * m
<1>1. /\ n \in Int /\ e \in Int /\ m \in Int /\ n = 3329 * e + m /\ 0 <= m /\ m <= 3328
      /\ 0 <= e /\ e <= 32
  BY SMT DEF Within
<1> HIDE DEF e, m
<1>2. n * 40318 = 4194304 * (32 * e) + w
  BY ONLY <1>1, SMT
<1>3. w \in Int /\ 0 <= w /\ w < 134217728
  BY ONLY <1>1, SMT
<1> HIDE DEF w
<1>4. (4194304 * (32 * e) + w) \div 4194304 = 32 * e + (w \div 4194304)
  BY ONLY <1>1, <1>3, SMT
<1>5. (32 * e + (w \div 4194304)) \div 32 = e
  BY ONLY <1>1, <1>3, SMT
<1>6. y \in Int /\ c \in Int /\ y * c = n * 40318
  BY ONLY <1>1, y = n, c = 40318, SMT
<1>7. High(y, c) = (y * c) \div 4194304
  BY ONLY <1>6, HighIs, SMT
<1>8. MulShift(y, c, 27) = High(y, c) \div 32
  BY ONLY MulShiftIs, SMT
<1> QED BY ONLY <1>2, <1>4, <1>5, <1>6, <1>7, <1>8, SMT DEF e

LEMMA Divide10 ==
  ASSUME NEW x, Within(x, 0, 3328), NEW n, n = x * 1024 + 1664,
         NEW y, y = n + 1, NEW c, c = 1290167
  PROVE  MulShift(y, c, 32) = n \div 3329
<1> DEFINE e == n \div 3329  m == n % 3329  w == 1290167 * (m + 1) - 1353 * e
<1>1. /\ n \in Int /\ e \in Int /\ m \in Int /\ n = 3329 * e + m /\ 0 <= m /\ m <= 3328
      /\ 0 <= e /\ e <= 1024
  BY SMT DEF Within
<1> HIDE DEF e, m
<1>2. m = 0 => e < 652
  BY <1>1, SMT DEF Within
<1>3. (n + 1) * 1290167 = 4194304 * (1024 * e) + w
  BY ONLY <1>1, SMT
<1>4. w \in Int /\ 0 <= w /\ w < 4294967296
  BY ONLY <1>1, <1>2, SMT
<1> HIDE DEF w
<1>5. (4194304 * (1024 * e) + w) \div 4194304 = 1024 * e + (w \div 4194304)
  BY ONLY <1>1, <1>4, SMT
<1>6. (1024 * e + (w \div 4194304)) \div 1024 = e
  BY ONLY <1>1, <1>4, SMT
<1>7. y \in Int /\ c \in Int /\ y * c = (n + 1) * 1290167
  BY ONLY <1>1, y = n + 1, c = 1290167, SMT
<1>8. High(y, c) = (y * c) \div 4194304
  BY ONLY <1>7, HighIs, SMT
<1>9. MulShift(y, c, 32) = High(y, c) \div 1024
  BY ONLY MulShiftIs, SMT
<1> QED BY ONLY <1>3, <1>5, <1>6, <1>7, <1>8, <1>9, SMT DEF e

LEMMA Divide11 ==
  ASSUME NEW x, Within(x, 0, 3328), NEW n, n = x * 2048 + 1664,
         NEW y, y = n, NEW c, c = 645084
  PROVE  MulShift(y, c, 31) = n \div 3329
<1> DEFINE e == n \div 3329  m == n % 3329  w == 988 * e + 645084 * m
<1>1. /\ n \in Int /\ e \in Int /\ m \in Int /\ n = 3329 * e + m /\ 0 <= m /\ m <= 3328
      /\ 0 <= e /\ e <= 2048
  BY SMT DEF Within
<1> HIDE DEF e, m
<1>2. m = 3328 => e < 652
  BY <1>1, SMTT(40) DEF Within
<1>3. m = 3327 => e < 1305
  BY <1>1, SMT DEF Within
<1>4. m = 3326 => e < 1958
  BY <1>1, SMT DEF Within
<1>5. n * 645084 = 4194304 * (512 * e) + w
  BY ONLY <1>1, SMT
<1>6. w \in Int /\ 0 <= w /\ w < 2147483648
  BY ONLY <1>1, <1>2, <1>3, <1>4, SMT
<1> HIDE DEF w
<1>7. (4194304 * (512 * e) + w) \div 4194304 = 512 * e + (w \div 4194304)
  BY ONLY <1>1, <1>6, SMT
<1>8. (512 * e + (w \div 4194304)) \div 512 = e
  BY ONLY <1>1, <1>6, SMT
<1>9. y \in Int /\ c \in Int /\ y * c = n * 645084
  BY ONLY <1>1, y = n, c = 645084, SMT
<1>10. High(y, c) = (y * c) \div 4194304
  BY ONLY <1>9, HighIs, SMT
<1>11. MulShift(y, c, 31) = High(y, c) \div 512
  BY ONLY MulShiftIs, SMT
<1> QED BY ONLY <1>5, <1>7, <1>8, <1>9, <1>10, <1>11, SMT DEF e

LEMMA DivideHw ==
  ASSUME NEW x, Within(x, 0, 3328), NEW n, n = x * 1024 + 1664,
         NEW y, y = n, NEW c, c = 161271
  PROVE  MulShift(y, c, 29) = n \div 3329
<1> DEFINE e == n \div 3329  m == n % 3329  w == 247 * e + 161271 * m
<1>1. /\ n \in Int /\ e \in Int /\ m \in Int /\ n = 3329 * e + m /\ 0 <= m /\ m <= 3328
      /\ 0 <= e /\ e <= 1024
  BY SMT DEF Within
<1> HIDE DEF e, m
<1>2. m = 3328 => e < 652
  BY <1>1, SMT DEF Within
<1>3. n * 161271 = 4194304 * (128 * e) + w
  BY ONLY <1>1, SMT
<1>4. w \in Int /\ 0 <= w /\ w < 536870912
  BY ONLY <1>1, <1>2, SMT
<1> HIDE DEF w
<1>5. (4194304 * (128 * e) + w) \div 4194304 = 128 * e + (w \div 4194304)
  BY ONLY <1>1, <1>4, SMT
<1>6. (128 * e + (w \div 4194304)) \div 128 = e
  BY ONLY <1>1, <1>4, SMT
<1>7. y \in Int /\ c \in Int /\ y * c = n * 161271
  BY ONLY <1>1, y = n, c = 161271, SMT
<1>8. High(y, c) = (y * c) \div 4194304
  BY ONLY <1>7, HighIs, SMT
<1>9. MulShift(y, c, 29) = High(y, c) \div 128
  BY ONLY MulShiftIs, SMT
<1> QED BY ONLY <1>3, <1>5, <1>6, <1>7, <1>8, <1>9, SMT DEF e

LEMMA DivideHw4 ==
  ASSUME NEW n, Within(n, 0, 54912),
         NEW y, y = n, NEW c, c = 161271
  PROVE  MulShift(y, c, 29) = n \div 3329
<1> DEFINE e == n \div 3329  m == n % 3329  w == 247 * e + 161271 * m
<1>1. /\ n \in Int /\ e \in Int /\ m \in Int /\ n = 3329 * e + m /\ 0 <= m /\ m <= 3328
      /\ 0 <= e /\ e <= 16
  BY SMT DEF Within
<1> HIDE DEF e, m
<1>2. n * 161271 = 4194304 * (128 * e) + w
  BY ONLY <1>1, SMT
<1>3. w \in Int /\ 0 <= w /\ w < 536870912
  BY ONLY <1>1, SMT
<1> HIDE DEF w
<1>4. (4194304 * (128 * e) + w) \div 4194304 = 128 * e + (w \div 4194304)
  BY ONLY <1>1, <1>3, SMT
<1>5. (128 * e + (w \div 4194304)) \div 128 = e
  BY ONLY <1>1, <1>3, SMT
<1>6. y \in Int /\ c \in Int /\ y * c = n * 161271
  BY ONLY <1>1, y = n, c = 161271, SMT
<1>7. High(y, c) = (y * c) \div 4194304
  BY ONLY <1>6, HighIs, SMT
<1>8. MulShift(y, c, 29) = High(y, c) \div 128
  BY ONLY MulShiftIs, SMT
<1> QED BY ONLY <1>2, <1>4, <1>5, <1>6, <1>7, <1>8, SMT DEF e

-----------------------------------------------------------------------------
(* KyberSweep: compression *)

LEMMA QuotientIs == KYBER_Q = 3329 /\ KYBER_Q \div 2 = 1664
BY SMT DEF KYBER_Q

\* What the compression of a coefficient x to d bits is to be.
Compressed(x, d) == ((x * 2^d + 1664) \div 3329) % 2^d

LEMMA RoundedIs == ASSUME NEW d PROVE Rounded(d) = Compressed(u, d)
BY QuotientIs, SMT DEF Rounded, Compressed

LEMMA Compress4 ==
  ASSUME NEW x, Within(x, 0, 3328)
  PROVE  /\ MulShift(x * 2^4 + 1665, 80635, 28) % 2^4 = Compressed(x, 4)
         /\ MulShift(x * 2^4 + 1664, 161271, 29) % 2^4 = Compressed(x, 4)
<1> DEFINE n == x * 16 + 1664
<1>1. /\ x \in Int /\ n \in Int /\ n + 1 \in Int /\ Within(n, 0, 54912)
      /\ x * 2^4 + 1665 = n + 1 /\ x * 2^4 + 1664 = n
      /\ Within(n, 0, 3409536)
  BY SMT DEF Within
<1>2. Compressed(x, 4) = (n \div 3329) % 2^4
  BY <1>1, SMT DEF Compressed
<1> HIDE DEF n
<1>3. MulShift(n + 1, 80635, 28) = n \div 3329
  BY <1>1, Divide4, SMT
<1>4. MulShift(n, 161271, 29) = n \div 3329
  BY <1>1, DivideHw4, SMT
<1> QED BY <1>1, <1>2, <1>3, <1>4, SMT

LEMMA Compress5 ==
  ASSUME NEW x, Within(x, 0, 3328)
  PROVE  MulShift(x * 2^5 + 1664, 40318, 27) % 2^5 = Compressed(x, 5)
<1> DEFINE n == x * 32 + 1664
<1>1. x \in Int /\ n \in Int /\ Within(n, 0, 108160) /\ x * 2^5 + 1664 = n
  BY SMT DEF Within
<1>2. Compressed(x, 5) = (n \div 3329) % 2^5
  BY <1>1, SMT DEF Compressed
<1> HIDE DEF n
<1>3. MulShift(n, 40318, 27) = n \div 3329
  BY <1>1, Divide5, SMT
<1> QED BY <1>1, <1>2, <1>3, SMT

LEMMA Compress10 ==
  ASSUME NEW x, Within(x, 0, 3328)
  PROVE  /\ MulShift(x * 2^10 + 1665, 1290167, 32) % 2^10 = Compressed(x, 10)
         /\ MulShift(x * 2^10 + 1664, 161271, 29) % 2^10 = Compressed(x, 10)
<1> DEFINE n == x * 1024 + 1664
<1>1. /\ x \in Int /\ n \in Int /\ n + 1 \in Int /\ n = x * 1024 + 1664
      /\ x * 2^10 + 1665 = n + 1 /\ x * 2^10 + 1664 = n
  BY SMT DEF Within
<1>2. Compressed(x, 10) = (n \div 3329) % 2^10
  BY <1>1, SMT DEF Compressed
<1> HIDE DEF n
<1>3. MulShift(n + 1, 1290167, 32) = n \div 3329
  BY <1>1, Divide10, SMT
<1>4. MulShift(n, 161271, 29) = n \div 3329
  BY <1>1, DivideHw, SMT
<1> QED BY <1>1, <1>2, <1>3, <1>4, SMT

LEMMA Compress11 ==
  ASSUME NEW x, Within(x, 0, 3328)
  PROVE  MulShift(x * 2^11 + 1664, 645084, 31) % 2^11 = Compressed(x, 11)
<1> DEFINE n == x * 2048 + 1664
<1>1. x \in Int /\ n \in Int /\ n = x * 2048 + 1664 /\ x * 2^11 + 1664 = n
  BY SMT DEF Within
<1>2. Compressed(x, 11) = (n \div 3329) % 2^11
  BY <1>1, SMT DEF Compressed
<1> HIDE DEF n
<1>3. MulShift(n, 645084, 31) = n \div 3329
  <2>1. n = x * 2048 + 1664
    BY <1>1
  <2> QED BY ONLY Within(x, 0, 3328), <2>1, Divide11, SMT
<1> QED BY <1>1, <1>2, <1>3, SMT

\* A coefficient and its representative compress alike.
LEMMA CompressIs ==
  ASSUME NEW a, NEW x, Within(x, 0, 3328), positive(a) = x, NEW d \in {4, 5, 10, 11}
  PROVE  compress_coeff(a, d) = Compressed(x, d)
<1>1. compress_coeff(a, d)
        = MulShift(x * 2^d + Divider(d)[1], Divider(d)[2], Divider(d)[3]) % 2^d
  BY SMT DEF compress_coeff
<1>2. CASE d = 4
  <2>1. Divider(4) = <<1665, 80635, 28>>
    BY SMT DEF Divider
  <2> QED BY <1>1, <1>2, <2>1, Compress4, SMT
<1>3. CASE d = 5
  <2>1. Divider(5) = <<1664, 40318, 27>>
    BY SMT DEF Divider
  <2> QED BY <1>1, <1>3, <2>1, Compress5, SMT
<1>4. CASE d = 10
  <2>1. Divider(10) = <<1665, 1290167, 32>>
    BY SMT DEF Divider
  <2> QED BY <1>1, <1>4, <2>1, Compress10, SMT
<1>5. CASE d = 11
  <2>1. Divider(11) = <<1664, 645084, 31>>
    BY SMT DEF Divider
  <2> QED BY <1>1, <1>5, <2>1, Compress11, SMT
<1> QED BY <1>2, <1>3, <1>4, <1>5, SMT

LEMMA HwCompressIs ==
  ASSUME NEW x, Within(x, 0, 3328), NEW d \in {4, 10}
  PROVE  kyber_compress(x, d) = Compressed(x, d)
<1>1. CASE d = 4
  BY <1>1, Compress4, SMT DEF kyber_compress
<1>2. CASE d = 10
  BY <1>2, Compress10, SMT DEF kyber_compress
<1> QED BY <1>1, <1>2, SMT

LEMMA PositiveIs ==
  ASSUME Within(u, 0, 3328)
  PROVE  positive(u) = u /\ positive(centred) = u
<1> DEFINE a == barrett_reduce(u)
<1>1. Within(a, -1664, 1664) /\ Congruent(a, u)
  <2>1. Within(u, -32768, 32767)
    BY SMT DEF Within
  <2> QED BY <2>1, BarrettCorrect, SMT
<1> HIDE DEF a
<1>2. positive(u) = u /\ positive(a) = u
  BY <1>1, SMT DEF positive, Within, Congruent, KYBER_Q
<1> QED BY <1>2, SMT DEF a, centred

-----------------------------------------------------------------------------
(* KyberSweep: decompression *)

\* Two numbers at most b apart but for a multiple of q.
Near(y, x, b) ==
    /\ b \in Int /\ b <= 1664
    /\ \E k \in Int : -b <= y + 3329 * k - x /\ y + 3329 * k - x <= b

LEMMA DistanceIs ==
  ASSUME NEW y \in Int, NEW x \in Int, NEW b, Near(y, x, b)
  PROVE  Distance(y, x) <= b
<1>1. PICK k \in Int : -b <= y + 3329 * k - x /\ y + 3329 * k - x <= b
  BY DEF Near
<1> DEFINE z == (y - x) % 3329  a == y + 3329 * k - x
<1>2. Distance(y, x) = IF z > 1664 THEN 3329 - z ELSE z
  BY QuotientIs, SMT DEF Distance
<1>3. b \in Int /\ b <= 1664 /\ a \in Int /\ -b <= a /\ a <= b
  BY <1>1, SMT DEF Near
<1>4. z \in Int /\ (z = a \/ z = a + 3329)
  BY <1>3, SMT
<1> HIDE DEF z, a
<1> QED BY ONLY <1>2, <1>3, <1>4, SMT

LEMMA Decompress4 ==
  ASSUME NEW x, Within(x, 0, 3328)
  PROVE  /\ Distance(decompress_coeff(Compressed(x, 4), 4), x) <= (KYBER_Q + 2^4) \div 2^(4 + 1)
         /\ Within(Compressed(x, 4), 0, 15)
<1> DEFINE e == (x * 16 + 1664) \div 3329  m == (x * 16 + 1664) % 3329  t == e % 16
<1>1. /\ x \in Int /\ e \in Int /\ m \in Int /\ 0 <= m /\ m <= 3328
      /\ x * 16 + 1664 = 3329 * e + m /\ 0 <= e /\ e <= 16
  BY SMT DEF Within
<1>2. Compressed(x, 4) = t
  BY SMT DEF Compressed
<1> HIDE DEF e, m
<1>3. t \in Int /\ Within(t, 0, 15) /\ (t = e \/ (t = 0 /\ e = 16))
  BY <1>1, SMT DEF Within
<1> HIDE DEF t
<1> DEFINE y == (t * 3329 + 8) \div 16
<1>4. decompress_coeff(t, 4) = y
  BY QuotientIs, SMT DEF decompress_coeff
<1>5. y \in Int /\ 16 * y <= t * 3329 + 8 /\ t * 3329 + 8 <= 16 * y + 15
  BY <1>3, SMT
<1> HIDE DEF y
<1>6. \E k \in Int : -104 <= y + 3329 * k - x /\ y + 3329 * k - x <= 104
  <2>1. CASE t = e
    <3>1. PICK k \in Int : k = 0
      OBVIOUS
    <3>2. -104 <= y + 3329 * k - x /\ y + 3329 * k - x <= 104
      BY <1>1, <1>5, <2>1, <3>1, SMT
    <3> QED BY <3>2
  <2>2. CASE t = 0 /\ e = 16
    <3>1. PICK k \in Int : k = 1
      OBVIOUS
    <3>2. -104 <= y + 3329 * k - x /\ y + 3329 * k - x <= 104
      BY <1>1, <1>5, <2>2, <3>1, SMT
    <3> QED BY <3>2
  <2> QED BY <1>3, <2>1, <2>2, SMT
<1>7. Distance(y, x) <= 104
  <2>1. PICK b : b = 104
    OBVIOUS
  <2>2. Near(y, x, b)
    BY <1>6, <2>1, SMT DEF Near
  <2>3. Distance(y, x) <= b
    <3>1. x \in Int /\ y \in Int
      BY <1>1, <1>5
    <3> QED BY ONLY <2>2, <3>1, DistanceIs, Zenon
  <2> QED BY <2>1, <2>3, SMT
<1>8. (KYBER_Q + 2^4) \div 2^(4 + 1) = 104
  BY QuotientIs, SMT
<1> QED BY <1>2, <1>3, <1>4, <1>7, <1>8, SMT

LEMMA Decompress5 ==
  ASSUME NEW x, Within(x, 0, 3328)
  PROVE  /\ Distance(decompress_coeff(Compressed(x, 5), 5), x) <= (KYBER_Q + 2^5) \div 2^(5 + 1)
         /\ Within(Compressed(x, 5), 0, 31)
<1> DEFINE e == (x * 32 + 1664) \div 3329  m == (x * 32 + 1664) % 3329  t == e % 32
<1>1. /\ x \in Int /\ e \in Int /\ m \in Int /\ 0 <= m /\ m <= 3328
      /\ x * 32 + 1664 = 3329 * e + m /\ 0 <= e /\ e <= 32
  BY SMT DEF Within
<1>2. Compressed(x, 5) = t
  BY SMT DEF Compressed
<1> HIDE DEF e, m
<1>3. t \in Int /\ Within(t, 0, 31) /\ (t = e \/ (t = 0 /\ e = 32))
  BY <1>1, SMT DEF Within
<1> HIDE DEF t
<1> DEFINE y == (t * 3329 + 16) \div 32
<1>4. decompress_coeff(t, 5) = y
  BY QuotientIs, SMT DEF decompress_coeff
<1>5. y \in Int /\ 32 * y <= t * 3329 + 16 /\ t * 3329 + 16 <= 32 * y + 31
  BY <1>3, SMT
<1> HIDE DEF y
<1>6. \E k \in Int : -52 <= y + 3329 * k - x /\ y + 3329 * k - x <= 52
  <2>1. CASE t = e
    <3>1. PICK k \in Int : k = 0
      OBVIOUS
    <3>2. -52 <= y + 3329 * k - x /\ y + 3329 * k - x <= 52
      BY <1>1, <1>5, <2>1, <3>1, SMT
    <3> QED BY <3>2
  <2>2. CASE t = 0 /\ e = 32
    <3>1. PICK k \in Int : k = 1
      OBVIOUS
    <3>2. -52 <= y + 3329 * k - x /\ y + 3329 * k - x <= 52
      BY <1>1, <1>5, <2>2, <3>1, SMT
    <3> QED BY <3>2
  <2> QED BY <1>3, <2>1, <2>2, SMT
<1>7. Distance(y, x) <= 52
  <2>1. PICK b : b = 52
    OBVIOUS
  <2>2. Near(y, x, b)
    BY <1>6, <2>1, SMT DEF Near
  <2>3. Distance(y, x) <= b
    <3>1. x \in Int /\ y \in Int
      BY <1>1, <1>5
    <3> QED BY ONLY <2>2, <3>1, DistanceIs, Zenon
  <2> QED BY <2>1, <2>3, SMT
<1>8. (KYBER_Q + 2^5) \div 2^(5 + 1) = 52
  BY QuotientIs, SMT
<1> QED BY <1>2, <1>3, <1>4, <1>7, <1>8, SMT

LEMMA Decompress10 ==
  ASSUME NEW x, Within(x, 0, 3328)
  PROVE  /\ Distance(decompress_coeff(Compressed(x, 10), 10), x) <= (KYBER_Q + 2^10) \div 2^(10 + 1)
         /\ Within(Compressed(x, 10), 0, 1023)
<1> DEFINE e == (x * 1024 + 1664) \div 3329  m == (x * 1024 + 1664) % 3329  t == e % 1024
<1>1. /\ x \in Int /\ e \in Int /\ m \in Int /\ 0 <= m /\ m <= 3328
      /\ x * 1024 + 1664 = 3329 * e + m /\ 0 <= e /\ e <= 1024
  BY SMT DEF Within
<1>2. Compressed(x, 10) = t
  BY SMT DEF Compressed
<1> HIDE DEF e, m
<1>3. t \in Int /\ Within(t, 0, 1023) /\ (t = e \/ (t = 0 /\ e = 1024))
  BY <1>1, SMT DEF Within
<1> HIDE DEF t
<1> DEFINE y == (t * 3329 + 512) \div 1024
<1>4. decompress_coeff(t, 10) = y
  BY QuotientIs, SMT DEF decompress_coeff
<1>5. y \in Int /\ 1024 * y <= t * 3329 + 512 /\ t * 3329 + 512 <= 1024 * y + 1023
  BY <1>3, SMT
<1> HIDE DEF y
<1>6. \E k \in Int : -2 <= y + 3329 * k - x /\ y + 3329 * k - x <= 2
  <2>1. CASE t = e
    <3>1. PICK k \in Int : k = 0
      OBVIOUS
    <3>2. -2 <= y + 3329 * k - x /\ y + 3329 * k - x <= 2
      BY <1>1, <1>5, <2>1, <3>1, SMT
    <3> QED BY <3>2
  <2>2. CASE t = 0 /\ e = 1024
    <3>1. PICK k \in Int : k = 1
      OBVIOUS
    <3>2. -2 <= y + 3329 * k - x /\ y + 3329 * k - x <= 2
      BY <1>1, <1>5, <2>2, <3>1, SMT
    <3> QED BY <3>2
  <2> QED BY <1>3, <2>1, <2>2, SMT
<1>7. Distance(y, x) <= 2
  <2>1. PICK b : b = 2
    OBVIOUS
  <2>2. Near(y, x, b)
    BY <1>6, <2>1, SMT DEF Near
  <2>3. Distance(y, x) <= b
    <3>1. x \in Int /\ y \in Int
      BY <1>1, <1>5
    <3> QED BY ONLY <2>2, <3>1, DistanceIs, Zenon
  <2> QED BY <2>1, <2>3, SMT
<1>8. (KYBER_Q + 2^10) \div 2^(10 + 1) = 2
  BY QuotientIs, SMT
<1> QED BY <1>2, <1>3, <1>4, <1>7, <1>8, SMT

LEMMA Decompress11 ==
  ASSUME NEW x, Within(x, 0, 3328)
  PROVE  /\ Distance(decompress_coeff(Compressed(x, 11), 11), x) <= (KYBER_Q + 2^11) \div 2^(11 + 1)
         /\ Within(Compressed(x, 11), 0, 2047)
<1> DEFINE e == (x * 2048 + 1664) \div 3329  m == (x * 2048 + 1664) % 3329  t == e % 2048
<1>1. /\ x \in Int /\ e \in Int /\ m \in Int /\ 0 <= m /\ m <= 3328
      /\ x * 2048 + 1664 = 3329 * e + m /\ 0 <= e /\ e <= 2048
  BY SMT DEF Within
<1>2. Compressed(x, 11) = t
  BY SMT DEF Compressed
<1> HIDE DEF e, m
<1>3. t \in Int /\ Within(t, 0, 2047) /\ (t = e \/ (t = 0 /\ e = 2048))
  BY <1>1, SMT DEF Within
<1> HIDE DEF t
<1> DEFINE y == (t * 3329 + 1024) \div 2048
<1>4. decompress_coeff(t, 11) = y
  BY QuotientIs, SMT DEF decompress_coeff
<1>5. y \in Int /\ 2048 * y <= t * 3329 + 1024 /\ t * 3329 + 1024 <= 2048 * y + 2047
  BY <1>3, SMT
<1> HIDE DEF y
<1>6. \E k \in Int : -1 <= y + 3329 * k - x /\ y + 3329 * k - x <= 1
  <2>1. CASE t = e
    <3>1. PICK k \in Int : k = 0
      OBVIOUS
    <3>2. -1 <= y + 3329 * k - x /\ y + 3329 * k - x <= 1
      BY <1>1, <1>5, <2>1, <3>1, SMT
    <3> QED BY <3>2
  <2>2. CASE t = 0 /\ e = 2048
    <3>1. PICK k \in Int : k = 1
      OBVIOUS
    <3>2. -1 <= y + 3329 * k - x /\ y + 3329 * k - x <= 1
      BY <1>1, <1>5, <2>2, <3>1, SMT
    <3> QED BY <3>2
  <2> QED BY <1>3, <2>1, <2>2, SMT
<1>7. Distance(y, x) <= 1
  <2>1. PICK b : b = 1
    OBVIOUS
  <2>2. Near(y, x, b)
    BY <1>6, <2>1, SMT DEF Near
  <2>3. Distance(y, x) <= b
    <3>1. x \in Int /\ y \in Int
      BY <1>1, <1>5
    <3> QED BY ONLY <2>2, <3>1, DistanceIs, Zenon
  <2> QED BY <2>1, <2>3, SMT
<1>8. (KYBER_Q + 2^11) \div 2^(11 + 1) = 1
  BY QuotientIs, SMT
<1> QED BY <1>2, <1>3, <1>4, <1>7, <1>8, SMT

\* Decompression comes back to within half a step.
BackNear(t, d, x) ==
    Distance(decompress_coeff(t, d), x) <= (KYBER_Q + 2^d) \div 2^(d + 1)
Residue(x) == Within(x, 0, 3328)

LEMMA DecompressIs ==
  ASSUME NEW x, Residue(x), NEW d \in {4, 5, 10, 11}
  PROVE  BackNear(Compressed(x, d), d, x)
<1>1. CASE d = 4
  BY <1>1, Decompress4, SMT DEF BackNear, Residue
<1>2. CASE d = 5
  BY <1>2, Decompress5, SMT DEF BackNear, Residue
<1>3. CASE d = 10
  BY <1>3, Decompress10, SMT DEF BackNear, Residue
<1>4. CASE d = 11
  BY <1>4, Decompress11, SMT DEF BackNear, Residue
<1> QED BY <1>1, <1>2, <1>3, <1>4, SMT

\* kyber_codec_blocks.v:160: 12 bits hold what decompression gives.
LEMMA HwDecompressIs ==
  ASSUME NEW x, Within(x, 0, 3328), NEW d \in {4, 10}
  PROVE  kyber_decompress(Compressed(x, d), d) = decompress_coeff(Compressed(x, d), d)
<1> DEFINE t == Compressed(x, d)
<1>1. (d = 4 /\ Within(t, 0, 15)) \/ (d = 10 /\ Within(t, 0, 1023))
  BY Decompress4, Decompress10, SMT
<1> HIDE DEF t
<1>2. d = 4 /\ Within(t, 0, 15) => kyber_decompress(t, d) = decompress_coeff(t, d)
  BY QuotientIs, SMT DEF kyber_decompress, decompress_coeff, Within
<1>3. d = 10 /\ Within(t, 0, 1023) => kyber_decompress(t, d) = decompress_coeff(t, d)
  BY QuotientIs, SMT DEF kyber_decompress, decompress_coeff, Within
<1> QED BY <1>1, <1>2, <1>3 DEF t

LEMMA DivisionsOk == ASSUME Within(u, 0, 3328) PROVE DivisionsAgree
<1>1. ASSUME NEW d \in {4, 5, 10, 11}
      PROVE  /\ compress_coeff(u, d) = Rounded(d)
             /\ compress_coeff(centred, d) = Rounded(d)
             /\ BackNear(Rounded(d), d, u)
  <2>1. Rounded(d) = Compressed(u, d)
    BY RoundedIs
  <2>2. compress_coeff(u, d) = Compressed(u, d) /\ compress_coeff(centred, d) = Compressed(u, d)
    BY PositiveIs, CompressIs, SMT
  <2>3. BackNear(Compressed(u, d), d, u)
    <3>1. Residue(u)
      BY DEF Residue
    <3> QED BY ONLY <3>1, d \in {4, 5, 10, 11}, DecompressIs, Zenon
  <2> QED BY ONLY <2>1, <2>2, <2>3, Zenon
<1>2. ASSUME NEW d \in {4, 10}
      PROVE  /\ kyber_compress(u, d) = Rounded(d)
             /\ kyber_decompress(Rounded(d), d) = decompress_coeff(Rounded(d), d)
  BY RoundedIs, HwCompressIs, HwDecompressIs, SMT
<1> QED BY ONLY <1>1, <1>2, Zenon DEF DivisionsAgree, BackNear

-----------------------------------------------------------------------------
(* KyberSweep: the message and the samplers *)

LEMMA BitIs ==
  ASSUME NEW v
  PROVE  /\ Bit(v, 0) = (v \div 1) % 2 /\ Bit(v, 1) = (v \div 2) % 2
         /\ Bit(v, 2) = (v \div 4) % 2 /\ Bit(v, 3) = (v \div 8) % 2
         /\ Bit(v, 4) = (v \div 16) % 2 /\ Bit(v, 5) = (v \div 32) % 2
         /\ Bit(v, 6) = (v \div 64) % 2 /\ Bit(v, 7) = (v \div 128) % 2
BY Powers, SMT DEF Bit

LEMMA MessageOk == ASSUME Within(u, 0, 3328) PROVE MessageBits
<1>1. Rounded(1) = ((u * 2 + 1664) \div 3329) % 2
  BY QuotientIs, Powers, SMT DEF Rounded
<1>2. u \in Int /\ 0 <= u /\ u <= 3328
  BY SMT DEF Within
<1> DEFINE e == (u * 2 + 1664) \div 3329
<1>3. /\ e \in Int /\ (e = 0 \/ e = 1 \/ e = 2)
      /\ 3329 * e <= u * 2 + 1664 /\ u * 2 + 1664 <= 3329 * e + 3328
  BY <1>2, SMT
<1> HIDE DEF e
<1>4. tomsg_bit(u) = e % 2
  <2>1. ((2 * u + 1665) * 80635) \div 268435456 = e
    BY <1>2, <1>3, SMT
  <2> QED BY <2>1, Powers, SMT DEF tomsg_bit
<1>5. tomsg_bit(centred) = e % 2
  <2> DEFINE a == barrett_reduce(u)
  <2>1. Within(a, -1664, 1664) /\ Congruent(a, u)
    <3>1. Within(u, -32768, 32767)
      BY SMT DEF Within
    <3> QED BY <3>1, BarrettCorrect
  <2> HIDE DEF a
  <2>2. a \in Int /\ (a = u \/ (a = u - 3329 /\ u > 1664))
    BY <1>2, <2>1, SMT DEF Within, Congruent, KYBER_Q
  <2> DEFINE g == ((2 * a + 1665) * 80635) \div 268435456
  <2>3. tomsg_bit(a) = g % 2
    BY Powers, SMT DEF tomsg_bit
  <2>4. g \in Int /\ (g = e \/ g = e - 2)
    BY <1>2, <1>3, <2>2, SMT
  <2> HIDE DEF g
  <2>5. g % 2 = e % 2
    BY <1>3, <2>4, SMT
  <2> QED BY <2>3, <2>5 DEF a, centred
<1>6. u # 832 => kyber_encode1(u) = e % 2
  BY <1>2, <1>3, SMT DEF kyber_encode1
<1>7. ASSUME NEW bit \in {0, 1}
      PROVE  poly_frommsg([i \in 1..32 |-> bit])[0] = kyber_decode1(bit)
  <2> DEFINE msg == [i \in 1..32 |-> bit]
  <2>1. msg[1] = bit
    BY SMT
  <2>2. StreamBit(msg, 0) = Bit(msg[1], 0)
    BY SMT DEF StreamBit
  <2> HIDE DEF msg
  <2>3. StreamBit(msg, 0) = bit
    BY <2>1, <2>2, BitIs, SMT
  <2>4. 0 \in Coeffs /\ (KYBER_Q + 1) \div 2 = 1665
    BY QuotientIs, SMT DEF Coeffs, KYBER_N
  <2>5. poly_frommsg(msg)[0] = ((KYBER_Q + 1) \div 2) * StreamBit(msg, 0)
    BY <2>4, SMT DEF poly_frommsg
  <2>6. poly_frommsg(msg)[0] = kyber_decode1(bit)
    BY <2>3, <2>4, <2>5, SMT DEF kyber_decode1
  <2> QED BY <2>6 DEF msg
<1>8. Rounded(1) = e % 2
  BY <1>1 DEF e
<1> QED BY ONLY <1>4, <1>5, <1>6, <1>7, <1>8, SMT DEF MessageBits

LEMMA OnesAre ==
  ASSUME NEW F
  PROVE  Ones(F, 2) = (0 + F[0]) + F[1] /\ Ones(F, 3) = ((0 + F[0]) + F[1]) + F[2]
<1>1. \A n : Ones(F, n) = Sum(F, n)
  BY Zenon DEF Ones, Sum
<1>2. /\ Sum(F, 0) = 0 /\ Sum(F, 0 + 1) = Sum(F, 0) + F[0]
      /\ Sum(F, 1 + 1) = Sum(F, 1) + F[1] /\ Sum(F, 2 + 1) = Sum(F, 2) + F[2]
  BY SumStep
<1>3. 0 + 1 = 1 /\ 1 + 1 = 2 /\ 2 + 1 = 3
  OBVIOUS
<1> QED BY <1>1, <1>2, <1>3, Zenon

LEMMA CbdIs ==
  ASSUME NEW buf
  PROVE  /\ poly_cbd(buf, 3)[0] =
              (((0 + StreamBit(buf, 0)) + StreamBit(buf, 1)) + StreamBit(buf, 2))
              - (((0 + StreamBit(buf, 3)) + StreamBit(buf, 4)) + StreamBit(buf, 5))
         /\ poly_cbd(buf, 3)[1] =
              (((0 + StreamBit(buf, 6)) + StreamBit(buf, 7)) + StreamBit(buf, 8))
              - (((0 + StreamBit(buf, 9)) + StreamBit(buf, 10)) + StreamBit(buf, 11))
         /\ poly_cbd(buf, 2)[0] =
              ((0 + StreamBit(buf, 0)) + StreamBit(buf, 1))
              - ((0 + StreamBit(buf, 2)) + StreamBit(buf, 3))
<1> DEFINE F3(n) == [i \in 0..3-1 |-> StreamBit(buf, n + i)]
           F2(n) == [i \in 0..2-1 |-> StreamBit(buf, n + i)]
<1>1. ASSUME NEW n \in Nat
      PROVE  /\ Ones(F3(n), 3) = ((0 + StreamBit(buf, n + 0)) + StreamBit(buf, n + 1)) + StreamBit(buf, n + 2)
             /\ Ones(F2(n), 2) = (0 + StreamBit(buf, n + 0)) + StreamBit(buf, n + 1)
  <2>1. /\ F3(n)[0] = StreamBit(buf, n + 0) /\ F3(n)[1] = StreamBit(buf, n + 1)
        /\ F3(n)[2] = StreamBit(buf, n + 2)
        /\ F2(n)[0] = StreamBit(buf, n + 0) /\ F2(n)[1] = StreamBit(buf, n + 1)
    BY SMT
  <2> QED BY <2>1, OnesAre, Zenon
<1>2. 0 \in Coeffs /\ 1 \in Coeffs
  BY SMT DEF Coeffs, KYBER_N
<1>3. /\ poly_cbd(buf, 3)[0] = Ones(F3(2 * 3 * 0), 3) - Ones(F3(2 * 3 * 0 + 3), 3)
      /\ poly_cbd(buf, 3)[1] = Ones(F3(2 * 3 * 1), 3) - Ones(F3(2 * 3 * 1 + 3), 3)
      /\ poly_cbd(buf, 2)[0] = Ones(F2(2 * 2 * 0), 2) - Ones(F2(2 * 2 * 0 + 2), 2)
  BY <1>2, Zenon DEF poly_cbd
<1>4. 2 * 3 * 0 = 0 /\ 2 * 3 * 0 + 3 = 3 /\ 2 * 3 * 1 = 6 /\ 2 * 3 * 1 + 3 = 9
      /\ 2 * 2 * 0 = 0 /\ 2 * 2 * 0 + 2 = 2
  OBVIOUS
<1> HIDE DEF F3, F2
<1>5. /\ poly_cbd(buf, 3)[0] = Ones(F3(0), 3) - Ones(F3(3), 3)
      /\ poly_cbd(buf, 3)[1] = Ones(F3(6), 3) - Ones(F3(9), 3)
      /\ poly_cbd(buf, 2)[0] = Ones(F2(0), 2) - Ones(F2(2), 2)
  BY <1>3, <1>4, Zenon
<1> QED BY <1>1, <1>5, SMT

BitOf(v, power) == (v \div power) % 2

\* The bits of a number are those of its bytes, and of its two halves.
BytesOf(v) ==
         /\ Bit(v % 256, 0) = BitOf(v, 1)
         /\ Bit(v % 256, 1) = BitOf(v, 2)
         /\ Bit(v % 256, 2) = BitOf(v, 4)
         /\ Bit(v % 256, 3) = BitOf(v, 8)
         /\ Bit(v % 256, 4) = BitOf(v, 16)
         /\ Bit(v % 256, 5) = BitOf(v, 32)
         /\ Bit(v % 256, 6) = BitOf(v, 64)
         /\ Bit(v % 256, 7) = BitOf(v, 128)
         /\ Bit(v \div 256, 0) = BitOf(v, 256)
         /\ Bit(v \div 256, 1) = BitOf(v, 512)
         /\ Bit(v \div 256, 2) = BitOf(v, 1024)
         /\ Bit(v \div 256, 3) = BitOf(v, 2048)

LEMMA BytesHold == ASSUME NEW v \in Int PROVE BytesOf(v)
<1>1. Bit(v % 256, 0) = BitOf(v, 1)
  BY Powers, SMT DEF Bit, BitOf
<1>2. Bit(v % 256, 1) = BitOf(v, 2)
  BY Powers, SMT DEF Bit, BitOf
<1>3. Bit(v % 256, 2) = BitOf(v, 4)
  BY Powers, SMT DEF Bit, BitOf
<1>4. Bit(v % 256, 3) = BitOf(v, 8)
  BY Powers, SMT DEF Bit, BitOf
<1>5. Bit(v % 256, 4) = BitOf(v, 16)
  BY Powers, SMT DEF Bit, BitOf
<1>6. Bit(v % 256, 5) = BitOf(v, 32)
  BY Powers, SMT DEF Bit, BitOf
<1>7. Bit(v % 256, 6) = BitOf(v, 64)
  BY Powers, SMT DEF Bit, BitOf
<1>8. Bit(v % 256, 7) = BitOf(v, 128)
  BY Powers, SMT DEF Bit, BitOf
<1>9. Bit(v \div 256, 0) = BitOf(v, 256)
  BY Powers, SMT DEF Bit, BitOf
<1>10. Bit(v \div 256, 1) = BitOf(v, 512)
  BY Powers, SMT DEF Bit, BitOf
<1>11. Bit(v \div 256, 2) = BitOf(v, 1024)
  BY Powers, SMT DEF Bit, BitOf
<1>12. Bit(v \div 256, 3) = BitOf(v, 2048)
  BY Powers, SMT DEF Bit, BitOf
<1> QED BY <1>1, <1>2, <1>3, <1>4, <1>5, <1>6, <1>7, <1>8, <1>9, <1>10, <1>11, <1>12, SMT DEF BytesOf

LEMMA HalvesHold ==
  ASSUME NEW v \in Int
  PROVE  /\ Bit(v % 64, 0) = BitOf(v, 1)
         /\ Bit(v % 64, 1) = BitOf(v, 2)
         /\ Bit(v % 64, 2) = BitOf(v, 4)
         /\ Bit(v % 64, 3) = BitOf(v, 8)
         /\ Bit(v % 64, 4) = BitOf(v, 16)
         /\ Bit(v % 64, 5) = BitOf(v, 32)
         /\ Bit(v \div 64, 0) = BitOf(v, 64)
         /\ Bit(v \div 64, 1) = BitOf(v, 128)
         /\ Bit(v \div 64, 2) = BitOf(v, 256)
         /\ Bit(v \div 64, 3) = BitOf(v, 512)
         /\ Bit(v \div 64, 4) = BitOf(v, 1024)
         /\ Bit(v \div 64, 5) = BitOf(v, 2048)
<1>1. Bit(v % 64, 0) = BitOf(v, 1)
  BY Powers, SMT DEF Bit, BitOf
<1>2. Bit(v % 64, 1) = BitOf(v, 2)
  BY Powers, SMT DEF Bit, BitOf
<1>3. Bit(v % 64, 2) = BitOf(v, 4)
  BY Powers, SMT DEF Bit, BitOf
<1>4. Bit(v % 64, 3) = BitOf(v, 8)
  BY Powers, SMT DEF Bit, BitOf
<1>5. Bit(v % 64, 4) = BitOf(v, 16)
  BY Powers, SMT DEF Bit, BitOf
<1>6. Bit(v % 64, 5) = BitOf(v, 32)
  BY Powers, SMT DEF Bit, BitOf
<1>7. Bit(v \div 64, 0) = BitOf(v, 64)
  BY Powers, SMT DEF Bit, BitOf
<1>8. Bit(v \div 64, 1) = BitOf(v, 128)
  BY Powers, SMT DEF Bit, BitOf
<1>9. Bit(v \div 64, 2) = BitOf(v, 256)
  BY Powers, SMT DEF Bit, BitOf
<1>10. Bit(v \div 64, 3) = BitOf(v, 512)
  BY Powers, SMT DEF Bit, BitOf
<1>11. Bit(v \div 64, 4) = BitOf(v, 1024)
  BY Powers, SMT DEF Bit, BitOf
<1>12. Bit(v \div 64, 5) = BitOf(v, 2048)
  BY Powers, SMT DEF Bit, BitOf
<1> QED BY <1>1, <1>2, <1>3, <1>4, <1>5, <1>6, <1>7, <1>8, <1>9, <1>10, <1>11, <1>12

LEMMA NibbleHolds ==
  ASSUME NEW v \in Int
  PROVE  /\ Bit(v % 16, 0) = BitOf(v, 1)
         /\ Bit(v % 16, 1) = BitOf(v, 2)
         /\ Bit(v % 16, 2) = BitOf(v, 4)
         /\ Bit(v % 16, 3) = BitOf(v, 8)
<1>1. Bit(v % 16, 0) = BitOf(v, 1)
  BY Powers, SMT DEF Bit, BitOf
<1>2. Bit(v % 16, 1) = BitOf(v, 2)
  BY Powers, SMT DEF Bit, BitOf
<1>3. Bit(v % 16, 2) = BitOf(v, 4)
  BY Powers, SMT DEF Bit, BitOf
<1>4. Bit(v % 16, 3) = BitOf(v, 8)
  BY Powers, SMT DEF Bit, BitOf
<1> QED BY <1>1, <1>2, <1>3, <1>4

LEMMA Spread ==
  ASSUME NEW w \in 0..1, NEW x \in 0..1, NEW y \in 0..1, NEW z \in 0..1,
         NEW n, n = w + 2 * x + 8 * y + 16 * z
  PROVE  /\ Bit(n, 0) = w /\ Bit(n, 1) = x /\ Bit(n, 2) = 0
         /\ Bit(n, 3) = y /\ Bit(n, 4) = z /\ Bit(n, 5) = 0
<1>1. n \div 1 = n /\ n \div 2 = x + 4 * y + 8 * z /\ n \div 4 = 2 * y + 4 * z
  BY SMT
<1>2. n \div 8 = y + 2 * z /\ n \div 16 = z /\ n \div 32 = 0
  BY SMT
<1>3. /\ n % 2 = w /\ (x + 4 * y + 8 * z) % 2 = x /\ (2 * y + 4 * z) % 2 = 0
      /\ (y + 2 * z) % 2 = y /\ z % 2 = z /\ 0 % 2 = 0
  BY SMT
<1>4. /\ Bit(n, 0) = (n \div 1) % 2 /\ Bit(n, 1) = (n \div 2) % 2 /\ Bit(n, 2) = (n \div 4) % 2
      /\ Bit(n, 3) = (n \div 8) % 2 /\ Bit(n, 4) = (n \div 16) % 2 /\ Bit(n, 5) = (n \div 32) % 2
  BY BitIs
<1> QED BY ONLY <1>1, <1>2, <1>3, <1>4, Zenon

LEMMA SamplersOk == ASSUME Within(u, 0, 3328) PROVE SamplersAgree
<1> DEFINE buf == [i \in 1..192 |-> IF i = 1 THEN u % 256
                                    ELSE IF i = 2 THEN u \div 256 ELSE 0]
           pairs(n) == Bit(n, 0) + 2 * Bit(n, 1) + 8 * Bit(n, 2) + 16 * Bit(n, 3)
<1>1. u \in Int /\ 0 <= u /\ u <= 3328
  BY SMT DEF Within
<1>2. buf[1] = u % 256 /\ buf[2] = u \div 256
  BY SMT
<1>3. /\ SamplersAgree
         <=> /\ poly_cbd(buf, 3)[0] = kyber_cbd_core(u % 64)
             /\ poly_cbd(buf, 3)[1] = kyber_cbd_core(u \div 64)
             /\ poly_cbd(buf, 2)[0] = kyber_cbd_core(pairs(u % 16))
  BY SMT DEF SamplersAgree
<1> HIDE DEF buf
<1>4. /\ StreamBit(buf, 0) = Bit(buf[1], 0) /\ StreamBit(buf, 1) = Bit(buf[1], 1)
      /\ StreamBit(buf, 2) = Bit(buf[1], 2) /\ StreamBit(buf, 3) = Bit(buf[1], 3)
      /\ StreamBit(buf, 4) = Bit(buf[1], 4) /\ StreamBit(buf, 5) = Bit(buf[1], 5)
      /\ StreamBit(buf, 6) = Bit(buf[1], 6) /\ StreamBit(buf, 7) = Bit(buf[1], 7)
      /\ StreamBit(buf, 8) = Bit(buf[2], 0) /\ StreamBit(buf, 9) = Bit(buf[2], 1)
      /\ StreamBit(buf, 10) = Bit(buf[2], 2) /\ StreamBit(buf, 11) = Bit(buf[2], 3)
  BY SMT DEF StreamBit
<1> DEFINE b(k) == BitOf(u, k)
<1>5. /\ StreamBit(buf, 0) = b(1) /\ StreamBit(buf, 1) = b(2)
      /\ StreamBit(buf, 2) = b(4) /\ StreamBit(buf, 3) = b(8)
      /\ StreamBit(buf, 4) = b(16) /\ StreamBit(buf, 5) = b(32)
      /\ StreamBit(buf, 6) = b(64) /\ StreamBit(buf, 7) = b(128)
      /\ StreamBit(buf, 8) = b(256) /\ StreamBit(buf, 9) = b(512)
      /\ StreamBit(buf, 10) = b(1024) /\ StreamBit(buf, 11) = b(2048)
  <2>1. /\ Bit(u % 256, 0) = b(1) /\ Bit(u % 256, 1) = b(2) /\ Bit(u % 256, 2) = b(4)
        /\ Bit(u % 256, 3) = b(8) /\ Bit(u % 256, 4) = b(16) /\ Bit(u % 256, 5) = b(32)
        /\ Bit(u % 256, 6) = b(64) /\ Bit(u % 256, 7) = b(128)
        /\ Bit(u \div 256, 0) = b(256) /\ Bit(u \div 256, 1) = b(512)
        /\ Bit(u \div 256, 2) = b(1024) /\ Bit(u \div 256, 3) = b(2048)
    <3>1. BytesOf(u)
      BY <1>1, BytesHold
    <3> QED BY ONLY <3>1, SMT DEF BytesOf
  <2> DEFINE low == u % 256  high == u \div 256
  <2>2. buf[1] = low /\ buf[2] = high
    BY <1>2
  <2> HIDE DEF b
  <2> QED BY ONLY <1>4, <2>1, <2>2, SMT
<1>6. /\ Bit(u % 64, 0) = b(1) /\ Bit(u % 64, 1) = b(2) /\ Bit(u % 64, 2) = b(4)
      /\ Bit(u % 64, 3) = b(8) /\ Bit(u % 64, 4) = b(16) /\ Bit(u % 64, 5) = b(32)
      /\ Bit(u \div 64, 0) = b(64) /\ Bit(u \div 64, 1) = b(128) /\ Bit(u \div 64, 2) = b(256)
      /\ Bit(u \div 64, 3) = b(512) /\ Bit(u \div 64, 4) = b(1024) /\ Bit(u \div 64, 5) = b(2048)
      /\ Bit(u % 16, 0) = b(1) /\ Bit(u % 16, 1) = b(2)
      /\ Bit(u % 16, 2) = b(4) /\ Bit(u % 16, 3) = b(8)
  BY <1>1, HalvesHold, NibbleHolds, SMT
<1>7. \A k \in {1, 2, 4, 8, 16, 32, 64, 128, 256, 512, 1024, 2048} : b(k) \in 0..1
  BY <1>1, SMT DEF BitOf
<1> DEFINE n == pairs(u % 16)
<1>8. n = b(1) + 2 * b(2) + 8 * b(4) + 16 * b(8)
  BY <1>6
<1> HIDE DEF b, n
<1>9. /\ Bit(n, 0) = b(1) /\ Bit(n, 1) = b(2) /\ Bit(n, 2) = 0
      /\ Bit(n, 3) = b(4) /\ Bit(n, 4) = b(8) /\ Bit(n, 5) = 0
  <2>1. b(1) \in 0..1 /\ b(2) \in 0..1 /\ b(4) \in 0..1 /\ b(8) \in 0..1
    BY <1>7, SMT
  <2>2. PICK w1, x1, y1, z1 : w1 = b(1) /\ x1 = b(2) /\ y1 = b(4) /\ z1 = b(8)
    OBVIOUS
  <2>3. /\ w1 \in 0..1 /\ x1 \in 0..1 /\ y1 \in 0..1 /\ z1 \in 0..1
        /\ n = w1 + 2 * x1 + 8 * y1 + 16 * z1
    BY <1>8, <2>1, <2>2
  <2>4. /\ Bit(n, 0) = w1 /\ Bit(n, 1) = x1 /\ Bit(n, 2) = 0
        /\ Bit(n, 3) = y1 /\ Bit(n, 4) = z1 /\ Bit(n, 5) = 0
    BY ONLY <2>3, Spread, SMT
  <2> QED BY <2>2, <2>4
<1>10. \A v : kyber_cbd_core(v) = (Bit(v, 0) + Bit(v, 1) + Bit(v, 2))
                                  - (Bit(v, 3) + Bit(v, 4) + Bit(v, 5))
  BY SMT DEF kyber_cbd_core
<1>11. poly_cbd(buf, 3)[0] = kyber_cbd_core(u % 64)
  BY <1>5, <1>6, <1>7, <1>10, CbdIs, SMT
<1>12. poly_cbd(buf, 3)[1] = kyber_cbd_core(u \div 64)
  BY <1>5, <1>6, <1>7, <1>10, CbdIs, SMT
<1>13. poly_cbd(buf, 2)[0] = kyber_cbd_core(n)
  BY <1>5, <1>7, <1>9, <1>10, CbdIs, SMT
<1> QED BY <1>3, <1>11, <1>12, <1>13 DEF n

\* poly.c, polyvec.c, cbd.c against kyber_codec_blocks.v, kyber_cbd_sampler.v:
\* for every coefficient each division by a multiplication is the rounded
\* division, decompression comes back to within half a step, the message bits
\* are the same except at 832, and the samplers count the same bits.
THEOREM CodecsMatch == SweepSpec => []CodecsAgree
<1>1. Within(u, 0, 3328) => CodecsAgree
  BY DivisionsOk, MessageOk, SamplersOk DEF CodecsAgree
<1> QED BY <1>1, SweepRange, PTL
=============================================================================
