---------------------------- MODULE KyberReduce ----------------------------
(***************************************************************************)
(* Arithmetic modulo q = 3329 on 16-bit integers: the functions of         *)
(* kyber/ref/reduce.c and the pipelined units of the accelerator           *)
(* (kyber_pqc_math.v, kyber_pwma_local.v, kyber_unified_addsub_modq.v),    *)
(* each as the value it computes.  A shift right of a negative number is   *)
(* arithmetic, so >> n is \div 2^n.                                        *)
(***************************************************************************)
EXTENDS Integers

KYBER_Q == 3329
QINV == -3327                                        \* q^-1 mod 2^16
INT16_MAX == 32767
Int16s == -INT16_MAX-1..INT16_MAX
Int16(x) == ((x + 32768) % 65536) - 32768            \* the int16_t of x

Canonical == 0..KYBER_Q-1
Congruent(x, y) == (x - y) % KYBER_Q = 0

-----------------------------------------------------------------------------
(* reduce.c and fqmul of ntt.c *)

montgomery_reduce(a) ==
    LET t == Int16(Int16(a) * QINV)
    IN  Int16((a - t * KYBER_Q) \div 65536)

barrett_reduce(a) ==
    LET t == Int16((20159 * a + 33554432) \div 67108864)
    IN  Int16(a - Int16(t * KYBER_Q))

fqmul(a, b) == montgomery_reduce(a * b)

-----------------------------------------------------------------------------
(* The accelerator's units *)

\* The low 16 bits of QINV * din: only the high byte of the product needs an
\* adder, because QINV is 0xf301.
kyber_mul_qinv_pipe(din) ==
    LET low  == din % 256
        high == (din \div 256) % 256
    IN  256 * ((high + 243 * low) % 256) + low

\* q * din: 13 * din and the high byte of din are added above the low byte.
kyber_mul_q_pipe(din) == 256 * (13 * din + (din \div 256)) + (din % 256)

kyber_montgomery_pipe(din) ==
    Int16((din - kyber_mul_q_pipe(Int16(kyber_mul_qinv_pipe(din)))) \div 65536)

\* No rounding constant is added before the shift: the quotient is floored.
\* Mutant: the quotient is rounded, as the reference rounds it.
barrett_v_rounded(din) == (20159 * din + 33554432) \div 67108864
kyber_mul_barrett_v_pipe(din) == (20159 * din) \div 67108864
kyber_barrett_pipe(din) ==
    Int16(din - Int16(kyber_mul_q_pipe(kyber_mul_barrett_v_pipe(din))))

\* Both results of the butterfly pass a Barrett unit, in both directions.
\* Mutant: the inverse butterfly subtracts the other way round.
butterfly_swapped(inverse, a, b, zeta) ==
    LET mont_res == kyber_montgomery_pipe(
                        zeta * IF inverse THEN Int16(a - b) ELSE b)
        raw_a == Int16(a + IF inverse THEN b ELSE mont_res)
        raw_b == IF inverse THEN mont_res ELSE Int16(a - mont_res)
    IN  <<kyber_barrett_pipe(raw_a), kyber_barrett_pipe(raw_b)>>
kyber_ntt_butterfly(inverse, a, b, zeta) ==
    LET mont_res == kyber_montgomery_pipe(
                        zeta * IF inverse THEN Int16(b - a) ELSE b)
        raw_a == Int16(a + IF inverse THEN b ELSE mont_res)
        raw_b == IF inverse THEN mont_res ELSE Int16(a - mont_res)
    IN  <<kyber_barrett_pipe(raw_a), kyber_barrett_pipe(raw_b)>>

kyber_basemul_pipe(a0, a1, b0, b1, zeta) ==
    LET mont(x, y) == kyber_montgomery_pipe(x * y)
    IN  <<kyber_barrett_pipe(Int16(mont(a0, b0) + mont(zeta, mont(a1, b1)))),
          kyber_barrett_pipe(Int16(mont(a0, b1) + mont(a1, b0)))>>

\* The accumulator of the matrix product takes a product, times 2^16 for the
\* public key, and is brought back with one addition and one subtraction.
selected(base, use_tomont) ==
    IF use_tomont THEN kyber_montgomery_pipe(1353 * base) ELSE base
\* Mutant: a product is taken for a residue.
accumulate_unsigned(acc, held) ==
    IF acc + held >= KYBER_Q THEN acc + held - KYBER_Q ELSE acc + held
accumulate(acc, held) ==
    LET sum == acc + held
        nonnegative == IF sum < 0 THEN sum + KYBER_Q ELSE sum
    IN  IF nonnegative >= KYBER_Q THEN nonnegative - KYBER_Q ELSE nonnegative

canonical_modq12(x) ==
    IF x < 0 THEN x + KYBER_Q ELSE IF x >= KYBER_Q THEN x - KYBER_Q ELSE x

\* The scaling after the inverse transform: times 2^32 / 128, once.
scaled_invntt(x) == canonical_modq12(montgomery_reduce(1441 * x))

reduce_lane(a, b, c, do_subtract, do_add_c) ==
    LET value == IF do_subtract THEN a - b ELSE a + b + IF do_add_c THEN c ELSE 0
        once  == IF value >= KYBER_Q THEN value - KYBER_Q ELSE value
    IN  IF value < 0 THEN value + KYBER_Q
        ELSE IF once >= KYBER_Q THEN once - KYBER_Q ELSE once
=============================================================================
