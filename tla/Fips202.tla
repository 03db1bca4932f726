------------------------------ MODULE Fips202 ------------------------------
(***************************************************************************)
(* The sponge of kyber/ref/fips202.c over Keccak.tla, and symmetric-shake.c*)
(* over it.  A byte string is a sequence over 0..255; a keccak_state is a  *)
(* record of its lanes s and its position pos in the current block.        *)
(***************************************************************************)
EXTENDS Keccak

SHAKE128_RATE == 168
SHAKE256_RATE == 136
SHA3_256_RATE == 136
SHA3_512_RATE == 72

Bits == [b \in 0..255 |-> {k \in 0..7 : (b \div 2^k) % 2 = 1}]
ByteOf(bits) == LET bit(k) == IF k \in bits THEN 2^k ELSE 0
                IN  bit(0) + bit(1) + bit(2) + bit(3)
                    + bit(4) + bit(5) + bit(6) + bit(7)

\* in is added to the state from byte pos on; byte i is byte i%8 of lane i/8.
XorBytes(s, pos, in) ==
    LET here(l) == {n \in 8*l..8*l+7 : n >= pos /\ n < pos + Len(in)}
        added(l) == UNION {{8 * (n % 8) + k : k \in Bits[in[n - pos + 1]]} :
                           n \in here(l)}
    IN  Eager([l \in Lanes |-> Xor(s[l], added(l))])
StateByte(s, i) ==
    ByteOf({k \in 0..7 : 8 * (i % 8) + k \in s[i \div 8]})
StateBytes(s, from, n) == [i \in 1..n |-> StateByte(s, from + i - 1)]

-----------------------------------------------------------------------------
(* The static functions *)

keccak_init == [l \in Lanes |-> {}]

RECURSIVE keccak_absorb(_, _, _, _)
keccak_absorb(s, pos, r, in) ==
    IF pos + Len(in) >= r
    THEN keccak_absorb(
            KeccakF1600_StatePermute(XorBytes(s, pos, SubSeq(in, 1, r - pos))),
            0, r, SubSeq(in, r - pos + 1, Len(in)))
    ELSE [s |-> XorBytes(s, pos, in), pos |-> pos + Len(in)]

keccak_finalize(s, pos, r, p) ==
    [XorBytes(s, pos, <<p>>) EXCEPT ![(r \div 8) - 1] = Xor(@, {63})]

\* The bytes, and the state they leave.
RECURSIVE keccak_squeeze(_, _, _, _)
keccak_squeeze(outlen, s, pos, r) ==
    CASE outlen = 0 -> [out |-> <<>>, s |-> s, pos |-> pos]
      [] outlen > 0 /\ pos = r ->
            keccak_squeeze(outlen, KeccakF1600_StatePermute(s), 0, r)
      [] outlen > 0 /\ pos # r ->
            LET n == IF outlen < r - pos THEN outlen ELSE r - pos
                rest == keccak_squeeze(outlen - n, s, pos + n, r)
            IN  [rest EXCEPT !.out = StateBytes(s, pos, n) \o @]

RECURSIVE keccak_absorb_blocks(_, _, _)
keccak_absorb_blocks(s, r, in) ==
    IF Len(in) >= r
    THEN keccak_absorb_blocks(
            KeccakF1600_StatePermute(XorBytes(s, 0, SubSeq(in, 1, r))),
            r, SubSeq(in, r + 1, Len(in)))
    ELSE [s |-> s, in |-> in]
keccak_absorb_once(r, in, p) ==
    LET last == keccak_absorb_blocks(keccak_init, r, in)
    IN  [XorBytes(last.s, 0, Append(last.in, p))
            EXCEPT ![(r - 1) \div 8] = Xor(@, {63})]

\* Every block but the first permutes the state of the one before.
RECURSIVE SqueezeBlocks(_, _, _)
SqueezeBlocks(nblocks, s, r) ==
    LET rest == IF nblocks = 1 THEN [out |-> <<>>, s |-> s]
                ELSE SqueezeBlocks(nblocks - 1, KeccakF1600_StatePermute(s), r)
    IN  [rest EXCEPT !.out = StateBytes(s, 0, r) \o @]
keccak_squeezeblocks(nblocks, s, r) ==
    IF nblocks = 0 THEN [out |-> <<>>, s |-> s]
    ELSE SqueezeBlocks(nblocks, KeccakF1600_StatePermute(s), r)

-----------------------------------------------------------------------------
(* SHAKE128 (rate 168) and SHAKE256 (rate 136): the functions of the two     *)
(* differ in the rate r only.                                                *)

shake_init == [s |-> keccak_init, pos |-> 0]
shake_absorb(state, in, r) == keccak_absorb(state.s, state.pos, r, in)
\* Mutant: the position in the block is kept.
shake_finalize_keeps(state, r) ==
    [s |-> keccak_finalize(state.s, state.pos, r, 31), pos |-> state.pos]
shake_finalize(state, r) ==
    [s |-> keccak_finalize(state.s, state.pos, r, 31), pos |-> r]
shake_squeeze(outlen, state, r) == keccak_squeeze(outlen, state.s, state.pos, r)
shake_absorb_once(in, r) == [s |-> keccak_absorb_once(r, in, 31), pos |-> r]
\* The position is left as it was.
shake_squeezeblocks(nblocks, state, r) ==
    [pos |-> state.pos] @@ keccak_squeezeblocks(nblocks, state.s, r)

\* shake128 and shake256: whole blocks first, the rest incrementally.
Onto(b, outlen, r) == b.out \o shake_squeeze(outlen, b, r).out
shake(outlen, in, r) ==
    Onto(shake_squeezeblocks(outlen \div r, shake_absorb_once(in, r), r),
         outlen % r, r)
shake256(outlen, in) == shake(outlen, in, SHAKE256_RATE)

\* Mutant: SHAKE's suffix.
sha3_suffix(r, in, n) ==
    StateBytes(KeccakF1600_StatePermute(keccak_absorb_once(r, in, 31)), 0, n)
sha3(r, in, n) ==
    StateBytes(KeccakF1600_StatePermute(keccak_absorb_once(r, in, 6)), 0, n)
sha3_256(in) == sha3(SHA3_256_RATE, in, 32)
sha3_512(in) == sha3(SHA3_512_RATE, in, 64)

-----------------------------------------------------------------------------
(* symmetric-shake.c *)

kyber_shake128_absorb(seed, x, y) ==
    shake_absorb_once(seed \o <<x, y>>, SHAKE128_RATE)
kyber_shake256_prf(outlen, key, nonce) == shake256(outlen, key \o <<nonce>>)
kyber_shake256_rkprf(key, input) ==
    LET keyed == shake_absorb(shake_init, key, SHAKE256_RATE)
        whole == shake_absorb(keyed, input, SHAKE256_RATE)
    IN  shake_squeeze(32, shake_finalize(whole, SHAKE256_RATE), SHAKE256_RATE).out
=============================================================================
