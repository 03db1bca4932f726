------------------------------- MODULE Shake -------------------------------
(***************************************************************************)
(* A caller of the incremental interface of fips202.c: a message absorbed  *)
(* in pieces, finalized, and the output squeezed in pieces or in blocks,   *)
(* in any order the descriptions in fips202.c allow.                       *)
(***************************************************************************)
EXTENDS Fips202

CONSTANTS
    Pieces,          \* lengths a caller absorbs or squeezes at once
    MaxAbsorbs,      \* calls that absorb
    MaxSqueezes      \* calls that squeeze

VARIABLES
    rate,            \* SHAKE128_RATE or SHAKE256_RATE
    stage,           \* "absorb" or "squeeze"
    calls,           \* calls made in this stage
    state,           \* the keccak_state
    absorbed,        \* bytes of the message so far
    squeezed,        \* bytes of output so far
    stream,          \* what the output must be, from its first byte
    got              \* the piece squeezed last
shakeVars == <<rate, stage, calls, state, absorbed, squeezed, stream, got>>

\* A message without repetition within a block.
Message(from, n) == [i \in 1..n |-> (167 * (from + i)) % 256]

\* FIPS 202: the padded message is absorbed in blocks of r bytes, the output
\* is the first r bytes of every state from then on.
Padded(n, r) ==
    LET gap == r - (n % r)
    IN  Message(0, n) \o
        [i \in 1..gap |-> (IF i = 1 THEN 31 ELSE 0) + IF i = gap THEN 128 ELSE 0]
RECURSIVE AbsorbedBlocks(_, _, _)
AbsorbedBlocks(s, in, r) ==
    IF in = <<>> THEN s
    ELSE AbsorbedBlocks(KeccakF1600_StatePermute(XorBytes(s, 0, SubSeq(in, 1, r))),
                        SubSeq(in, r + 1, Len(in)), r)
RECURSIVE OutputBlocks(_, _, _)
OutputBlocks(s, n, r) ==
    IF n = 0 THEN <<>>
    ELSE StateBytes(s, 0, r) \o OutputBlocks(KeccakF1600_StatePermute(s), n - 1, r)
MaxBlocks == 4
Stream(n, r) ==
    OutputBlocks(AbsorbedBlocks(keccak_init, Padded(n, r), r), MaxBlocks, r)

-----------------------------------------------------------------------------
ShakeInit ==
    /\ rate \in {SHAKE128_RATE, SHAKE256_RATE}
    /\ stage = "absorb" /\ calls = 0
    /\ state = shake_init
    /\ absorbed = 0 /\ squeezed = 0 /\ stream = <<>> /\ got = <<>>

ShakeAbsorb(n) ==
    /\ stage = "absorb" /\ calls < MaxAbsorbs
    /\ calls' = calls + 1
    /\ state' = shake_absorb(state, Message(absorbed, n), rate)
    /\ absorbed' = absorbed + n
    /\ UNCHANGED <<rate, stage, squeezed, stream, got>>

ShakeFinalize ==
    /\ stage = "absorb"
    /\ stage' = "squeeze" /\ calls' = 0
    /\ state' = shake_finalize(state, rate)
    /\ stream' = Stream(absorbed, rate)
    /\ UNCHANGED <<rate, absorbed, squeezed, got>>

\* Instead of the three above, on a fresh state.
ShakeAbsorbOnce(n) ==
    /\ stage = "absorb" /\ calls = 0
    /\ stage' = "squeeze"
    /\ state' = shake_absorb_once(Message(0, n), rate)
    /\ absorbed' = n
    /\ stream' = Stream(n, rate)
    /\ UNCHANGED <<rate, calls, squeezed, got>>

ShakeSqueeze(n) ==
    /\ stage = "squeeze" /\ calls < MaxSqueezes
    /\ squeezed + n <= MaxBlocks * rate
    /\ calls' = calls + 1
    /\ LET b == shake_squeeze(n, state, rate)
       IN  state' = [s |-> b.s, pos |-> b.pos] /\ got' = b.out
    /\ squeezed' = squeezed + n
    /\ UNCHANGED <<rate, stage, absorbed, stream>>

\* "Assumes next block has not yet been started (state->pos = SHAKE256_RATE)".
ShakeSqueezeBlocks(nblocks) ==
    /\ stage = "squeeze" /\ calls < MaxSqueezes
    /\ state.pos = rate
    /\ squeezed + nblocks * rate <= MaxBlocks * rate
    /\ calls' = calls + 1
    /\ LET b == shake_squeezeblocks(nblocks, state, rate)
       IN  state' = [s |-> b.s, pos |-> b.pos] /\ got' = b.out
    /\ squeezed' = squeezed + nblocks * rate
    /\ UNCHANGED <<rate, stage, absorbed, stream>>

ShakeNext ==
    \/ \E n \in Pieces : ShakeAbsorb(n) \/ ShakeAbsorbOnce(n) \/ ShakeSqueeze(n)
    \/ ShakeFinalize
    \/ \E nblocks \in 0..2 : ShakeSqueezeBlocks(nblocks)
ShakeSpec == ShakeInit /\ [][ShakeNext]_shakeVars

-----------------------------------------------------------------------------
\* However a message is cut into pieces on its way in, and the output on its
\* way out, every byte squeezed is the byte of SHAKE at its place: the position
\* kept between the calls (fips202.c:381, 435) never skips, repeats or leaves
\* out a permutation.
SplitsDoNotMatter ==
    got = SubSeq(stream, squeezed - Len(got) + 1, squeezed)

\* One round of the accelerator is one round of the reference, on every state
\* that the sponge goes through.
RoundsAgree ==
    \A round \in {0, squeezed % NROUNDS} :
        UnrolledRound(state.s, round)
            = keccak_round_function(state.s, KeccakF_RoundConstants[round + 1])
=============================================================================
