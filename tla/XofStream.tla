----------------------------- MODULE XofStream -----------------------------
(***************************************************************************)
(* The stream of matrix coefficients, clock by clock: the Keccak sponge as *)
(* an XOF (rtl/kyber/keccak_sponge_core.v), the rejection sampler          *)
(* (kyber_matrix_sampler.v), and the FIFO between it and the consumer      *)
(* (kyber512_core_fsm.v), which stops the consumer's pairs for as long as  *)
(* it likes.  Nothing can stop the coefficients the sampler has already    *)
(* emitted, so the FIFO asks for silence early.                            *)
(*                                                                         *)
(* A 12-bit candidate is accepted or rejected by chance.  A coefficient is *)
(* the polynomial it belongs to and its index there, or Stale when a word  *)
(* of another polynomial, or a word out of order, was in the buffer that   *)
(* it was cut from.                                                        *)
(***************************************************************************)
EXTENDS Integers, Sequences

CONSTANTS N,            \* coefficients of a polynomial: 256
          Polys,        \* polynomials of the matrix: 4
          W,            \* 64-bit words of an XOF block: 21
          MaxRejects    \* bound on the candidates rejected per polynomial

ASSUME SizeAssumption ==
    /\ N \in Nat \ {0} /\ Polys \in Nat \ {0} /\ W \in Nat \ {0}
    /\ N % 2 = 0 /\ MaxRejects \in Nat

Depth == 8
Stale == <<-1, -1>>

VARIABLES
    gm, poly, coeff_cnt, sample_bits,       \* the sampler's state registers
    xof_req_valid, xof_release, gm_done,    \* its outputs
    emit,                                   \* we and we_b: the coefficients
    sponge, xof_word_valid, xof_word_idx,   \* the sponge
    fifo, rd_ptr, wr_ptr, count,            \* the stream FIFO
    word,           \* the word at the sponge's output: <<polynomial, number>>
    taken, clean,   \* history: words taken for this polynomial, all its own
    rejects,        \* history: candidates rejected for this polynomial
    consumed        \* history: coefficients the consumer has taken

samplerVars == <<gm, poly, coeff_cnt, sample_bits, xof_req_valid, xof_release,
                 gm_done, emit, taken, clean, rejects>>
spongeVars  == <<sponge, xof_word_valid, xof_word_idx, word>>
fifoVars    == <<fifo, rd_ptr, wr_ptr, count, consumed>>
vars        == <<samplerVars, spongeVars, fifoVars>>

Coefficient(k) == <<k \div N, k % N>>

---------------------------------------------------------------------------
(* The FIFO.  ready is the consumer's. *)

pair_valid == count >= 2
PopCount(ready) == IF pair_valid /\ ready THEN 2 ELSE 0

\* mutant: one entry more.
StopAtFive(n) == n <= 5

\* mutant: an empty FIFO is asked for.
StopAtOne(n) == n <= 0

RoomAfter(n) == n <= 4
coeff_ready(ready) == RoomAfter(count - PopCount(ready))

Fifo(ready) ==
    /\ fifo' = [i \in 0 .. Depth - 1 |->
                  IF Len(emit) >= 1 /\ i = wr_ptr THEN emit[1]
                  ELSE IF Len(emit) = 2 /\ i = (wr_ptr + 1) % Depth THEN emit[2]
                  ELSE fifo[i]]
    /\ rd_ptr' = (rd_ptr + PopCount(ready)) % Depth
    /\ wr_ptr' = (wr_ptr + Len(emit)) % Depth
    /\ count' = (count - PopCount(ready) + Len(emit)) % 16
    /\ consumed' = consumed + PopCount(ready)

---------------------------------------------------------------------------
(* The sponge.  permuted: the permutation ends in this clock. *)

xof_req_ready == sponge \in {"IDLE", "WORD_OUT", "WAIT_NEXT"}

\* The sampler takes a word whether or not it says it is ready for one; it
\* is, whenever it waits for one.
xof_word_ready == gm = "NEED_WORD" /\ sample_bits <= 64

XofRelease ==
    /\ xof_release
    /\ sponge' = "IDLE" /\ xof_word_valid' = FALSE /\ xof_word_idx' = 0
    /\ UNCHANGED word

requested == xof_req_valid /\ xof_req_ready

XofRequest ==
    /\ ~xof_release /\ requested
    /\ sponge' = "PERMUTE_GO" /\ xof_word_valid' = FALSE /\ xof_word_idx' = 0
    /\ word' = <<poly, -1>>

PermuteGo ==
    /\ sponge = "PERMUTE_GO" /\ sponge' = "PERMUTE_WAIT"
    /\ UNCHANGED <<xof_word_valid, xof_word_idx, word>>

PermuteWait(permuted) ==
    /\ sponge = "PERMUTE_WAIT" /\ permuted
    /\ sponge' = "WORD_OUT" /\ xof_word_valid' = TRUE
    /\ xof_word_idx' = 0 /\ word' = [word EXCEPT ![2] = @ + 1]

WordOut ==
    /\ sponge = "WORD_OUT" /\ xof_word_valid /\ xof_word_ready
    /\ IF xof_word_idx = W - 1
       THEN /\ sponge' = "WAIT_NEXT" /\ xof_word_valid' = FALSE
            /\ xof_word_idx' = 0 /\ UNCHANGED word
       ELSE /\ xof_word_idx' = xof_word_idx + 1
            /\ word' = [word EXCEPT ![2] = @ + 1]
            /\ UNCHANGED <<sponge, xof_word_valid>>

WaitNext ==
    /\ sponge = "WAIT_NEXT" /\ xof_word_ready
    /\ sponge' = "PERMUTE_GO"
    /\ UNCHANGED <<xof_word_valid, xof_word_idx, word>>

Still(permuted) ==
    /\ \/ sponge = "IDLE"
       \/ sponge = "PERMUTE_WAIT" /\ ~permuted
       \/ sponge = "WORD_OUT" /\ ~(xof_word_valid /\ xof_word_ready)
       \/ sponge = "WAIT_NEXT" /\ ~xof_word_ready
    /\ UNCHANGED spongeVars

\* A release comes first, then a request, then the state's own work.
Sponge(permuted) ==
    \/ XofRelease
    \/ XofRequest
    \/ /\ ~xof_release /\ ~requested
       /\ \/ PermuteGo \/ PermuteWait(permuted) \/ WordOut \/ WaitNext
          \/ Still(permuted)

---------------------------------------------------------------------------
(* The sampler *)

To(s) == gm' = s

\* Its outputs are registers that fall back unless a state raises them.
Outputs(request, release, finished, coefficients) ==
    /\ xof_req_valid' = request /\ xof_release' = release
    /\ gm_done' = finished /\ emit' = coefficients

Silent == Outputs(FALSE, FALSE, gm_done, <<>>)

XofInit ==
    /\ gm = "XOF_INIT"
    /\ To("XOF_ACCEPT")
    /\ coeff_cnt' = 0 /\ sample_bits' = 0
    /\ taken' = 0 /\ clean' = TRUE /\ rejects' = 0
    /\ Silent
    /\ UNCHANGED poly

\* mutant: the wait is left out.
AfterRequestAtOnce == "NEED_WORD"

\* The request is seen one clock after the sponge was seen ready, so the
\* old word is still on show in the clock after this one: it is sat out.
AfterRequest == "WAIT_WORD"

XofAccept ==
    /\ gm = "XOF_ACCEPT"
    /\ To(IF xof_req_ready THEN AfterRequest ELSE gm)
    /\ Outputs(TRUE, FALSE, gm_done, <<>>)
    /\ UNCHANGED <<poly, coeff_cnt, sample_bits, taken, clean, rejects>>

WaitWord ==
    /\ gm = "WAIT_WORD"
    /\ To("NEED_WORD")
    /\ Silent
    /\ UNCHANGED <<poly, coeff_cnt, sample_bits, taken, clean, rejects>>

NeedWord ==
    /\ gm = "NEED_WORD"
    /\ IF xof_word_valid
       THEN /\ sample_bits' = sample_bits + 64
            /\ taken' = taken + 1
            /\ clean' = (clean /\ word = <<poly, taken>>)
            /\ To("REJECT")
       ELSE UNCHANGED <<gm, sample_bits, taken, clean>>
    /\ Silent
    /\ UNCHANGED <<poly, coeff_cnt, rejects>>

Cut(k) == IF clean THEN <<poly, k>> ELSE Stale

last_coefficient == coeff_cnt = N - 1

\* Two candidates at a time while there are 24 bits, else one; the second
\* of a pair is dropped when the polynomial needs only one more.
Candidates(ok0, ok1) ==
    LET two  == sample_bits >= 24
        kept == IF ~two THEN (IF ok0 THEN 1 ELSE 0)
                ELSE IF ok0 /\ ok1 /\ ~last_coefficient THEN 2
                ELSE IF ok0 \/ ok1 THEN 1 ELSE 0
        refused == (IF ok0 THEN 0 ELSE 1) + (IF two /\ ~ok1 THEN 1 ELSE 0)
    IN  /\ rejects + refused <= MaxRejects
        /\ rejects' = rejects + refused
        /\ sample_bits' = sample_bits - (IF two THEN 24 ELSE 12)
        /\ coeff_cnt' = coeff_cnt + kept
        /\ Outputs(FALSE, FALSE, gm_done,
                   [k \in 1 .. kept |-> Cut(coeff_cnt + k - 1)])

Reject(ok0, ok1, ready) ==
    /\ gm = "REJECT"
    /\ IF coeff_cnt # N /\ coeff_ready(ready) /\ sample_bits >= 12
       THEN To(gm) /\ Candidates(ok0, ok1)
       ELSE /\ To(IF coeff_cnt = N THEN "NEXT_POLY"
                  ELSE IF ~coeff_ready(ready) THEN gm ELSE "NEED_WORD")
            /\ Silent
            /\ UNCHANGED <<coeff_cnt, sample_bits, rejects>>
    /\ UNCHANGED <<poly, taken, clean>>

NextPoly ==
    /\ gm = "NEXT_POLY"
    /\ IF poly + 1 < Polys
       THEN poly' = poly + 1 /\ To("XOF_INIT")
       ELSE UNCHANGED poly /\ To("DONE")
    /\ Silent
    /\ UNCHANGED <<coeff_cnt, sample_bits, taken, clean, rejects>>

Finish ==
    /\ gm = "DONE"
    /\ To("IDLE")
    /\ Outputs(FALSE, TRUE, TRUE, <<>>)
    /\ UNCHANGED <<poly, coeff_cnt, sample_bits, taken, clean, rejects>>

Rest ==
    /\ gm = "IDLE"
    /\ To("IDLE")
    /\ Outputs(FALSE, FALSE, FALSE, <<>>)
    /\ UNCHANGED <<poly, coeff_cnt, sample_bits, taken, clean, rejects>>

Sampler(ok0, ok1, ready) ==
    \/ XofInit \/ XofAccept \/ WaitWord \/ NeedWord \/ Reject(ok0, ok1, ready)
    \/ NextPoly \/ Finish \/ Rest

---------------------------------------------------------------------------
(* Specification: one clock of all three *)

\* The sampler has just been started, with the sponge free.
Init ==
    /\ gm = "XOF_INIT" /\ poly = 0 /\ coeff_cnt = 0 /\ sample_bits = 0
    /\ xof_req_valid = FALSE /\ xof_release = FALSE /\ gm_done = FALSE
    /\ emit = <<>>
    /\ sponge = "IDLE" /\ xof_word_valid = FALSE /\ xof_word_idx = 0
    /\ word = <<0, -1>>
    /\ fifo = [i \in 0 .. Depth - 1 |-> Stale]
    /\ rd_ptr = 0 /\ wr_ptr = 0 /\ count = 0
    /\ taken = 0 /\ clean = TRUE /\ rejects = 0 /\ consumed = 0

Step(ok0, ok1, permuted, ready) ==
    Sampler(ok0, ok1, ready) /\ Sponge(permuted) /\ Fifo(ready)

Clock == \E ok0, ok1, permuted, ready \in BOOLEAN : Step(ok0, ok1, permuted, ready)

Spec == Init /\ [][Clock]_vars

\* The clock runs; the permutation ends some time (24 rounds), and the
\* consumer is ready some time, for it is a multiplier or a cache that only
\* waits for a DMA of fixed length.
Permuted == \E ok0, ok1, ready \in BOOLEAN : Step(ok0, ok1, TRUE, ready)
Ready    == \E ok0, ok1, permuted \in BOOLEAN : Step(ok0, ok1, permuted, TRUE)

FairSpec == Spec /\ WF_vars(Clock) /\ WF_vars(Permuted) /\ WF_vars(Ready)

---------------------------------------------------------------------------
(* Properties *)

TypeOK ==
    /\ gm \in {"IDLE", "XOF_INIT", "XOF_ACCEPT", "WAIT_WORD", "NEED_WORD",
               "REJECT", "NEXT_POLY", "DONE"}
    /\ poly \in 0 .. Polys - 1 /\ coeff_cnt \in 0 .. N
    /\ sample_bits \in 0 .. 127 /\ Len(emit) \in 0 .. 2
    /\ sponge \in {"IDLE", "PERMUTE_GO", "PERMUTE_WAIT", "WORD_OUT", "WAIT_NEXT"}
    /\ xof_word_idx \in 0 .. W - 1
    /\ rd_ptr \in 0 .. Depth - 1 /\ wr_ptr \in 0 .. Depth - 1
    /\ count \in 0 .. 15

\* The FIFO never overruns, counting the coefficients on their way to it:
\* "Stop at four entries so the 8-entry FIFO cannot overrun"
\* (kyber512_core_fsm.v:221).
NoOverrun == count + Len(emit) <= Depth

\* What the FIFO holds is, in order, the coefficients that the consumer has
\* to take next, each of its own polynomial: none is lost, doubled, or cut
\* from a word that the sponge still showed for the polynomial before.
CoefficientsInOrder ==
    \A i \in 0 .. count - 1 :
        fifo[(rd_ptr + i) % Depth] = Coefficient(consumed + i)

\* The whole matrix reaches the consumer, and the sponge is free again.
AllDelivered == <>[](consumed = N * Polys /\ sponge = "IDLE" /\ gm = "IDLE")
=============================================================================
