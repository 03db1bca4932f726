-------------------------- MODULE XofStreamProofs --------------------------
(***************************************************************************)
(* The coefficient stream, for every polynomial length, block length and   *)
(* pattern of rejections: the FIFO between the matrix sampler and its      *)
(* consumer never overruns, and the consumer gets the matrix in order.     *)
(***************************************************************************)
EXTENDS XofStream, SequenceTheorems, TLAPS

\* A state keeps its registers in range when the sampler asks for a word
\* only with less than a candidate left, and counts no coefficient past the
\* last.
LowOnBits ==
    gm \in {"XOF_ACCEPT", "WAIT_WORD", "NEED_WORD"} => sample_bits <= 11

Coefficients == Int \X Int

EmitIsSeq == emit \in Seq(Coefficients) /\ Len(emit) \in 0 .. 2

FifoRoom ==
    /\ fifo \in [0 .. Depth - 1 -> Coefficients]
    /\ count \in 0 .. Depth
    /\ NoOverrun

Inv == TypeOK /\ LowOnBits /\ EmitIsSeq /\ FifoRoom

\* The coefficients of a clock are a sequence of their number.
LEMMA ShortSequence ==
    ASSUME NEW n \in 0 .. 2, NEW S, NEW f, f \in [1 .. n -> S]
    PROVE  f \in Seq(S) /\ Len(f) = n
<1>1. n \in Nat
  BY SMT
<1> QED
  BY <1>1, LenProperties, SeqDef

LEMMA CutIsPair ==
    ASSUME NEW k \in Int, Inv
    PROVE  Cut(k) \in Coefficients
BY SizeAssumption DEF Cut, Stale, Inv, TypeOK, Coefficients

\* A clock in which candidates are cut keeps no coefficient past the last
\* and emits as many as it counts.
LEMMA CandidatesCount ==
    ASSUME Inv, gm = "REJECT", coeff_cnt # N, sample_bits >= 12,
           NEW ok0 \in BOOLEAN, NEW ok1 \in BOOLEAN, Candidates(ok0, ok1)
    PROVE  /\ coeff_cnt' \in 0 .. N
           /\ sample_bits' \in 0 .. 127
           /\ emit' \in Seq(Coefficients) /\ Len(emit') \in 0 .. 2
<1> DEFINE two == sample_bits >= 24
           kept == IF ~two THEN (IF ok0 THEN 1 ELSE 0)
                   ELSE IF ok0 /\ ok1 /\ ~last_coefficient THEN 2
                   ELSE IF ok0 \/ ok1 THEN 1 ELSE 0
           cut == [k \in 1 .. kept |-> Cut(coeff_cnt + k - 1)]
<1>1. /\ coeff_cnt' = coeff_cnt + kept
      /\ sample_bits' = sample_bits - (IF two THEN 24 ELSE 12)
      /\ emit' = cut
  BY DEF Candidates, Outputs
<1>2. kept \in 0 .. 2 /\ (kept = 2 => coeff_cnt # N - 1)
  BY DEF last_coefficient
<1>3. coeff_cnt \in 0 .. N - 1 /\ sample_bits \in 12 .. 127 /\ N \in Nat
  BY SizeAssumption DEF Inv, TypeOK
<1>4. coeff_cnt' \in 0 .. N
  <2> HIDE DEF kept
  <2> QED BY <1>1, <1>2, <1>3
<1>5. sample_bits' \in 0 .. 127
  BY <1>1, <1>3
<1>6. cut \in [1 .. kept -> Coefficients]
  <2>1. \A k \in 1 .. kept : coeff_cnt + k - 1 \in Int
    <3> HIDE DEF kept
    <3> QED BY <1>2, <1>3
  <2> HIDE DEF kept
  <2> QED BY <2>1, CutIsPair
<1>7. cut \in Seq(Coefficients) /\ Len(cut) = kept
  <2> HIDE DEF cut, kept
  <2> QED BY <1>2, <1>6, ShortSequence
<1>8. emit' \in Seq(Coefficients) /\ Len(emit') \in 0 .. 2
  <2> HIDE DEF cut, kept
  <2> QED BY <1>1, <1>2, <1>7
<1> QED
  BY <1>4, <1>5, <1>8

\* Each state of the sampler keeps its registers, and it emits only in the
\* clock after one in which the FIFO had room.
LEMMA SamplerStep ==
    ASSUME Inv, NEW ok0 \in BOOLEAN, NEW ok1 \in BOOLEAN,
           NEW ready \in BOOLEAN, Sampler(ok0, ok1, ready)
    PROVE  /\ gm' \in {"IDLE", "XOF_INIT", "XOF_ACCEPT", "WAIT_WORD",
                       "NEED_WORD", "REJECT", "NEXT_POLY", "DONE"}
           /\ poly' \in 0 .. Polys - 1 /\ coeff_cnt' \in 0 .. N
           /\ sample_bits' \in 0 .. 127
           /\ LowOnBits' /\ EmitIsSeq'
           /\ Len(emit') = 0 \/ coeff_ready(ready)
<1> USE SizeAssumption DEF Inv, TypeOK, LowOnBits, EmitIsSeq, To, Outputs, Silent
<1>0. Polys \in Nat /\ N \in Nat
  OBVIOUS
<1>1. CASE XofInit
  BY <1>1 DEF XofInit
<1>2. CASE XofAccept
  BY <1>2 DEF XofAccept, AfterRequest
<1>3. CASE WaitWord
  BY <1>3 DEF WaitWord
<1>4. CASE NeedWord
  <2>1. /\ gm' \in {"NEED_WORD", "REJECT"} /\ emit' = <<>>
        /\ UNCHANGED <<poly, coeff_cnt>>
    BY <1>4 DEF NeedWord
  <2>2. \/ gm' = "REJECT" /\ sample_bits' = sample_bits + 64
        \/ sample_bits' = sample_bits
    BY <1>4 DEF NeedWord
  <2>3. sample_bits \in 0 .. 11
    BY <1>4 DEF NeedWord
  <2>4. sample_bits' \in 0 .. 127 /\ LowOnBits'
    <3>1. CASE gm' = "REJECT" /\ sample_bits' = sample_bits + 64
      <4>1. sample_bits' \in 0 .. 127
        BY <2>3, <3>1
      <4> QED
        BY <3>1, <4>1
    <3>2. CASE sample_bits' = sample_bits
      BY <2>3, <3>2
    <3> QED
      BY <2>2, <3>1, <3>2
  <2>5. emit' \in Seq(Coefficients) /\ Len(emit') = 0
    BY <2>1
  <2>6. poly' \in 0 .. Polys - 1 /\ coeff_cnt' \in 0 .. N
    BY <2>1
  <2> QED
    BY <2>1, <2>4, <2>5, <2>6
<1>5. CASE Reject(ok0, ok1, ready)
  <2>1. CASE coeff_cnt # N /\ coeff_ready(ready) /\ sample_bits >= 12
    <3>1. gm' = "REJECT" /\ poly' = poly /\ Candidates(ok0, ok1)
      BY <1>5, <2>1 DEF Reject
    <3>2. gm = "REJECT"
      BY <1>5 DEF Reject
    <3>3. /\ coeff_cnt' \in 0 .. N /\ sample_bits' \in 0 .. 127
          /\ emit' \in Seq(Coefficients) /\ Len(emit') \in 0 .. 2
      <4> HIDE DEF Inv, To, Outputs, Silent
      <4> QED BY <2>1, <3>1, <3>2, CandidatesCount
    <3> QED
      BY <2>1, <3>1, <3>3
  <2>2. CASE ~(coeff_cnt # N /\ coeff_ready(ready) /\ sample_bits >= 12)
    <3>1. emit' = <<>> /\ UNCHANGED <<poly, coeff_cnt, sample_bits>>
      BY <1>5, <2>2 DEF Reject
    <3>2. gm' = IF coeff_cnt = N THEN "NEXT_POLY"
                ELSE IF ~coeff_ready(ready) THEN gm ELSE "NEED_WORD"
      BY <1>5, <2>2 DEF Reject
    <3>3. gm = "REJECT"
      BY <1>5 DEF Reject
    <3>4. gm' = "NEED_WORD" => sample_bits' <= 11
      BY <2>2, <3>1, <3>2, <3>3
    <3> QED
      BY <3>1, <3>2, <3>3, <3>4
  <2> QED
    BY <2>1, <2>2
<1>6. CASE NextPoly
  BY <1>6 DEF NextPoly
<1>7. CASE Finish
  BY <1>7 DEF Finish
<1>8. CASE Rest
  BY <1>8 DEF Rest
<1> QED
  BY <1>1, <1>2, <1>3, <1>4, <1>5, <1>6, <1>7, <1>8 DEF Sampler

\* Room for four is room for what is on its way and two more.
LEMMA FifoStep ==
    ASSUME Inv, NEW ready \in BOOLEAN, Fifo(ready),
           EmitIsSeq', Len(emit') = 0 \/ coeff_ready(ready)
    PROVE  FifoRoom' /\ rd_ptr' \in 0 .. Depth - 1 /\ wr_ptr' \in 0 .. Depth - 1
<1>1. /\ Len(emit) \in 0 .. 2 /\ count \in 0 .. 8 /\ count + Len(emit) <= 8
      /\ rd_ptr \in 0 .. 7 /\ wr_ptr \in 0 .. 7
  BY DEF Inv, TypeOK, FifoRoom, NoOverrun, Depth
<1>2. PopCount(ready) \in {0, 2} /\ PopCount(ready) <= count
  BY <1>1 DEF PopCount, pair_valid
<1>3. count' = count - PopCount(ready) + Len(emit)
  <2>1. count' = (count - PopCount(ready) + Len(emit)) % 16
    BY DEF Fifo
  <2>2. count - PopCount(ready) + Len(emit) \in 0 .. 15
    BY SMTT(30), <1>1, <1>2
  <2> QED
    BY <2>1, <2>2
<1>4. Len(emit') \in 0 .. 2
  BY DEF EmitIsSeq
<1>5. count' + Len(emit') <= 8
  <2>1. CASE Len(emit') = 0
    BY <1>1, <1>2, <1>3, <2>1
  <2>2. CASE coeff_ready(ready)
    <3>1. count - PopCount(ready) <= 4
      BY <2>2 DEF coeff_ready, RoomAfter
    <3>2. count' <= 4 + Len(emit) /\ count' \in Int
      <4>1. count - PopCount(ready) \in Int
        BY <1>1, <1>2
      <4>2. Len(emit) \in Int
        BY <1>1
      <4> QED
        BY <1>3, <3>1, <4>1, <4>2
    <3>3. PICK m \in 0 .. 2 : m = Len(emit)
      BY <1>1
    <3>4. PICK n \in 0 .. 2 : n = Len(emit')
      BY <1>4
    <3>5. PICK c \in Int : c = count'
      BY <3>2
    <3>6. c <= 4 + m
      BY <3>2, <3>3, <3>5
    <3>7. c + n <= 8
      BY <3>6
    <3> QED
      BY <3>4, <3>5, <3>7
  <2> QED
    BY <2>1, <2>2
<1>6. count' \in 0 .. 8
  BY <1>1, <1>2, <1>3
<1>7. rd_ptr' \in 0 .. 7 /\ wr_ptr' \in 0 .. 7
  <2>1. /\ rd_ptr' = (rd_ptr + PopCount(ready)) % 8
        /\ wr_ptr' = (wr_ptr + Len(emit)) % 8
    BY DEF Fifo, Depth
  <2>2. rd_ptr + PopCount(ready) \in Int /\ wr_ptr + Len(emit) \in Int
    BY <1>1, <1>2
  <2> QED
    BY SMTT(30), <2>1, <2>2
<1>8. fifo' \in [0 .. 7 -> Coefficients]
  <2>1. fifo \in [0 .. 7 -> Coefficients] /\ emit \in Seq(Coefficients)
    BY DEF Inv, FifoRoom, EmitIsSeq, Depth
  <2>2. Len(emit) >= 1 => emit[1] \in Coefficients
    BY <1>1, <2>1
  <2>3. Len(emit) = 2 => emit[2] \in Coefficients
    <3>1. SUFFICES ASSUME Len(emit) = 2 PROVE emit[2] \in Coefficients
      OBVIOUS
    <3>2. 2 \in 1 .. Len(emit)
      BY <3>1
    <3> QED
      BY <2>1, <3>2, ElementOfSeq
  <2> QED
    BY SMTT(30), <2>1, <2>2, <2>3 DEF Fifo, Depth
<1> QED
  BY <1>5, <1>6, <1>7, <1>8 DEF FifoRoom, NoOverrun, Depth

LEMMA SpongeStep ==
    ASSUME Inv, NEW permuted \in BOOLEAN, Sponge(permuted)
    PROVE  /\ sponge' \in {"IDLE", "PERMUTE_GO", "PERMUTE_WAIT", "WORD_OUT",
                           "WAIT_NEXT"}
           /\ xof_word_idx' \in 0 .. W - 1
<1> USE SizeAssumption DEF Inv, TypeOK
<1>1. CASE XofRelease
  BY <1>1 DEF XofRelease
<1>2. CASE XofRequest
  BY <1>2 DEF XofRequest
<1>3. CASE PermuteGo
  BY <1>3 DEF PermuteGo
<1>4. CASE PermuteWait(permuted)
  BY <1>4 DEF PermuteWait
<1>5. CASE WordOut
  <2>1. \/ sponge' = "WAIT_NEXT" /\ xof_word_idx' = 0
        \/ /\ xof_word_idx # W - 1
           /\ sponge' = sponge /\ xof_word_idx' = xof_word_idx + 1
    BY <1>5 DEF WordOut
  <2> QED
    BY <2>1
<1>6. CASE WaitNext
  BY <1>6 DEF WaitNext
<1>7. CASE Still(permuted)
  BY <1>7 DEF Still, spongeVars
<1> QED
  BY <1>1, <1>2, <1>3, <1>4, <1>5, <1>6, <1>7 DEF Sponge

THEOREM Inductive == Spec => []Inv
<1>1. Init => Inv
  <2> SUFFICES ASSUME Init PROVE Inv
    OBVIOUS
  <2>1. emit \in Seq(Coefficients) /\ Len(emit) = 0
    BY DEF Init
  <2> QED
    BY <2>1, SizeAssumption
    DEF Init, Inv, TypeOK, LowOnBits, EmitIsSeq, FifoRoom, NoOverrun, Depth, Stale,
        Coefficients
<1>2. Inv /\ [Clock]_vars => Inv'
  <2> SUFFICES ASSUME Inv, [Clock]_vars PROVE Inv'
    OBVIOUS
  <2>1. CASE Clock
    <3>1. PICK ok0, ok1, permuted, ready \in BOOLEAN :
              Step(ok0, ok1, permuted, ready)
      BY <2>1 DEF Clock
    <3>2. Sampler(ok0, ok1, ready) /\ Sponge(permuted) /\ Fifo(ready)
      BY <3>1 DEF Step
    <3>3. /\ gm' \in {"IDLE", "XOF_INIT", "XOF_ACCEPT", "WAIT_WORD",
                      "NEED_WORD", "REJECT", "NEXT_POLY", "DONE"}
          /\ poly' \in 0 .. Polys - 1 /\ coeff_cnt' \in 0 .. N
          /\ sample_bits' \in 0 .. 127
          /\ LowOnBits' /\ EmitIsSeq'
          /\ Len(emit') = 0 \/ coeff_ready(ready)
      BY <3>2, SamplerStep
    <3>4. FifoRoom' /\ rd_ptr' \in 0 .. Depth - 1 /\ wr_ptr' \in 0 .. Depth - 1
      BY <3>2, <3>3, FifoStep
    <3>5. /\ sponge' \in {"IDLE", "PERMUTE_GO", "PERMUTE_WAIT", "WORD_OUT",
                          "WAIT_NEXT"}
          /\ xof_word_idx' \in 0 .. W - 1
      BY <3>2, SpongeStep
    <3>6. Len(emit') \in 0 .. 2 /\ count' \in 0 .. 15
      BY <3>3, <3>4 DEF EmitIsSeq, FifoRoom, Depth
    <3> QED
      BY <3>3, <3>4, <3>5, <3>6 DEF Inv, TypeOK
  <2>2. CASE UNCHANGED vars
    BY <2>2 DEF vars, samplerVars, spongeVars, fifoVars, Inv, TypeOK, LowOnBits,
                EmitIsSeq, FifoRoom, NoOverrun
  <2> QED
    BY <2>1, <2>2
<1> QED
  BY <1>1, <1>2, PTL DEF Spec

\* Every register of the stream stays in its range: no candidate is cut
\* from an empty buffer, no coefficient is counted past the last.
THEOREM StreamTypeCorrect == Spec => []TypeOK
<1>1. Inv => TypeOK
  BY DEF Inv
<1> QED
  BY <1>1, Inductive, PTL

\* Four entries of slack are enough for the coefficients that cannot be
\* stopped any more, whatever the consumer does.
THEOREM NeverOverruns == Spec => []NoOverrun
<1>1. Inv => NoOverrun
  BY DEF Inv, FifoRoom
<1> QED
  BY <1>1, Inductive, PTL

---------------------------------------------------------------------------
(* The order of the coefficients *)

\* The sampler and the sponge agree on the word on show.  While the sampler
\* does not wait for a word the sponge has nothing to do, so a request is
\* seen in the very clock after it is made; the word on show then belongs to
\* the request, and its number is that of the word the sampler takes next.
WordInv ==
    /\ taken \in Nat /\ clean = TRUE
    /\ xof_req_valid \in BOOLEAN /\ xof_release \in BOOLEAN /\ xof_word_valid \in BOOLEAN
    /\ xof_release => gm = "IDLE"
    /\ xof_req_valid <=> gm = "WAIT_WORD"
    /\ xof_word_valid <=> sponge = "WORD_OUT"
    /\ gm # "NEED_WORD" => xof_req_ready
    /\ gm \in {"XOF_ACCEPT", "WAIT_WORD"} => taken = 0
    /\ gm \in {"NEED_WORD", "REJECT"} =>
          word = <<poly, IF sponge = "WORD_OUT" THEN taken ELSE taken - 1>>

\* The coefficients counted are those consumed, those in the FIFO and those
\* on their way to it, in this order.
Counted == poly * N + IF gm = "XOF_INIT" THEN 0 ELSE coeff_cnt
OrderInv ==
    /\ consumed \in Nat
    /\ gm = "NEXT_POLY" => coeff_cnt = N
    /\ consumed + count + Len(emit) = Counted
    /\ \A k \in 1 .. Len(emit) : emit[k] = Coefficient(consumed + count + k - 1)
    /\ wr_ptr = (rd_ptr + count) % Depth
    /\ CoefficientsInOrder

LEMMA SecondOf ==
    ASSUME NEW a, NEW b, NEW c
    PROVE  [<<a, b>> EXCEPT ![2] = c] = <<a, c>> /\ <<a, b>>[2] = b
OBVIOUS

\* What the sponge does while the sampler waits for a word, and else.
LEMMA WordClock ==
    ASSUME Inv, WordInv, NEW permuted \in BOOLEAN, Sponge(permuted)
    PROVE  /\ xof_word_valid' \in BOOLEAN /\ (xof_word_valid' <=> sponge' = "WORD_OUT")
           /\ gm = "WAIT_WORD" => sponge' = "PERMUTE_GO" /\ word' = <<poly, -1>>
           /\ gm \notin {"WAIT_WORD", "NEED_WORD", "IDLE"} =>
                 sponge' = sponge /\ word' = word
           /\ gm = "IDLE" => sponge' \in {"IDLE", sponge}
           /\ gm = "NEED_WORD" /\ ~xof_word_valid =>
                 word' = <<poly, IF sponge' = "WORD_OUT" THEN taken ELSE taken - 1>>
           /\ gm = "NEED_WORD" /\ xof_word_valid =>
                 /\ sponge' \in {"WORD_OUT", "WAIT_NEXT"}
                 /\ word' = <<poly, IF sponge' = "WORD_OUT" THEN taken + 1 ELSE taken>>
<1> USE DEF WordInv, xof_req_ready, requested
<1>1. CASE gm = "WAIT_WORD"
  <2>1. XofRequest
    BY <1>1 DEF Sponge, XofRelease
  <2> QED
    BY <1>1, <2>1 DEF XofRequest
<1>2. CASE gm = "NEED_WORD"
  <2>1. ~XofRelease /\ ~XofRequest
    BY <1>2 DEF XofRelease, XofRequest
  <2>2. xof_word_ready
    BY <1>2 DEF xof_word_ready, Inv, LowOnBits, TypeOK
  <2>3. CASE PermuteGo
    BY <1>2, <2>3 DEF PermuteGo
  <2>4. CASE PermuteWait(permuted)
    <3>1. sponge = "PERMUTE_WAIT" /\ word = <<poly, taken - 1>>
      BY <1>2, <2>4 DEF PermuteWait
    <3>2. word' = <<poly, taken - 1 + 1>>
      BY <2>4, <3>1, SecondOf DEF PermuteWait
    <3> QED
      BY <1>2, <2>4, <3>1, <3>2 DEF PermuteWait
  <2>5. CASE WordOut
    <3>1. sponge = "WORD_OUT" /\ word = <<poly, taken>> /\ xof_word_valid
      BY <1>2, <2>5 DEF WordOut
    <3>2. CASE xof_word_idx = W - 1
      BY <1>2, <2>5, <3>1, <3>2 DEF WordOut
    <3>3. CASE xof_word_idx # W - 1
      <4>1. word' = <<poly, taken + 1>>
        BY <2>5, <3>1, <3>3, SecondOf DEF WordOut
      <4> QED
        BY <1>2, <2>5, <3>1, <3>3, <4>1 DEF WordOut
    <3> QED
      BY <3>2, <3>3
  <2>6. CASE WaitNext
    BY <1>2, <2>6 DEF WaitNext
  <2>7. CASE Still(permuted)
    BY <1>2, <2>2, <2>7 DEF Still, spongeVars
  <2> QED
    BY <2>1, <2>3, <2>4, <2>5, <2>6, <2>7 DEF Sponge
<1>3. CASE gm \notin {"WAIT_WORD", "NEED_WORD"}
  <2>1. ~xof_word_ready /\ ~requested /\ sponge \in {"IDLE", "WORD_OUT", "WAIT_NEXT"}
    BY <1>3 DEF xof_word_ready
  <2>2. CASE XofRelease
    BY <1>3, <2>2 DEF XofRelease
  <2>3. CASE ~XofRelease
    <3>1. Still(permuted)
      BY <2>1, <2>3 DEF Sponge, XofRequest, PermuteGo, PermuteWait, WordOut, WaitNext
    <3> QED
      BY <1>3, <3>1 DEF Still, spongeVars
  <2> QED
    BY <2>2, <2>3
<1> QED
  BY <1>1, <1>2, <1>3

LEMMA WordStep ==
    ASSUME Inv, WordInv, NEW ok0, NEW ok1, NEW ready, NEW permuted \in BOOLEAN,
           Sampler(ok0, ok1, ready), Sponge(permuted)
    PROVE  WordInv'
<1>1. /\ xof_word_valid' \in BOOLEAN /\ (xof_word_valid' <=> sponge' = "WORD_OUT")
      /\ gm = "WAIT_WORD" => sponge' = "PERMUTE_GO" /\ word' = <<poly, -1>>
      /\ gm \notin {"WAIT_WORD", "NEED_WORD", "IDLE"} => sponge' = sponge /\ word' = word
      /\ gm = "IDLE" => sponge' \in {"IDLE", sponge}
      /\ gm = "NEED_WORD" /\ ~xof_word_valid =>
            word' = <<poly, IF sponge' = "WORD_OUT" THEN taken ELSE taken - 1>>
      /\ gm = "NEED_WORD" /\ xof_word_valid =>
            /\ sponge' \in {"WORD_OUT", "WAIT_NEXT"}
            /\ word' = <<poly, IF sponge' = "WORD_OUT" THEN taken + 1 ELSE taken>>
  BY WordClock
<1> USE DEF WordInv, xof_req_ready, To, Outputs, Silent
<1>2. CASE XofInit
  BY <1>1, <1>2 DEF XofInit
<1>3. CASE XofAccept
  BY <1>1, <1>3 DEF XofAccept, AfterRequest
<1>4. CASE WaitWord
  <2>1. /\ gm = "WAIT_WORD" /\ gm' = "NEED_WORD" /\ UNCHANGED <<poly, taken, clean>>
        /\ xof_req_valid' = FALSE /\ xof_release' = FALSE
        /\ sponge' = "PERMUTE_GO" /\ word' = <<poly, -1>> /\ taken = 0
    BY <1>1, <1>4 DEF WaitWord
  <2>2. taken' - 1 = -1
    BY <2>1
  <2>3. word' = <<poly', taken' - 1>>
    BY <2>1, <2>2
  <2> QED
    BY <1>1, <2>1, <2>3
<1>5. CASE NeedWord
  <2>1. CASE xof_word_valid
    <3>1. word = <<poly, taken>>
      BY <1>5, <2>1 DEF NeedWord
    <3>2. /\ gm = "NEED_WORD" /\ gm' = "REJECT" /\ taken' = taken + 1 /\ clean' = TRUE
          /\ poly' = poly /\ xof_req_valid' = FALSE /\ xof_release' = FALSE
      BY <1>5, <2>1, <3>1 DEF NeedWord
    <3>3. word' = <<poly', IF sponge' = "WORD_OUT" THEN taken' ELSE taken' - 1>>
      <4>1. taken \in Nat /\ taken' - 1 = taken
        BY <3>2
      <4>2. CASE sponge' = "WORD_OUT"
        BY <1>1, <2>1, <3>2, <4>2
      <4>3. CASE sponge' # "WORD_OUT"
        BY <1>1, <2>1, <3>2, <4>1, <4>3
      <4> QED
        BY <4>2, <4>3
    <3>4. /\ sponge' \in {"WORD_OUT", "WAIT_NEXT"} /\ taken' \in Nat
          /\ xof_word_valid' \in BOOLEAN /\ (xof_word_valid' <=> sponge' = "WORD_OUT")
      BY <1>1, <2>1, <3>2
    <3> QED
      BY <3>2, <3>3, <3>4
  <2>2. CASE ~xof_word_valid
    BY <1>1, <1>5, <2>2 DEF NeedWord
  <2> QED
    BY <2>1, <2>2
<1>6. CASE Reject(ok0, ok1, ready)
  <2>1. /\ gm = "REJECT" /\ gm' \in {"REJECT", "NEXT_POLY", "NEED_WORD"}
        /\ UNCHANGED <<poly, taken, clean>>
        /\ xof_req_valid' = FALSE /\ xof_release' = FALSE
    BY <1>6 DEF Reject, Candidates
  <2>2. sponge' = sponge /\ word' = word /\ xof_req_ready
    BY <1>1, <2>1
  <2>3. word' = <<poly', IF sponge' = "WORD_OUT" THEN taken' ELSE taken' - 1>>
    BY <2>1, <2>2
  <2> QED
    BY <1>1, <2>1, <2>2, <2>3
<1>7. CASE NextPoly
  BY <1>1, <1>7 DEF NextPoly
<1>8. CASE Finish
  BY <1>1, <1>8 DEF Finish
<1>9. CASE Rest
  BY <1>1, <1>9 DEF Rest
<1> QED
  BY <1>2, <1>3, <1>4, <1>5, <1>6, <1>7, <1>8, <1>9 DEF Sampler

\* A number of the matrix is a polynomial and an index.
LEMMA Division ==
    ASSUME NEW n \in Nat \ {0}, NEW p \in Nat, NEW c \in 0 .. n - 1
    PROVE  (p * n + c) \div n = p /\ (p * n + c) % n = c
OBVIOUS

\* The coefficients a clock adds continue those counted before.
LEMMA EmitStep ==
    ASSUME Inv, WordInv, OrderInv, NEW ok0 \in BOOLEAN, NEW ok1 \in BOOLEAN,
           NEW ready \in BOOLEAN, Sampler(ok0, ok1, ready)
    PROVE  /\ gm' = "NEXT_POLY" => coeff_cnt' = N
           /\ Counted \in Int /\ Counted' = Counted + Len(emit')
           /\ \A k \in 1 .. Len(emit') : emit'[k] = Coefficient(Counted + k - 1)
<1>1. /\ N \in Nat \ {0} /\ poly \in Nat /\ coeff_cnt \in 0 .. N /\ clean = TRUE
      /\ gm = "NEXT_POLY" => coeff_cnt = N
  BY SizeAssumption DEF Inv, TypeOK, WordInv, OrderInv
<1>2. poly * N \in Int /\ (poly + 1) * N = poly * N + N
  BY <1>1
<1>3. Counted = poly * N + (IF gm = "XOF_INIT" THEN 0 ELSE coeff_cnt) /\ Counted \in Int
  BY <1>1, <1>2 DEF Counted
<1> USE DEF To, Outputs, Silent
<1>4. CASE Reject(ok0, ok1, ready) /\ coeff_cnt # N /\ coeff_ready(ready) /\ sample_bits >= 12
  <2> DEFINE two == sample_bits >= 24
             kept == IF ~two THEN (IF ok0 THEN 1 ELSE 0)
                     ELSE IF ok0 /\ ok1 /\ ~last_coefficient THEN 2
                     ELSE IF ok0 \/ ok1 THEN 1 ELSE 0
             cut == [k \in 1 .. kept |-> Cut(coeff_cnt + k - 1)]
  <2>1. /\ gm = "REJECT" /\ gm' = "REJECT" /\ poly' = poly
        /\ coeff_cnt' = coeff_cnt + kept /\ emit' = cut
    BY <1>4 DEF Reject, Candidates
  <2>2. kept \in 0 .. 2 /\ coeff_cnt + kept <= N
    BY <1>1, <1>4 DEF last_coefficient
  <2> HIDE DEF kept
  <2>3. Len(emit') = kept /\ \A k \in 1 .. kept : emit'[k] = <<poly, coeff_cnt + k - 1>>
    <3>1. cut \in [1 .. kept -> {<<poly, coeff_cnt + k - 1>> : k \in 1 .. kept}]
      BY <1>1 DEF Cut
    <3>2. Len(cut) = kept
      BY <2>2, <3>1, ShortSequence
    <3>3. \A k \in 1 .. kept : cut[k] = <<poly, coeff_cnt + k - 1>>
      BY <1>1 DEF Cut
    <3> QED
      BY <2>1, <3>2, <3>3
  <2>4. ASSUME NEW k \in 1 .. kept
        PROVE  emit'[k] = Coefficient(Counted + k - 1)
    <3>1. coeff_cnt + k - 1 \in 0 .. N - 1 /\ Counted + k - 1 = poly * N + (coeff_cnt + k - 1)
      BY <1>1, <1>2, <1>3, <2>1, <2>2
    <3>2. /\ (poly * N + (coeff_cnt + k - 1)) \div N = poly
          /\ (poly * N + (coeff_cnt + k - 1)) % N = coeff_cnt + k - 1
      BY <1>1, <3>1, Division
    <3>3. Coefficient(Counted + k - 1) = <<poly, coeff_cnt + k - 1>>
      BY <3>1, <3>2 DEF Coefficient
    <3> QED
      BY <2>3, <3>3
  <2>5. Counted' = poly * N + coeff_cnt + kept
    BY <1>1, <1>2, <2>1, <2>2 DEF Counted
  <2> QED
    BY <1>1, <1>2, <1>3, <2>1, <2>2, <2>3, <2>4, <2>5
<1>5. CASE Reject(ok0, ok1, ready) /\ ~(coeff_cnt # N /\ coeff_ready(ready) /\ sample_bits >= 12)
  <2>1. /\ gm = "REJECT" /\ emit' = <<>> /\ UNCHANGED <<poly, coeff_cnt>>
        /\ gm' \in {"NEXT_POLY", "REJECT", "NEED_WORD"} /\ (gm' = "NEXT_POLY" => coeff_cnt = N)
    BY <1>5 DEF Reject
  <2> QED
    BY <1>3, <2>1 DEF Counted
<1>6. CASE XofInit
  BY <1>1, <1>2, <1>3, <1>6 DEF XofInit, Counted
<1>7. CASE NextPoly
  BY <1>1, <1>2, <1>3, <1>7 DEF NextPoly, Counted
<1>8. CASE XofAccept \/ WaitWord \/ NeedWord \/ Finish \/ Rest
  <2>1. /\ emit' = <<>> /\ UNCHANGED <<poly, coeff_cnt>>
        /\ gm # "XOF_INIT" /\ gm' \notin {"XOF_INIT", "NEXT_POLY"}
    <3>1. CASE XofAccept
      BY <3>1 DEF XofAccept, AfterRequest
    <3>2. CASE WaitWord
      BY <3>2 DEF WaitWord
    <3>3. CASE NeedWord
      BY <3>3 DEF NeedWord
    <3>4. CASE Finish \/ Rest
      BY <3>4 DEF Finish, Rest
    <3> QED
      BY <1>8, <3>1, <3>2, <3>3, <3>4
  <2> QED
    BY <1>3, <2>1 DEF Counted
<1> QED
  BY <1>4, <1>5, <1>6, <1>7, <1>8 DEF Sampler

\* The pointers and the count of the FIFO.
LEMMA FifoPointers ==
    ASSUME Inv, NEW ready \in BOOLEAN, Fifo(ready)
    PROVE  /\ Len(emit) \in 0 .. 2 /\ count \in 0 .. 8 /\ count + Len(emit) <= 8
           /\ rd_ptr \in 0 .. 7
           /\ PopCount(ready) \in 0 .. 2 /\ PopCount(ready) <= count
           /\ count' = count - PopCount(ready) + Len(emit)
           /\ rd_ptr' = (rd_ptr + PopCount(ready)) % 8
           /\ wr_ptr' = (wr_ptr + Len(emit)) % 8
           /\ consumed' = consumed + PopCount(ready)
<1>1. /\ Len(emit) \in 0 .. 2 /\ count \in 0 .. 8 /\ count + Len(emit) <= 8
      /\ rd_ptr \in 0 .. 7
  BY DEF Inv, TypeOK, FifoRoom, NoOverrun, Depth
<1>2. PopCount(ready) \in 0 .. 2 /\ PopCount(ready) <= count
  BY <1>1 DEF PopCount, pair_valid
<1>3. count' = (count - PopCount(ready) + Len(emit)) % 16
  BY DEF Fifo
<1>4. count - PopCount(ready) + Len(emit) \in 0 .. 15
  BY SMTT(30), <1>1, <1>2
<1>5. count' = count - PopCount(ready) + Len(emit)
  BY <1>3, <1>4
<1>6. /\ rd_ptr' = (rd_ptr + PopCount(ready)) % 8
      /\ wr_ptr' = (wr_ptr + Len(emit)) % 8
      /\ consumed' = consumed + PopCount(ready)
  BY DEF Fifo, Depth
<1> QED
  BY <1>1, <1>2, <1>5, <1>6

\* A slot that holds an entry is none of the slots that a clock writes.
LEMMA SlotsApart ==
    ASSUME NEW r \in 0 .. 7, NEW c \in 0 .. 8, NEW j \in 0 .. c - 1
    PROVE  /\ c <= 7 => (r + j) % 8 # (r + c) % 8
           /\ c <= 6 => (r + j) % 8 # (((r + c) % 8) + 1) % 8
<1>1. c \in Int /\ j \in Int /\ r \in Int /\ 0 <= j /\ j < c
  OBVIOUS
<1>2. ASSUME c <= 7 PROVE (r + j) % 8 # (r + c) % 8
  BY <1>1, <1>2
<1>3. ASSUME c <= 6 PROVE (r + j) % 8 # (((r + c) % 8) + 1) % 8
  BY <1>1, <1>3
<1> QED
  BY <1>2, <1>3

LEMMA OrderStep ==
    ASSUME Inv, WordInv, OrderInv, NEW ok0 \in BOOLEAN, NEW ok1 \in BOOLEAN,
           NEW ready \in BOOLEAN, Sampler(ok0, ok1, ready), Fifo(ready), Inv'
    PROVE  OrderInv'
<1> DEFINE m == Len(emit)
           t == PopCount(ready)
<1>1. /\ m \in 0 .. 2 /\ count \in 0 .. 8 /\ count + m <= 8 /\ rd_ptr \in 0 .. 7
      /\ t \in 0 .. 2 /\ t <= count
      /\ count' = count - t + m /\ consumed' = consumed + t
      /\ rd_ptr' = (rd_ptr + t) % 8 /\ wr_ptr' = (wr_ptr + m) % 8
  BY FifoPointers
<1>2. /\ consumed \in Nat /\ consumed + count + m = Counted
      /\ wr_ptr = (rd_ptr + count) % 8
      /\ \A k \in 1 .. m : emit[k] = Coefficient(consumed + count + k - 1)
      /\ \A i \in 0 .. count - 1 : fifo[(rd_ptr + i) % 8] = Coefficient(consumed + i)
  BY DEF OrderInv, CoefficientsInOrder, Depth
<1>3. /\ gm' = "NEXT_POLY" => coeff_cnt' = N
      /\ Counted \in Int /\ Counted' = Counted + Len(emit')
      /\ \A k \in 1 .. Len(emit') : emit'[k] = Coefficient(Counted + k - 1)
  BY EmitStep
<1>4. Len(emit') \in 0 .. 2
  BY DEF Inv, EmitIsSeq
<1>5. \A i \in 0 .. 7 : fifo'[i] = IF m >= 1 /\ i = wr_ptr THEN emit[1]
                                  ELSE IF m = 2 /\ i = (wr_ptr + 1) % 8 THEN emit[2]
                                  ELSE fifo[i]
  BY DEF Fifo, Depth
<1> HIDE DEF m, t
<1>6. consumed' \in Nat /\ consumed' + count' = Counted
  BY <1>1, <1>2
<1>7. consumed' + count' + Len(emit') = Counted'
  BY <1>3, <1>4, <1>6
<1>8. \A k \in 1 .. Len(emit') : emit'[k] = Coefficient(consumed' + count' + k - 1)
  BY <1>3, <1>6
<1>9. wr_ptr' = (rd_ptr' + count') % 8
  BY <1>1, <1>2
<1>10. ASSUME NEW i \in 0 .. count' - 1
       PROVE  fifo'[(rd_ptr' + i) % 8] = Coefficient(consumed' + i)
  <2>1. (rd_ptr' + i) % 8 = (rd_ptr + t + i) % 8 /\ (rd_ptr + t + i) % 8 \in 0 .. 7
    BY <1>1
  <2>2. CASE i < count - t
    <3>1. t + i \in 0 .. count - 1
      BY <1>1, <2>2
    <3>2. /\ count <= 7 => (rd_ptr + (t + i)) % 8 # wr_ptr
          /\ count <= 6 => (rd_ptr + (t + i)) % 8 # (wr_ptr + 1) % 8
      <4>1. /\ count <= 7 => (rd_ptr + (t + i)) % 8 # (rd_ptr + count) % 8
            /\ count <= 6 => (rd_ptr + (t + i)) % 8 # (((rd_ptr + count) % 8) + 1) % 8
        BY <1>1, <3>1, SlotsApart
      <4> QED
        BY <1>2, <4>1
    <3>3. /\ m >= 1 => (rd_ptr + (t + i)) % 8 # wr_ptr
          /\ m = 2 => (rd_ptr + (t + i)) % 8 # (wr_ptr + 1) % 8
      BY <1>1, <3>2
    <3>4. fifo'[(rd_ptr' + i) % 8] = fifo[(rd_ptr + (t + i)) % 8]
      BY <1>1, <1>5, <2>1, <3>3
    <3>5. fifo[(rd_ptr + (t + i)) % 8] = Coefficient(consumed + (t + i))
      BY <1>2, <3>1
    <3>6. consumed + (t + i) = consumed' + i
      BY <1>1, <1>2
    <3> QED
      BY <3>4, <3>5, <3>6
  <2>3. CASE i = count - t
    <3>1. (rd_ptr + t + i) % 8 = wr_ptr /\ m >= 1
      BY <1>1, <1>2, <2>3
    <3>2. fifo'[(rd_ptr' + i) % 8] = emit[1]
      BY <1>5, <2>1, <3>1
    <3>3. emit[1] = Coefficient(consumed + count + 1 - 1)
      BY <1>1, <1>2, <3>1
    <3>4. consumed + count + 1 - 1 = consumed' + i
      BY <1>1, <1>2, <2>3
    <3> QED
      BY <3>2, <3>3, <3>4
  <2>4. CASE i = count - t + 1
    <3>1. (rd_ptr + t + i) % 8 = (wr_ptr + 1) % 8 /\ m = 2 /\ (wr_ptr + 1) % 8 # wr_ptr
      BY <1>1, <1>2, <2>4
    <3>2. fifo'[(rd_ptr' + i) % 8] = emit[2]
      BY <1>5, <2>1, <3>1
    <3>3. emit[2] = Coefficient(consumed + count + 2 - 1)
      BY <1>1, <1>2, <3>1
    <3>4. consumed + count + 2 - 1 = consumed' + i
      BY <1>1, <1>2, <2>4
    <3> QED
      BY <3>2, <3>3, <3>4
  <2> QED
    BY <1>1, <2>2, <2>3, <2>4
<1> QED
  BY <1>3, <1>6, <1>7, <1>8, <1>9, <1>10 DEF OrderInv, CoefficientsInOrder, Depth

\* The consumer gets the matrix in order: no coefficient is lost, doubled or cut
\* from a word of another polynomial, whatever is rejected, however long the
\* permutations take and whenever the consumer stops.
THEOREM MatrixInOrder == Spec => []CoefficientsInOrder
<1>1. Init => WordInv /\ OrderInv
  <2> SUFFICES ASSUME Init PROVE WordInv /\ OrderInv
    OBVIOUS
  <2>1. WordInv
    BY DEF Init, WordInv, xof_req_ready
  <2>2. Len(emit) = 0 /\ N \in Nat /\ Counted = 0
    BY SizeAssumption DEF Init, Counted
  <2> QED
    BY <2>1, <2>2 DEF Init, OrderInv, CoefficientsInOrder, Depth
<1>2. Inv /\ Inv' /\ WordInv /\ OrderInv /\ [Clock]_vars => WordInv' /\ OrderInv'
  <2> SUFFICES ASSUME Inv, Inv', WordInv, OrderInv, [Clock]_vars
               PROVE  WordInv' /\ OrderInv'
    OBVIOUS
  <2>1. CASE Clock
    <3>1. PICK ok0, ok1, permuted, ready \in BOOLEAN :
              Sampler(ok0, ok1, ready) /\ Sponge(permuted) /\ Fifo(ready)
      BY <2>1 DEF Clock, Step
    <3> QED
      BY <3>1, WordStep, OrderStep
  <2>2. CASE UNCHANGED vars
    BY <2>2 DEF vars, samplerVars, spongeVars, fifoVars, WordInv, xof_req_ready, OrderInv, Counted,
                CoefficientsInOrder
  <2> QED
    BY <2>1, <2>2
<1>3. OrderInv => CoefficientsInOrder
  BY DEF OrderInv
<1> QED
  BY <1>1, <1>2, <1>3, Inductive, PTL DEF Spec
=============================================================================
