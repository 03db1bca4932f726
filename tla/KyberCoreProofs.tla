-------------------------- MODULE KyberCoreProofs --------------------------
(***************************************************************************)
(* KyberCore for every number of operations and resets, in two inductive   *)
(* invariants.  CoreInv is about control: each unit runs only where the    *)
(* FSM waits for it, so that nothing is left running when an operation has *)
(* ended.  DataInv is about values: at each state of the FSM the banks and *)
(* registers hold what the reference computes at that point, so that the   *)
(* result is the reference's and two parties agree.                        *)
(***************************************************************************)
EXTENDS KyberCore, TLAPS

\* Where a unit stands that has been started, or not.
Off(e)  == e \notin run /\ e \notin pulse
Busy(e) == e \in run /\ e \notin pulse
Over(e) == e \notin run /\ e \in pulse
Job(started, e) == IF started THEN Busy(e) \/ Over(e) ELSE Off(e)

Units == {"cbd", "ntt", "pwma", "kgpack", "ctpack", "unpack", "cmp", "gm"}
DigestStates == {"KG_HASH_G", "KG_HASH_PK", "ENC_PRF_R", "DEC_NTT_U", "DEC_RKPRF"}
MatrixStates == {"KG_NTT_E", "KG_DMA_E", "KG_GEN_A", "ENC_PWMA_U", "ENC_INTT_U"}
\* The states after ENC_PACK in an operation, and between operations.
PackedStates == {"IDLE", "ENC_PACK", "ENC_WRITE_SS", "DEC_CMP", "DEC_RKPRF", "DEC_PACK"}

CoreTypes ==
    /\ DOMAIN ctl = DOMAIN ResetCtl
    /\ DOMAIN out = {"gm", "ctpack", "unpack"}
    /\ run \subseteq Units /\ pulse \subseteq Units \cup {"digest"}
    /\ ctl.loop_i \in Idx /\ ctl.loop_j \in Idx /\ ctl.dec_j_idx \in Idx

\* Each unit runs, or has just ended, only where the FSM waits for it.
CbdWaits == Job(state \in {"KG_CBD_E", "KG_CBD_S", "ENC_CBD_R"} /\ ctl.cbd_sent, "cbd")
NttTurn ==
    \/ state \in {"KG_NTT_E", "KG_NTT_S"}
    \/ state \in {"ENC_NTT_R", "ENC_INTT_U", "ENC_INTT_V"} /\ ctl.enc_ntt_phase = 1
    \/ state = "DEC_DECOMP" /\ ctl.dp_phase \in {5, 7}
NttWaits ==
    IF state = "DEC_DECOMP" /\ ctl.dp_phase = 1
    THEN Job(ctl.u0_started /\ ~ctl.u0_done, "ntt")
    ELSE Job(NttTurn /\ ctl.ntt_sent, "ntt")
PwmaTurn ==
    \/ state = "KG_PWMA_A_S" /\ ctl.kg_poly_phase = 3
    \/ state \in {"ENC_PWMA_U", "ENC_PWMA_V"} /\ ctl.dp_phase = 3
    \/ state = "DEC_DECOMP" /\ ctl.dp_phase = 2
PwmaWaits == Job(ctl.pwma_sent, "pwma") /\ (ctl.pwma_sent => PwmaTurn)
PackWaits ==
    /\ Job(state = "KG_PACK" /\ ctl.kg_pack_sent, "kgpack")
    /\ IF state = "ENC_PACK" /\ ctl.ct_pack_sent THEN Busy("ctpack") \/ Over("ctpack")
       ELSE "ctpack" \notin run
    /\ state \notin PackedStates \/ (state = "ENC_PACK" /\ ~ctl.ct_pack_sent)
           => ctl.ct_cap_idx = 0
    /\ Job(state = "DEC_CMP", "cmp")
    /\ Job(state = "DEC_DECOMP" /\ ctl.dp_phase = 1 /\ ~ctl.unpack_done, "unpack")

\* What the sponge does, and that it is free wherever something starts it.
SpongeWaits ==
    /\ IF state \in DigestStates
       THEN IF ctl.hash_sent
            THEN sponge = IF "digest" \in pulse THEN "idle" ELSE "digest"
            ELSE sponge = "idle" /\ "digest" \notin pulse
       ELSE "digest" \notin pulse
    /\ state \in {"KG_PRF_E", "KG_PRF_S"} =>
           IF ctl.hash_sent THEN sponge \in {"prf", "words"} ELSE sponge = "idle"
    /\ state \in {"KG_CBD_E", "KG_CBD_S"} =>
           sponge = IF "cbd" \in pulse THEN "idle" ELSE "words"
    /\ state = "ENC_CBD_R" =>
           IF ~ctl.hash_sent THEN sponge = "idle" /\ ~ctl.cbd_sent
           ELSE IF ctl.cbd_sent THEN sponge = IF "cbd" \in pulse THEN "idle" ELSE "words"
           ELSE sponge \in {"prf", "words"}
    /\ state = "ENC_NTT_R" => ~ctl.hash_sent /\ ~ctl.cbd_sent
    /\ state \in MatrixStates => sponge = "idle" \/ (sponge = "xof" /\ "gm" \in run)
    /\ state \notin DigestStates \cup MatrixStates
                    \cup {"KG_PRF_E", "KG_PRF_S", "KG_CBD_E", "KG_CBD_S", "ENC_CBD_R"}
           => sponge = "idle"

\* The matrix sampler, its stream and the cache.
MatrixWaits ==
    /\ "gm" \in run => "gm" \notin pulse
    /\ state \notin MatrixStates => Off("gm") /\ ~ctl.gm_stream_mode
    /\ ctl.kg_a_cache_active => /\ state \in {"KG_NTT_E", "KG_DMA_E", "KG_GEN_A"}
                                /\ ctl.kg_gm_started /\ ~ctl.kg_a_cache_done
    /\ state \in {"KG_NTT_E", "KG_DMA_E", "KG_GEN_A"} =>
           IF ctl.kg_gm_started
           THEN /\ state # "KG_GEN_A" => LastLoop(ctl.loop_i)
                /\ ctl.kg_a_source_done => "gm" \notin run
           ELSE Off("gm") /\ ~ctl.gm_stream_mode
    /\ ctl.kg_gm_started =>
           state \in {"KG_NTT_E", "KG_DMA_E", "KG_GEN_A", "KG_PRF_S", "KG_CBD_S",
                      "KG_NTT_S", "KG_DMA_S"}

\* The stream of an encryption: one entry for each product begun, so that all
\* are taken when the last row is transformed back.
StreamCount ==
    /\ state = "ENC_PWMA_U" =>
         /\ ctl.dp_phase \in {0, 3, 4}
         /\ ctl.dp_phase = 0 /\ ~ctl.gm_sent => ctl.loop_i = 0 /\ Off("gm") /\ ~ctl.gm_stream_mode
         /\ ctl.dp_phase # 0 => ctl.gm_sent
         /\ ctl.dp_phase = 0 /\ ctl.gm_sent => out["gm"] = K * ctl.loop_i
         /\ ctl.dp_phase = 3 =>
              /\ ctl.dp_enable /\ ctl.gm_source /\ ~ctl.ntt_source
              /\ out["gm"] = K * ctl.loop_i + ctl.loop_j
                             + (IF "pwma" \in pulse THEN 1 ELSE 0)
         /\ ctl.dp_phase = 4 => out["gm"] = K * (ctl.loop_i + 1)
    /\ state = "ENC_INTT_U" =>
         /\ ctl.enc_ntt_phase \in {1, 2} /\ ctl.gm_sent
         /\ out["gm"] = K * (ctl.loop_i + 1)
         /\ LastLoop(ctl.loop_i) /\ (ctl.enc_ntt_phase = 2 \/ "ntt" \in pulse)
                => "gm" \notin run
    /\ state = "ENC_PWMA_V" => ctl.dp_phase \in {0, 3, 4}
    /\ state = "ENC_INTT_V" => ctl.enc_ntt_phase \in {1, 2}
    /\ state = "ENC_NTT_R" /\ ctl.enc_ntt_phase = 0 => ~ctl.ntt_sent
    /\ state = "DEC_DECOMP" => ctl.dp_phase \in {0, 1, 2, 4, 5, 6, 7, 8}
    /\ state = "DEC_DECOMP" /\ ctl.dp_phase = 1 => (ctl.u0_done => ctl.u0_started)

CoreInv ==
    /\ CoreTypes /\ CbdWaits /\ NttWaits /\ PwmaWaits /\ PackWaits
    /\ SpongeWaits /\ MatrixWaits /\ StreamCount

------------------------------------------------

-----------------------------------------------------------------------------
(* Steps of the FSM *)

Fields == DOMAIN ResetCtl

\* The control registers but those of S are as they were; kg_a_source_done is
\* set when the matrix sampler of a key generation ends.
Kept(S) ==
    /\ DOMAIN ctl' = Fields
    /\ \A f \in Fields \ (S \cup {"kg_a_source_done"}) : ctl'[f] = ctl[f]
    /\ ctl'.kg_a_source_done = ctl.kg_a_source_done
       \/ ("gm" \in pulse /\ ctl.kg_gm_started)

\* The units of E have been started.
Started(E) ==
    /\ run' = run \cup E /\ sponge' = sponge
    /\ \A e : e \in pulse' <=> e = "ctpack" /\ e \in pulse /\ e \notin E
    /\ DOMAIN out' = {"gm", "ctpack", "unpack"}
    /\ out'["gm"] = IF "gm" \in E \ run THEN 0 ELSE out["gm"]

LEMMA Starts ==
    ASSUME CoreTypes, NEW E \in SUBSET Units, StartUnits(E)
    PROVE  Started(E)
BY DEF CoreTypes, StartUnits, Held, Started

LEMMA StartsNone ==
    ASSUME CoreTypes, NoStart
    PROVE  Started({})
BY Starts DEF NoStart

\* The lemmas of this section expand the invariant.
USE DEF CoreInv, CoreTypes, CbdWaits, NttTurn, NttWaits, PwmaTurn, PwmaWaits, PackWaits, SpongeWaits,
        MatrixWaits, StreamCount, Job, Off, Busy, Over, Units, DigestStates,
        MatrixStates, PackedStates, Fields, ResetCtl, Kept, Started, Idx, K, LastLoop

LEMMA Waits ==
    ASSUME CoreInv, Go(state, ctl), NoStart, pulse \subseteq {"ctpack", "gm"}
    PROVE  CoreInv'
<1>1. state' = state /\ Kept({})
  BY DEF Go, Latched
<1>2. Started({})
  BY StartsNone
<1> QED
  BY <1>1, <1>2

LEMMA DigestLaunched ==
    ASSUME CoreInv, state \in DigestStates, LaunchDigest
    PROVE  CoreInv'
<1>1. /\ state' = state /\ ctl'.hash_sent = TRUE
      /\ Kept({"hash_sent"}) /\ ~ctl.hash_sent
  BY DEF LaunchDigest, Go, Latched
<1>2. /\ run' = run /\ out' = out /\ sponge' = "digest"
      /\ pulse' = pulse \cap {"ctpack"}
  BY DEF LaunchDigest, StartHash, Held
<1> QED
  BY <1>1, <1>2

LEMMA DigestAwaited ==
    ASSUME CoreInv, state \in DigestStates, Await("hash_sent", "digest")
    PROVE  CoreInv'
<1>1. pulse \subseteq {"ctpack", "gm"}
  BY DEF Await
<1> QED
  BY <1>1, Waits DEF Await

LEMMA IdleStep == CoreInv /\ Idle => CoreInv'
<1> SUFFICES ASSUME CoreInv, Idle PROVE CoreInv'
  OBVIOUS
<1>1. pulse \subseteq {"ctpack", "gm"}
  BY DEF Idle
<1> QED
  BY <1>1, Waits DEF Idle

LEMMA KgLoadSeedStep == CoreInv /\ KgLoadSeed => CoreInv'
<1> SUFFICES ASSUME CoreInv, KgLoadSeed PROVE CoreInv'
  OBVIOUS
<1>1. /\ state = "KG_LOAD_SEED" /\ state' = "KG_HASH_G"
      /\ Kept({"hash_sent"}) /\ ctl'.hash_sent = FALSE
  BY DEF KgLoadSeed, Go, Latched
<1>2. Started({})
  BY StartsNone DEF KgLoadSeed
<1> QED
  BY <1>1, <1>2

LEMMA KgHashGStep == CoreInv /\ KgHashG => CoreInv'
<1> SUFFICES ASSUME CoreInv, KgHashG PROVE CoreInv'
  OBVIOUS
<1>1. CASE LaunchDigest
  BY <1>1, DigestLaunched DEF KgHashG
<1>2. CASE Await("hash_sent", "digest")
  BY <1>2, DigestAwaited DEF KgHashG
<1>3. CASE ~LaunchDigest /\ ~Await("hash_sent", "digest")
  <2>1. /\ Finished("hash_sent", "digest") /\ NoStart /\ state = "KG_HASH_G"
        /\ Go("KG_PRF_E", [ctl EXCEPT !.loop_i = 0, !.hash_sent = FALSE])
    BY <1>3 DEF KgHashG
  <2>2. /\ state' = "KG_PRF_E" /\ "digest" \in pulse /\ ctl.hash_sent
        /\ Kept({"loop_i", "hash_sent"}) /\ ctl'.loop_i = 0 /\ ctl'.hash_sent = FALSE
    BY <2>1 DEF Finished, Go, Latched
  <2>3. Started({})
    BY <2>1, StartsNone
  <2> QED
    BY <2>1, <2>2, <2>3
<1> QED
  BY <1>1, <1>2, <1>3

LEMMA PrfLaunched ==
    ASSUME CoreInv, state \in {"KG_PRF_E", "KG_PRF_S", "ENC_CBD_R"},
           NEW noise, LaunchPrf(noise)
    PROVE  CoreInv'
<1>1. /\ state' = state /\ ctl'.hash_sent = TRUE
      /\ Kept({"hash_sent"}) /\ ~ctl.hash_sent
  BY DEF LaunchPrf, Go, Latched
<1>2. /\ run' = run /\ out' = out /\ sponge' = "prf"
      /\ pulse' = pulse \cap {"ctpack"}
  BY DEF LaunchPrf, StartHash, Held
<1> QED
  BY <1>1, <1>2

LEMMA PrfStep ==
    ASSUME CoreInv, NEW noise, NEW next,
           \/ state = "KG_PRF_E" /\ next = "KG_CBD_E"
           \/ state = "KG_PRF_S" /\ next = "KG_CBD_S",
           Prf(noise, next)
    PROVE  CoreInv'
<1>1. CASE LaunchPrf(noise)
  BY <1>1, PrfLaunched
<1>2. CASE ~LaunchPrf(noise)
  <2>1. ctl.hash_sent /\ NoStart
    BY <1>2 DEF Prf
  <2>2. CASE sponge = "words"
    <3>1. /\ state' = next /\ Kept({"cbd_sent"}) /\ ctl'.cbd_sent = FALSE
      BY <1>2, <2>2 DEF Prf, Go, Latched
    <3>2. Started({})
      BY <2>1, StartsNone
    <3> QED
      BY <2>1, <2>2, <3>1, <3>2
  <2>3. CASE sponge # "words"
    <3>1. Go(state, ctl) /\ pulse \subseteq {"ctpack", "gm"}
      BY <1>2, <2>3 DEF Prf
    <3> QED
      BY <2>1, <3>1, Waits
  <2> QED
    BY <2>2, <2>3
<1> QED
  BY <1>1, <1>2

LEMMA SampleStep ==
    ASSUME CoreInv, NEW next,
           \/ state = "KG_CBD_E" /\ next = "KG_NTT_E"
           \/ state = "KG_CBD_S" /\ next = "KG_NTT_S",
           Sample(next)
    PROVE  CoreInv'
<1>1. CASE Launch("cbd_sent", ctl, "cbd")
  <2>1. /\ state' = state /\ ctl'.cbd_sent = TRUE
        /\ Kept({"cbd_sent"}) /\ ~ctl.cbd_sent
    BY <1>1 DEF Launch, Go, Latched
  <2>2. Started({"cbd"})
    BY <1>1, Starts DEF Launch
  <2> QED
    BY <2>1, <2>2
<1>2. CASE Await("cbd_sent", "cbd")
  <2>1. pulse \subseteq {"ctpack", "gm"}
    BY <1>2 DEF Await
  <2> QED
    BY <1>2, <2>1, Waits DEF Await
<1>3. CASE ~Launch("cbd_sent", ctl, "cbd") /\ ~Await("cbd_sent", "cbd")
  <2>1. /\ state' = next /\ ctl.cbd_sent /\ "cbd" \in pulse
        /\ Kept({"ntt_sent"}) /\ ctl'.ntt_sent = FALSE
    BY <1>3 DEF Sample, Finished, Go, Latched
  <2>2. Started({})
    BY <1>3, StartsNone DEF Sample
  <2> QED
    BY <2>1, <2>2
<1> QED
  BY <1>1, <1>2, <1>3

LEMMA NttLaunched ==
    ASSUME CoreInv, NttTurn, NEW inverse, state # "KG_NTT_E",
           Launch("ntt_sent", [ctl EXCEPT !.intt = inverse], "ntt")
    PROVE  CoreInv'
<1>1. /\ state' = state /\ ctl'.ntt_sent = TRUE
      /\ Kept({"ntt_sent", "intt"}) /\ ~ctl.ntt_sent
  BY DEF Launch, Go, Latched
<1>2. Started({"ntt"})
  BY Starts DEF Launch
<1> QED
  BY <1>1, <1>2

LEMMA NttAwaited ==
    ASSUME CoreInv, NttTurn, Await("ntt_sent", "ntt")
    PROVE  CoreInv'
<1>1. pulse \subseteq {"ctpack", "gm"}
  BY DEF Await
<1> QED
  BY <1>1, Waits DEF Await

\* A product is started with the bank registers set.
LEMMA PwmaLaunched ==
    ASSUME CoreInv, PwmaTurn, NEW bank, NEW operand, NEW accumulate, NEW tomont,
           Product(bank, operand, accumulate, tomont)
    PROVE  CoreInv'
<1>1. /\ state' = state /\ ctl'.pwma_sent = TRUE
      /\ Kept({"pwma_sent", "bank", "operand_bank", "accumulate", "use_tomont"})
      /\ ~ctl.pwma_sent
  BY DEF Product, Launch, Go, Latched
<1>2. Started({"pwma"})
  BY Starts DEF Product, Launch
<1> QED
  BY <1>1, <1>2

LEMMA PwmaAwaited ==
    ASSUME CoreInv, PwmaTurn, Await("pwma_sent", "pwma")
    PROVE  CoreInv'
<1>1. pulse \subseteq {"ctpack", "gm"}
  BY DEF Await
<1> QED
  BY <1>1, Waits DEF Await

-----------------------------------------------------------------------------
(* Key generation *)

LEMMA KgNttEStep == CoreInv /\ KgNttE => CoreInv'
<1> SUFFICES ASSUME CoreInv, KgNttE PROVE CoreInv'
  OBVIOUS
<1>0. state = "KG_NTT_E"
  BY DEF KgNttE
<1>1. CASE ~ctl.ntt_sent
  <2> DEFINE generate == LastLoop(ctl.loop_i) /\ ~ctl.kg_gm_started
             c == IF generate THEN StartCache(ctl) ELSE ctl
  <2>1. /\ Go(state, [c EXCEPT !.ntt_sent = TRUE, !.intt = FALSE])
        /\ StartUnits({"ntt"} \cup IF generate THEN {"gm"} ELSE {})
    BY <1>1 DEF KgNttE, Await, Finished
  <2>2. CASE generate
    <3>1. /\ state' = state /\ DOMAIN ctl' = Fields
          /\ ctl'.ntt_sent = TRUE /\ ctl'.kg_gm_started = TRUE
          /\ ctl'.kg_a_cache_done = FALSE
          /\ ctl'.kg_a_source_done = FALSE
          /\ \A f \in Fields \ {"ntt_sent", "intt", "gm_transposed", "gm_stream_mode",
                "gm_sent", "kg_gm_started", "kg_a_cache_active", "kg_a_cache_done",
                "kg_a_source_done", "kg_a_cache_count"} : ctl'[f] = ctl[f]
      BY <2>1, <2>2, ZenonT(60) DEF Go, Latched, StartCache
    <3>2. Started({"ntt", "gm"})
      BY <2>1, <2>2, Starts
    <3> QED
      BY <1>0, <1>1, <2>2, <3>1, <3>2
  <2>3. CASE ~generate
    <3>1. /\ state' = state /\ ctl'.ntt_sent = TRUE /\ Kept({"ntt_sent", "intt"})
      BY <2>1, <2>3 DEF Go, Latched
    <3>2. Started({"ntt"})
      BY <2>1, <2>3, Starts
    <3> QED
      BY <1>0, <1>1, <2>3, <3>1, <3>2
  <2> QED
    BY <2>2, <2>3
<1>2. CASE Await("ntt_sent", "ntt")
  BY <1>0, <1>2, NttAwaited
<1>3. CASE Finished("ntt_sent", "ntt") /\ Go("KG_DMA_E", ctl) /\ NoStart
  <2>1. state' = "KG_DMA_E" /\ Kept({}) /\ ctl.ntt_sent /\ "ntt" \in pulse
    BY <1>3, ZenonT(60) DEF Finished, Go, Latched
  <2>2. Started({})
    BY <1>3, StartsNone
  <2> QED
    BY <1>0, <2>1, <2>2
<1> QED
  BY <1>1, <1>2, <1>3 DEF KgNttE

LEMMA KgNttSStep == CoreInv /\ KgNttS => CoreInv'
<1> SUFFICES ASSUME CoreInv, KgNttS PROVE CoreInv'
  OBVIOUS
<1>0. state = "KG_NTT_S"
  BY DEF KgNttS
<1>1. CASE Launch("ntt_sent", [ctl EXCEPT !.intt = FALSE], "ntt")
  BY <1>0, <1>1, NttLaunched
<1>2. CASE Await("ntt_sent", "ntt")
  BY <1>0, <1>2, NttAwaited
<1>3. CASE Finished("ntt_sent", "ntt") /\ Go("KG_DMA_S", ctl) /\ NoStart
  <2>1. state' = "KG_DMA_S" /\ Kept({}) /\ ctl.ntt_sent /\ "ntt" \in pulse
    BY <1>3 DEF Finished, Go, Latched
  <2>2. Started({})
    BY <1>3, StartsNone
  <2> QED
    BY <1>0, <2>1, <2>2
<1> QED
  BY <1>1, <1>2, <1>3 DEF KgNttS

LEMMA KgDmaEStep == CoreInv /\ KgDmaE => CoreInv'
<1> SUFFICES ASSUME CoreInv, KgDmaE PROVE CoreInv'
  OBVIOUS
<1>1. state = "KG_DMA_E" /\ NoStart
  BY DEF KgDmaE
<1>2. Started({})
  BY <1>1, StartsNone
<1>3. CASE LastLoop(ctl.loop_i)
  <2>1. Go("KG_GEN_A", [ctl EXCEPT !.loop_i = 0, !.loop_j = 0])
    BY <1>3 DEF KgDmaE
  <2>2. /\ state' = "KG_GEN_A" /\ Kept({"loop_i", "loop_j"})
        /\ ctl'.loop_i = 0 /\ ctl'.loop_j = 0
    BY <2>1 DEF Go, Latched
  <2> QED
    BY <1>1, <1>2, <2>2
<1>4. CASE ~LastLoop(ctl.loop_i)
  <2>1. Go("KG_PRF_E", [ctl EXCEPT !.loop_i = @ + 1, !.hash_sent = FALSE])
    BY <1>4 DEF KgDmaE
  <2>2. /\ state' = "KG_PRF_E" /\ Kept({"loop_i", "hash_sent"})
        /\ ctl'.loop_i = ctl.loop_i + 1 /\ ctl'.hash_sent = FALSE
    BY <2>1 DEF Go, Latched
  <2> QED
    BY <1>1, <1>2, <1>4, <2>2
<1> QED
  BY <1>3, <1>4

LEMMA KgGenAStep == CoreInv /\ KgGenA => CoreInv'
<1> SUFFICES ASSUME CoreInv, KgGenA PROVE CoreInv'
  OBVIOUS
<1>0. state = "KG_GEN_A"
  BY DEF KgGenA
<1>1. CASE ~ctl.kg_gm_started
  <2>1. Go(state, StartCache(ctl)) /\ StartUnits({"gm"})
    BY <1>1 DEF KgGenA
  <2>2. /\ state' = state /\ DOMAIN ctl' = Fields
        /\ ctl'.kg_gm_started = TRUE /\ ctl'.kg_a_cache_done = FALSE
        /\ ctl'.kg_a_source_done = FALSE
        /\ \A f \in Fields \ {"gm_transposed", "gm_stream_mode",
              "gm_sent", "kg_gm_started", "kg_a_cache_active", "kg_a_cache_done",
              "kg_a_source_done", "kg_a_cache_count"} : ctl'[f] = ctl[f]
    BY <1>1, <2>1, ZenonT(60) DEF Go, Latched, StartCache
  <2>3. Started({"gm"})
    BY <2>1, Starts
  <2> QED
    BY <1>0, <1>1, <2>2, <2>3
<1>2. CASE ctl.kg_gm_started /\ MatrixReady
  <2>1. /\ Go("KG_PRF_S", [ctl EXCEPT !.gm_sent = FALSE, !.loop_i = 0,
                                      !.gm_stream_mode = FALSE,
                                      !.loop_j = 0, !.hash_sent = FALSE])
        /\ NoStart
    BY <1>2 DEF KgGenA
  <2>2. /\ state' = "KG_PRF_S"
        /\ Kept({"gm_sent", "loop_i", "gm_stream_mode", "loop_j", "hash_sent"})
        /\ ctl'.loop_i = 0 /\ ctl'.loop_j = 0 /\ ctl'.hash_sent = FALSE
        /\ ctl'.gm_stream_mode = FALSE
    BY <2>1, ZenonT(60) DEF Go, Latched
  <2>3. Started({})
    BY <2>1, StartsNone
  <2> QED
    BY <1>0, <1>2, <2>2, <2>3 DEF MatrixReady
<1>3. CASE ctl.kg_gm_started /\ ~MatrixReady
  <2>1. Go(state, ctl) /\ NoStart /\ pulse \subseteq {"ctpack", "gm"}
    BY <1>0, <1>3 DEF KgGenA
  <2> QED
    BY <2>1, Waits
<1> QED
  BY <1>1, <1>2, <1>3

LEMMA KgDmaSStep == CoreInv /\ KgDmaS => CoreInv'
<1> SUFFICES ASSUME CoreInv, KgDmaS PROVE CoreInv'
  OBVIOUS
<1>1. state = "KG_DMA_S" /\ NoStart
  BY DEF KgDmaS
<1>2. Started({})
  BY <1>1, StartsNone
<1>3. CASE LastLoop(ctl.loop_j)
  <2>1. Go("KG_PWMA_A_S",
           [ctl EXCEPT !.loop_i = 0, !.loop_j = 0, !.pwma_sent = FALSE,
                       !.gm_sent = FALSE, !.kg_poly_phase = 0,
                       !.kg_gm_started = FALSE, !.kg_enable = TRUE])
    BY <1>3 DEF KgDmaS
  <2>2. /\ state' = "KG_PWMA_A_S"
        /\ Kept({"loop_i", "loop_j", "pwma_sent", "gm_sent", "kg_poly_phase",
                 "kg_gm_started", "kg_enable"})
        /\ ctl'.loop_i = 0 /\ ctl'.loop_j = 0 /\ ctl'.pwma_sent = FALSE
        /\ ctl'.kg_gm_started = FALSE
    BY <2>1, ZenonT(60) DEF Go, Latched
  <2> QED
    BY <1>1, <1>2, <2>2
<1>4. CASE ~LastLoop(ctl.loop_j)
  <2>1. Go("KG_PRF_S", [ctl EXCEPT !.loop_j = @ + 1, !.hash_sent = FALSE])
    BY <1>4 DEF KgDmaS
  <2>2. /\ state' = "KG_PRF_S" /\ Kept({"loop_j", "hash_sent"})
        /\ ctl'.loop_j = ctl.loop_j + 1 /\ ctl'.hash_sent = FALSE
    BY <2>1 DEF Go, Latched
  <2> QED
    BY <1>1, <1>2, <1>4, <2>2
<1> QED
  BY <1>3, <1>4

LEMMA KgPwmaStep == CoreInv /\ KgPwma => CoreInv'
<1> SUFFICES ASSUME CoreInv, KgPwma PROVE CoreInv'
  OBVIOUS
<1>0. state = "KG_PWMA_A_S"
  BY DEF KgPwma
<1>1. CASE ctl.kg_poly_phase = 0
  <2>1. /\ Go(state, [ctl EXCEPT !.pwma_sent = FALSE, !.loop_j = 0,
                                 !.kg_poly_phase = 3])
        /\ NoStart
    BY <1>1 DEF KgPwma
  <2>2. /\ state' = state /\ Kept({"pwma_sent", "loop_j", "kg_poly_phase"})
        /\ ctl'.pwma_sent = FALSE /\ ctl'.loop_j = 0
    BY <2>1 DEF Go, Latched
  <2>3. Started({})
    BY <2>1, StartsNone
  <2> QED
    BY <1>0, <1>1, <2>2, <2>3
<1>2. CASE ctl.kg_poly_phase = 3 /\ Product(ctl.loop_i, ctl.loop_j, TRUE, TRUE)
  BY <1>0, <1>2, PwmaLaunched
<1>3. CASE ctl.kg_poly_phase = 3 /\ Await("pwma_sent", "pwma")
  BY <1>0, <1>3, PwmaAwaited
<1>4. CASE /\ ctl.kg_poly_phase = 3
           /\ ~Product(ctl.loop_i, ctl.loop_j, TRUE, TRUE)
           /\ ~Await("pwma_sent", "pwma")
  <2> DEFINE c == [ctl EXCEPT !.pwma_sent = FALSE]
  <2>0. ctl.kg_poly_phase # 0
    BY <1>4
  <2>1. /\ Finished("pwma_sent", "pwma") /\ NoStart
        /\ IF ~LastLoop(ctl.loop_j) THEN Go(state, [c EXCEPT !.loop_j = @ + 1])
           ELSE IF ~LastLoop(ctl.loop_i)
           THEN Go(state, [c EXCEPT !.loop_i = @ + 1, !.loop_j = 0,
                                    !.kg_poly_phase = 0])
           ELSE Go("KG_PACK", [c EXCEPT !.kg_enable = FALSE, !.kg_pack_sent = FALSE,
                                        !.kg_poly_phase = 0])
    BY <1>4, <2>0, Zenon DEF KgPwma
  <2>2. "pwma" \in pulse /\ ctl.pwma_sent
    BY <2>1 DEF Finished
  <2>3. Started({})
    BY <2>1, StartsNone
  <2>4. CASE Go(state, [c EXCEPT !.loop_j = @ + 1]) /\ ~LastLoop(ctl.loop_j)
    <3>1. /\ state' = state /\ Kept({"pwma_sent", "loop_j"})
          /\ ctl'.pwma_sent = FALSE /\ ctl'.loop_j = ctl.loop_j + 1
      BY <2>4 DEF Go, Latched
    <3> QED
      BY <1>0, <2>2, <2>3, <2>4, <3>1
  <2>5. CASE /\ Go(state, [c EXCEPT !.loop_i = @ + 1, !.loop_j = 0,
                                    !.kg_poly_phase = 0])
             /\ ~LastLoop(ctl.loop_i)
    <3>1. /\ state' = state /\ Kept({"pwma_sent", "loop_i", "loop_j", "kg_poly_phase"})
          /\ ctl'.pwma_sent = FALSE /\ ctl'.loop_i = ctl.loop_i + 1 /\ ctl'.loop_j = 0
      BY <2>5 DEF Go, Latched
    <3> QED
      BY <1>0, <2>2, <2>3, <2>5, <3>1
  <2>6. CASE Go("KG_PACK", [c EXCEPT !.kg_enable = FALSE, !.kg_pack_sent = FALSE,
                                     !.kg_poly_phase = 0])
    <3>1. /\ state' = "KG_PACK"
          /\ Kept({"pwma_sent", "kg_enable", "kg_pack_sent", "kg_poly_phase"})
          /\ ctl'.pwma_sent = FALSE /\ ctl'.kg_pack_sent = FALSE
      BY <2>6 DEF Go, Latched
    <3> QED
      BY <1>0, <2>2, <2>3, <3>1
  <2> QED
    BY <2>1, <2>4, <2>5, <2>6
<1> QED
  BY <1>1, <1>2, <1>3, <1>4 DEF KgPwma

LEMMA KgPackStep == CoreInv /\ KgPack => CoreInv'
<1> SUFFICES ASSUME CoreInv, KgPack PROVE CoreInv'
  OBVIOUS
<1>0. state = "KG_PACK"
  BY DEF KgPack
<1>1. CASE Launch("kg_pack_sent", ctl, "kgpack")
  <2>1. /\ state' = state /\ ctl'.kg_pack_sent = TRUE
        /\ Kept({"kg_pack_sent"}) /\ ~ctl.kg_pack_sent
    BY <1>1 DEF Launch, Go, Latched
  <2>2. Started({"kgpack"})
    BY <1>1, Starts DEF Launch
  <2> QED
    BY <1>0, <2>1, <2>2
<1>2. CASE Await("kg_pack_sent", "kgpack")
  <2>1. pulse \subseteq {"ctpack", "gm"}
    BY <1>0, <1>2 DEF Await
  <2> QED
    BY <1>2, <2>1, Waits DEF Await
<1>3. CASE ~Launch("kg_pack_sent", ctl, "kgpack") /\ ~Await("kg_pack_sent", "kgpack")
  <2>1. /\ Finished("kg_pack_sent", "kgpack") /\ NoStart
        /\ Go("KG_HASH_PK", [ctl EXCEPT !.kg_pack_sent = FALSE, !.hash_sent = FALSE])
    BY <1>3 DEF KgPack
  <2>2. /\ state' = "KG_HASH_PK" /\ Kept({"kg_pack_sent", "hash_sent"})
        /\ ctl'.hash_sent = FALSE /\ "kgpack" \in pulse /\ ctl.kg_pack_sent
    BY <2>1 DEF Finished, Go, Latched
  <2>3. Started({})
    BY <2>1, StartsNone
  <2> QED
    BY <1>0, <2>2, <2>3
<1> QED
  BY <1>1, <1>2, <1>3

LEMMA KgHashPkStep == CoreInv /\ KgHashPk => CoreInv'
<1> SUFFICES ASSUME CoreInv, KgHashPk PROVE CoreInv'
  OBVIOUS
<1>0. state = "KG_HASH_PK"
  BY DEF KgHashPk
<1>1. CASE LaunchDigest
  BY <1>0, <1>1, DigestLaunched
<1>2. CASE Await("hash_sent", "digest")
  BY <1>0, <1>2, DigestAwaited
<1>3. CASE ~LaunchDigest /\ ~Await("hash_sent", "digest")
  <2>1. PICK next \in {"ENC_LOAD_COINS", "KG_WRITE_REST"} :
           /\ Finished("hash_sent", "digest") /\ NoStart
           /\ Go(next, [ctl EXCEPT !.hash_sent = FALSE])
    BY <1>3 DEF KgHashPk
  <2>2. /\ state' = next /\ Kept({"hash_sent"})
        /\ ctl'.hash_sent = FALSE /\ "digest" \in pulse /\ ctl.hash_sent
    BY <2>1 DEF Finished, Go, Latched
  <2>3. Started({})
    BY <2>1, StartsNone
  <2> QED
    BY <1>0, <2>2, <2>3
<1> QED
  BY <1>1, <1>2, <1>3

\* The last step of an operation leaves nothing running.
LEMMA FinishStep ==
    ASSUME CoreInv, state \in {"KG_WRITE_REST", "ENC_WRITE_SS", "DEC_PACK"},
           NEW ready, Finish([ctl EXCEPT !.ss_ready = ready]) \/ Finish(ctl)
    PROVE  CoreInv'
<1>1. state' = "IDLE" /\ Kept({"ss_ready"})
  BY DEF Finish, Go, Latched
<1>2. Started({})
  BY StartsNone DEF Finish
<1> QED
  BY <1>1, <1>2

LEMMA KgWriteRestStep == CoreInv /\ KgWriteRest => CoreInv'
<1> SUFFICES ASSUME CoreInv, KgWriteRest PROVE CoreInv'
  OBVIOUS
<1> QED
  BY FinishStep DEF KgWriteRest

-----------------------------------------------------------------------------
(* Encapsulation, and the re-encryption of a decapsulation *)

LEMMA EncReadPkStep == CoreInv /\ EncReadPk => CoreInv'
<1> SUFFICES ASSUME CoreInv, EncReadPk PROVE CoreInv'
  OBVIOUS
<1>1. /\ state = "ENC_READ_PK" /\ NoStart
      /\ \/ Go(state, [ctl EXCEPT !.sk_reload_done = TRUE])
         \/ Go("KG_HASH_PK", [ctl EXCEPT !.hash_sent = FALSE])
         \/ Go("DEC_READ_REST", ctl)
  BY DEF EncReadPk
<1>2. /\ state' \in {state, "KG_HASH_PK", "DEC_READ_REST"}
      /\ Kept({"sk_reload_done", "hash_sent"})
      /\ state' = "KG_HASH_PK" => ctl'.hash_sent = FALSE
  BY <1>1 DEF Go, Latched
<1>3. Started({})
  BY <1>1, StartsNone
<1> QED
  BY <1>1, <1>2, <1>3

LEMMA EncLoadCoinsStep == CoreInv /\ EncLoadCoins => CoreInv'
<1> SUFFICES ASSUME CoreInv, EncLoadCoins PROVE CoreInv'
  OBVIOUS
<1>1. /\ state = "ENC_LOAD_COINS" /\ NoStart
      /\ Go("ENC_PRF_R", [ctl EXCEPT !.hash_sent = FALSE])
  BY DEF EncLoadCoins
<1>2. state' = "ENC_PRF_R" /\ Kept({"hash_sent"}) /\ ctl'.hash_sent = FALSE
  BY <1>1 DEF Go, Latched
<1>3. Started({})
  BY <1>1, StartsNone
<1> QED
  BY <1>1, <1>2, <1>3

\* The registers that DEC_NTT_U sets besides are of no matter here.
LEMMA HashMessageStep ==
    ASSUME CoreInv, state \in {"ENC_PRF_R", "DEC_NTT_U"}, NEW c,
           \/ c = ctl
           \/ c = [ctl EXCEPT !.dec_reenc_mode = TRUE, !.pwma_sent = FALSE,
                              !.enc_ntt_phase = 0],
           HashMessage(c)
    PROVE  CoreInv'
<1>1. CASE LaunchDigest
  BY <1>1, DigestLaunched
<1>2. CASE Await("hash_sent", "digest")
  BY <1>2, DigestAwaited
<1>3. CASE ~LaunchDigest /\ ~Await("hash_sent", "digest")
  <2>1. /\ Finished("hash_sent", "digest") /\ NoStart
        /\ Go("ENC_CBD_R",
              [c EXCEPT !.hash_sent = FALSE, !.cbd_sent = FALSE, !.ntt_sent = FALSE,
                        !.loop_j = 0, !.enc_noise_kind = 0])
    BY <1>3 DEF HashMessage
  <2>2. /\ DOMAIN c = Fields
        /\ \A f \in Fields \ {"dec_reenc_mode", "pwma_sent", "enc_ntt_phase"} : c[f] = ctl[f]
        /\ c.pwma_sent = FALSE \/ c.pwma_sent = ctl.pwma_sent
    <3>1. CASE c = ctl
      BY <3>1
    <3>2. CASE c # ctl
      <4>1. /\ DOMAIN ctl = Fields
            /\ c = [ctl EXCEPT !.dec_reenc_mode = TRUE, !.pwma_sent = FALSE,
                               !.enc_ntt_phase = 0]
        BY <3>2
      <4> QED
        BY <4>1
    <3> QED
      BY <3>1, <3>2
  <2>3. /\ state' = "ENC_CBD_R"
        /\ Kept({"dec_reenc_mode", "pwma_sent", "enc_ntt_phase", "hash_sent",
                 "cbd_sent", "ntt_sent", "loop_j", "enc_noise_kind"})
        /\ ctl'.hash_sent = FALSE /\ ctl'.cbd_sent = FALSE /\ ctl'.loop_j = 0
        /\ ctl'.pwma_sent = FALSE \/ ctl'.pwma_sent = ctl.pwma_sent
    BY ZenonT(60), <2>1, <2>2 DEF Go, Latched
  <2>4. "digest" \in pulse /\ ctl.hash_sent
    BY <2>1 DEF Finished
  <2>5. Started({})
    BY <2>1, StartsNone
  <2> QED
    BY <2>3, <2>4, <2>5
<1> QED
  BY <1>1, <1>2, <1>3

LEMMA EncCbdRStep == CoreInv /\ EncCbdR => CoreInv'
<1> SUFFICES ASSUME CoreInv, EncCbdR PROVE CoreInv'
  OBVIOUS
<1>0. state = "ENC_CBD_R"
  BY DEF EncCbdR
<1>1. CASE LaunchPrf(EncNoise)
  <2>1. \A noise : LaunchPrf(noise) => CoreInv'
    BY <1>0, PrfLaunched
  <2> QED
    BY <1>1, <2>1, Zenon
<1>2. CASE /\ ctl.hash_sent /\ ~ctl.cbd_sent /\ sponge = "words"
           /\ Go(state, [ctl EXCEPT !.cbd_sent = TRUE]) /\ StartUnits({"cbd"})
  <2>1. state' = state /\ ctl'.cbd_sent = TRUE /\ Kept({"cbd_sent"})
    BY <1>2 DEF Go, Latched
  <2>2. Started({"cbd"})
    BY <1>2, Starts
  <2> QED
    BY <1>0, <1>2, <2>1, <2>2
<1>3. CASE /\ ctl.hash_sent /\ Go(state, ctl) /\ NoStart
           /\ ~ctl.cbd_sent \/ "cbd" \notin pulse
  <2>1. pulse \subseteq {"ctpack", "gm"}
    BY <1>0, <1>3
  <2> QED
    BY <1>3, <2>1, Waits
<1>4. CASE /\ ctl.hash_sent /\ Finished("cbd_sent", "cbd") /\ NoStart
           /\ AfterNoise([ctl EXCEPT !.hash_sent = FALSE, !.cbd_sent = FALSE])
  <2> DEFINE c == [ctl EXCEPT !.hash_sent = FALSE, !.cbd_sent = FALSE]
  <2>1. /\ DOMAIN c = Fields /\ c.hash_sent = FALSE /\ c.cbd_sent = FALSE
        /\ \A f \in Fields \ {"hash_sent", "cbd_sent"} : c[f] = ctl[f]
    OBVIOUS
  <2>2. "cbd" \in pulse /\ ctl.cbd_sent /\ Started({})
    BY <1>4, StartsNone DEF Finished
  <2> HIDE DEF c
  <2>3. \/ Go("ENC_NTT_R", [c EXCEPT !.enc_ntt_phase = 0, !.ntt_sent = FALSE])
        \/ Go(state, [c EXCEPT !.loop_j = 0, !.enc_noise_kind = 2])
        \/ Go(state, [c EXCEPT !.loop_j = @ + 1]) /\ ~LastLoop(ctl.loop_j)
        \/ Go("ENC_PWMA_U",
              [c EXCEPT !.loop_i = 0, !.loop_j = 0, !.enc_ntt_phase = 0,
                        !.dp_phase = 0, !.dp_enable = FALSE, !.gm_source = TRUE,
                        !.gm_sent = FALSE])
    BY <1>4, <2>1 DEF AfterNoise, c
  <2>4. CASE Go("ENC_NTT_R", [c EXCEPT !.enc_ntt_phase = 0, !.ntt_sent = FALSE])
    <3>1. /\ state' = "ENC_NTT_R" /\ ctl'.ntt_sent = FALSE /\ ctl'.enc_ntt_phase = 0
          /\ Kept({"hash_sent", "cbd_sent", "enc_ntt_phase", "ntt_sent"})
          /\ ctl'.hash_sent = FALSE /\ ctl'.cbd_sent = FALSE
      BY ZenonT(60), <2>1, <2>4 DEF Go, Latched
    <3> QED
      BY <1>0, <1>4, <2>2, <3>1
  <2>5. CASE Go(state, [c EXCEPT !.loop_j = 0, !.enc_noise_kind = 2])
    <3>1. /\ state' = state /\ ctl'.loop_j = 0
          /\ Kept({"hash_sent", "cbd_sent", "loop_j", "enc_noise_kind"})
          /\ ctl'.hash_sent = FALSE /\ ctl'.cbd_sent = FALSE
      BY ZenonT(60), <2>1, <2>5 DEF Go, Latched
    <3> QED
      BY <1>0, <1>4, <2>2, <3>1
  <2>7. CASE Go(state, [c EXCEPT !.loop_j = @ + 1]) /\ ~LastLoop(ctl.loop_j)
    <3>1. /\ state' = state /\ ctl'.loop_j = ctl.loop_j + 1
          /\ Kept({"hash_sent", "cbd_sent", "loop_j"})
          /\ ctl'.hash_sent = FALSE /\ ctl'.cbd_sent = FALSE
      BY ZenonT(60), <2>1, <2>7 DEF Go, Latched
    <3> QED
      BY <1>0, <1>4, <2>2, <2>7, <3>1
  <2>6. CASE Go("ENC_PWMA_U",
                [c EXCEPT !.loop_i = 0, !.loop_j = 0, !.enc_ntt_phase = 0,
                          !.dp_phase = 0, !.dp_enable = FALSE, !.gm_source = TRUE,
                          !.gm_sent = FALSE])
    <3>1. /\ state' = "ENC_PWMA_U"
          /\ Kept({"hash_sent", "cbd_sent", "loop_i", "loop_j", "enc_ntt_phase",
                   "dp_phase", "dp_enable", "gm_source", "gm_sent"})
          /\ ctl'.loop_i = 0 /\ ctl'.loop_j = 0 /\ ctl'.dp_phase = 0
          /\ ctl'.gm_sent = FALSE
      BY ZenonT(60), <2>1, <2>6 DEF Go, Latched
    <3> QED
      BY <1>0, <1>4, <2>2, <3>1
  <2> QED
    BY <2>3, <2>4, <2>5, <2>6, <2>7
<1> QED
  BY <1>1, <1>2, <1>3, <1>4 DEF EncCbdR, Await

LEMMA EncNttRStep == CoreInv /\ EncNttR => CoreInv'
<1> SUFFICES ASSUME CoreInv, EncNttR PROVE CoreInv'
  OBVIOUS
<1>0. state = "ENC_NTT_R"
  BY DEF EncNttR
<1>1. CASE ctl.enc_ntt_phase = 0
  <2>1. Go(state, [ctl EXCEPT !.enc_ntt_phase = 1]) /\ NoStart
    BY <1>1 DEF EncNttR
  <2>2. state' = state /\ Kept({"enc_ntt_phase"}) /\ ctl'.enc_ntt_phase = 1
    BY <2>1 DEF Go, Latched
  <2>3. Started({})
    BY <2>1, StartsNone
  <2> QED
    BY <1>0, <1>1, <2>2, <2>3
<1>2. CASE ctl.enc_ntt_phase = 1
  <2>1. CASE Launch("ntt_sent", [ctl EXCEPT !.intt = FALSE], "ntt")
    BY <1>0, <1>2, <2>1, NttLaunched
  <2>2. CASE Await("ntt_sent", "ntt")
    BY <1>0, <1>2, <2>2, NttAwaited
  <2>3. CASE /\ Finished("ntt_sent", "ntt") /\ NoStart
             /\ Go(state, [ctl EXCEPT !.ntt_sent = FALSE, !.enc_ntt_phase = 2])
    <3>1. /\ state' = state /\ Kept({"ntt_sent", "enc_ntt_phase"})
          /\ ctl'.ntt_sent = FALSE /\ ctl'.enc_ntt_phase = 2
          /\ ctl.ntt_sent /\ "ntt" \in pulse
      BY <2>3 DEF Finished, Go, Latched
    <3>2. Started({})
      BY <2>3, StartsNone
    <3> QED
      BY <1>0, <1>2, <3>1, <3>2
  <2> QED
    BY <1>2, <2>1, <2>2, <2>3 DEF EncNttR
<1>3. CASE ctl.enc_ntt_phase \notin {0, 1}
  <2>0. ctl.enc_ntt_phase # 0 /\ ctl.enc_ntt_phase # 1
    BY <1>3
  <2>1. /\ NoStart
        /\ Go("ENC_CBD_R", IF LastLoop(ctl.loop_j)
                           THEN [ctl EXCEPT !.loop_j = 0, !.enc_noise_kind = 1]
                           ELSE [ctl EXCEPT !.loop_j = @ + 1])
    BY <2>0, Zenon DEF EncNttR
  <2>2. Started({})
    BY <2>1, StartsNone
  <2>3. CASE LastLoop(ctl.loop_j)
    <3>1. /\ state' = "ENC_CBD_R" /\ Kept({"loop_j", "enc_noise_kind"})
          /\ ctl'.loop_j = 0
      BY <2>1, <2>3 DEF Go, Latched
    <3> QED
      BY <1>0, <1>3, <2>2, <3>1
  <2>4. CASE ~LastLoop(ctl.loop_j)
    <3>1. /\ state' = "ENC_CBD_R" /\ Kept({"loop_j"})
          /\ ctl'.loop_j = ctl.loop_j + 1
      BY <2>1, <2>4 DEF Go, Latched
    <3> QED
      BY <1>0, <1>3, <2>2, <2>4, <3>1
  <2> QED
    BY <2>3, <2>4
<1> QED
  BY <1>1, <1>2, <1>3

\* One row of products, for the rows of u and for v.
LEMMA RowStep ==
    ASSUME CoreInv, NEW next,
           \/ state = "ENC_PWMA_U" /\ next = "ENC_INTT_U"
           \/ state = "ENC_PWMA_V" /\ next = "ENC_INTT_V",
           ctl.dp_phase # 0, Row(next)
    PROVE  CoreInv'
<1>0. ctl.dp_phase = 3 \/ ctl.dp_phase = 4
  OBVIOUS
<1>1. CASE ctl.dp_phase = 3 /\ Product(ctl.bank, ctl.loop_j, ctl.loop_j # 0, FALSE)
  <2>1. \A b, o, a, m : Product(b, o, a, m) => CoreInv'
    BY <1>1, PwmaLaunched
  <2> QED
    BY <1>1, <2>1, Zenon
<1>2. CASE ctl.dp_phase = 3 /\ Await("pwma_sent", "pwma")
  BY <1>2, PwmaAwaited
<1>3. CASE /\ ctl.dp_phase = 3 /\ Finished("pwma_sent", "pwma") /\ NoStart
           /\ Go(state, IF LastLoop(ctl.loop_j)
                        THEN [ctl EXCEPT !.pwma_sent = FALSE, !.dp_phase = 4]
                        ELSE [ctl EXCEPT !.pwma_sent = FALSE, !.loop_j = @ + 1])
  <2>1. "pwma" \in pulse /\ ctl.pwma_sent /\ Started({})
    BY <1>3, StartsNone DEF Finished
  <2>2. CASE LastLoop(ctl.loop_j)
    <3>1. /\ state' = state /\ Kept({"pwma_sent", "dp_phase"})
          /\ ctl'.pwma_sent = FALSE /\ ctl'.dp_phase = 4
      BY <1>3, <2>2 DEF Go, Latched
    <3> QED
      BY <1>3, <2>1, <2>2, <3>1
  <2>3. CASE ~LastLoop(ctl.loop_j)
    <3>1. /\ state' = state /\ Kept({"pwma_sent", "loop_j"})
          /\ ctl'.pwma_sent = FALSE /\ ctl'.loop_j = ctl.loop_j + 1
      BY <1>3, <2>3 DEF Go, Latched
    <3> QED
      BY <1>3, <2>1, <2>3, <3>1
  <2> QED
    BY <2>2, <2>3
<1>4. CASE ctl.dp_phase = 4
  <2>0. ctl.dp_phase # 3
    BY <1>4
  <2>1. TransferAcc(next, [ctl EXCEPT !.dp_enable = FALSE, !.dp_phase = 0,
                                      !.enc_ntt_phase = 1])
    BY <1>4, <2>0, Zenon DEF Row
  <2>2. /\ state' = next /\ Kept({"dp_enable", "dp_phase", "enc_ntt_phase", "ntt_sent"})
        /\ ctl'.enc_ntt_phase = 1 /\ ctl'.ntt_sent = FALSE
    BY <2>1 DEF TransferAcc, Go, Latched
  <2>3. Started({})
    BY <2>1, StartsNone DEF TransferAcc
  <2> QED
    BY <1>4, <2>2, <2>3
<1> QED
  BY <1>0, <1>1, <1>2, <1>3, <1>4 DEF Row

LEMMA EncPwmaUStep == CoreInv /\ EncPwmaU => CoreInv'
<1> SUFFICES ASSUME CoreInv, EncPwmaU PROVE CoreInv'
  OBVIOUS
<1>0. state = "ENC_PWMA_U"
  BY DEF EncPwmaU
<1>1. CASE ctl.dp_phase = 0
  <2>1. /\ Go(state, [ctl EXCEPT !.gm_transposed = TRUE, !.gm_stream_mode = TRUE,
                                 !.gm_source = TRUE, !.ntt_source = FALSE,
                                 !.dp_enable = TRUE, !.loop_j = 0,
                                 !.pwma_sent = FALSE, !.gm_sent = TRUE,
                                 !.dp_phase = 3])
        /\ StartUnits(IF ctl.gm_sent THEN {} ELSE {"gm"})
    BY <1>1 DEF EncPwmaU
  <2>2. /\ state' = state
        /\ Kept({"gm_transposed", "gm_stream_mode", "gm_source", "ntt_source",
                 "dp_enable", "loop_j", "pwma_sent", "gm_sent", "dp_phase"})
        /\ ctl'.gm_source = TRUE /\ ctl'.ntt_source = FALSE /\ ctl'.dp_enable = TRUE
        /\ ctl'.loop_j = 0 /\ ctl'.pwma_sent = FALSE /\ ctl'.gm_sent = TRUE
        /\ ctl'.dp_phase = 3
    BY ZenonT(60), <2>1 DEF Go, Latched
  <2>3. CASE ctl.gm_sent
    <3>1. Started({})
      BY <2>1, <2>3, Starts
    <3> QED
      BY <1>0, <1>1, <2>2, <2>3, <3>1
  <2>4. CASE ~ctl.gm_sent
    <3>1. Started({"gm"})
      BY <2>1, <2>4, Starts
    <3> QED
      BY <1>0, <1>1, <2>2, <2>4, <3>1
  <2> QED
    BY <2>3, <2>4
<1>2. CASE ctl.dp_phase # 0
  BY <1>0, <1>2, RowStep DEF EncPwmaU
<1> QED
  BY <1>1, <1>2

LEMMA EncPwmaVStep == CoreInv /\ EncPwmaV => CoreInv'
<1> SUFFICES ASSUME CoreInv, EncPwmaV PROVE CoreInv'
  OBVIOUS
<1>0. state = "ENC_PWMA_V"
  BY DEF EncPwmaV
<1>1. CASE ctl.dp_phase = 0
  <2>1. /\ Go(state, [ctl EXCEPT !.gm_source = FALSE, !.ntt_source = FALSE,
                                 !.dp_enable = TRUE, !.loop_j = 0,
                                 !.pwma_sent = FALSE, !.dp_phase = 3])
        /\ NoStart
    BY <1>1 DEF EncPwmaV
  <2>2. /\ state' = state
        /\ Kept({"gm_source", "ntt_source", "dp_enable", "loop_j", "pwma_sent", "dp_phase"})
        /\ ctl'.loop_j = 0 /\ ctl'.pwma_sent = FALSE /\ ctl'.dp_phase = 3
    BY <2>1 DEF Go, Latched
  <2>3. Started({})
    BY <2>1, StartsNone
  <2> QED
    BY <1>0, <1>1, <2>2, <2>3
<1>2. CASE ctl.dp_phase # 0
  BY <1>0, <1>2, RowStep DEF EncPwmaV
<1> QED
  BY <1>1, <1>2

\* The transform back, up to the store of its result.
LEMMA InverseStep ==
    ASSUME CoreInv, state \in {"ENC_INTT_U", "ENC_INTT_V"},
           ctl.enc_ntt_phase = 1,
           \/ Launch("ntt_sent", [ctl EXCEPT !.intt = TRUE], "ntt")
           \/ Await("ntt_sent", "ntt")
           \/ /\ Finished("ntt_sent", "ntt") /\ NoStart
              /\ Go(state, [ctl EXCEPT !.ntt_sent = FALSE, !.enc_ntt_phase = 2])
    PROVE  CoreInv'
<1>1. CASE Launch("ntt_sent", [ctl EXCEPT !.intt = TRUE], "ntt")
  BY <1>1, NttLaunched
<1>2. CASE Await("ntt_sent", "ntt")
  BY <1>2, NttAwaited
<1>3. CASE /\ Finished("ntt_sent", "ntt") /\ NoStart
           /\ Go(state, [ctl EXCEPT !.ntt_sent = FALSE, !.enc_ntt_phase = 2])
  <2>1. /\ state' = state /\ Kept({"ntt_sent", "enc_ntt_phase"})
        /\ ctl'.ntt_sent = FALSE /\ ctl'.enc_ntt_phase = 2
        /\ ctl.ntt_sent /\ "ntt" \in pulse
    BY <1>3 DEF Finished, Go, Latched
  <2>2. Started({})
    BY <1>3, StartsNone
  <2> QED
    BY <2>1, <2>2
<1> QED
  BY <1>1, <1>2, <1>3

LEMMA EncInttUStep == CoreInv /\ EncInttU => CoreInv'
<1> SUFFICES ASSUME CoreInv, EncInttU PROVE CoreInv'
  OBVIOUS
<1>0. state = "ENC_INTT_U" /\ ctl.enc_ntt_phase \in {1, 2}
  BY DEF EncInttU
<1>1. CASE ctl.enc_ntt_phase = 1
  <2>1. \/ Launch("ntt_sent", [ctl EXCEPT !.intt = TRUE], "ntt")
        \/ Await("ntt_sent", "ntt")
        \/ /\ Finished("ntt_sent", "ntt") /\ NoStart
           /\ Go(state, [ctl EXCEPT !.ntt_sent = FALSE, !.enc_ntt_phase = 2])
    BY <1>1 DEF EncInttU, Inverse
  <2> QED
    BY <1>0, <1>1, <2>1, InverseStep
<1>2. CASE ctl.enc_ntt_phase # 1
  <2> DEFINE c == [ctl EXCEPT !.enc_ntt_phase = 0, !.loop_j = 0, !.dp_phase = 0]
  <2>1. /\ NoStart
        /\ IF LastLoop(ctl.loop_i) THEN Go("ENC_PWMA_V", EndOfMatrix(c))
           ELSE Go("ENC_PWMA_U", [c EXCEPT !.loop_i = @ + 1])
    BY <1>0, <1>2, Zenon DEF EncInttU, Inverse
  <2>0. /\ DOMAIN c = Fields /\ c.loop_i = ctl.loop_i
        /\ c.loop_j = 0 /\ c.dp_phase = 0
        /\ \A f \in Fields \ {"enc_ntt_phase", "loop_j", "dp_phase"} : c[f] = ctl[f]
    OBVIOUS
  <2> HIDE DEF c
  <2>2. Started({})
    BY <2>1, StartsNone
  <2>3. CASE LastLoop(ctl.loop_i)
    <3>1. /\ state' = "ENC_PWMA_V"
          /\ Kept({"enc_ntt_phase", "loop_j", "dp_phase", "loop_i", "gm_stream_mode",
                   "gm_transposed", "gm_sent"})
          /\ ctl'.loop_i = 0 /\ ctl'.loop_j = 0 /\ ctl'.dp_phase = 0
          /\ ctl'.gm_stream_mode = FALSE
      <4>1. Go("ENC_PWMA_V", EndOfMatrix(c))
        BY <2>1, <2>3, Zenon
      <4> QED
        BY ZenonT(60), <2>0, <4>1 DEF EndOfMatrix, Go, Latched
    <3> QED
      BY <1>0, <1>2, <2>2, <2>3, <3>1
  <2>4. CASE ~LastLoop(ctl.loop_i)
    <3>1. /\ state' = "ENC_PWMA_U"
          /\ Kept({"enc_ntt_phase", "loop_j", "dp_phase", "loop_i"})
          /\ ctl'.loop_i = ctl.loop_i + 1 /\ ctl'.loop_j = 0 /\ ctl'.dp_phase = 0
      <4>1. Go("ENC_PWMA_U", [c EXCEPT !.loop_i = @ + 1])
        BY <2>1, <2>4, Zenon
      <4> QED
        BY ZenonT(60), <2>0, <4>1 DEF Go, Latched
    <3> QED
      BY <1>0, <1>2, <2>2, <2>4, <3>1
  <2> QED
    BY <2>3, <2>4
<1> QED
  BY <1>1, <1>2

LEMMA EncInttVStep == CoreInv /\ EncInttV => CoreInv'
<1> SUFFICES ASSUME CoreInv, EncInttV PROVE CoreInv'
  OBVIOUS
<1>0. state = "ENC_INTT_V" /\ ctl.enc_ntt_phase \in {1, 2}
  BY DEF EncInttV
<1>1. CASE ctl.enc_ntt_phase = 1
  <2>1. \/ Launch("ntt_sent", [ctl EXCEPT !.intt = TRUE], "ntt")
        \/ Await("ntt_sent", "ntt")
        \/ /\ Finished("ntt_sent", "ntt") /\ NoStart
           /\ Go(state, [ctl EXCEPT !.ntt_sent = FALSE, !.enc_ntt_phase = 2])
    BY <1>1 DEF EncInttV, Inverse
  <2> QED
    BY <1>0, <1>1, <2>1, InverseStep
<1>2. CASE ctl.enc_ntt_phase # 1
  <2>1. /\ NoStart
        /\ Go("ENC_PACK", [ctl EXCEPT !.enc_ntt_phase = 0, !.ct_pack_sent = FALSE])
    BY <1>0, <1>2, Zenon DEF EncInttV, Inverse
  <2>2. /\ state' = "ENC_PACK" /\ Kept({"enc_ntt_phase", "ct_pack_sent"})
        /\ ctl'.ct_pack_sent = FALSE
    BY <2>1 DEF Go, Latched
  <2>3. Started({})
    BY <2>1, StartsNone
  <2> QED
    BY <1>0, <1>2, <2>2, <2>3
<1> QED
  BY <1>1, <1>2

LEMMA EncPackStep == CoreInv /\ EncPack => CoreInv'
<1> SUFFICES ASSUME CoreInv, EncPack PROVE CoreInv'
  OBVIOUS
<1>0. state = "ENC_PACK"
  BY DEF EncPack
<1> DEFINE leaving == "ctpack" \in pulse /\ ctl.ct_cap_idx > K
           c == [ctl EXCEPT !.ct_pack_sent = ~leaving,
                            !.ct_cap_idx = IF ~ctl.ct_pack_sent THEN 0 ELSE @]
<1>1. CASE ~ctl.ct_pack_sent
  <2>1. ~leaving
    BY <1>0, <1>1
  <2>2. Go(state, c) /\ StartUnits({"ctpack"} \cup {})
    BY <1>1, <2>1, Zenon DEF EncPack
  <2>3. /\ state' = state /\ Kept({"ct_pack_sent", "ct_cap_idx"})
        /\ ctl'.ct_pack_sent = TRUE
    BY <2>1, <2>2 DEF Go, Latched
  <2>4. Started({"ctpack"})
    BY <2>2, Starts
  <2> QED
    BY <1>0, <1>1, <2>3, <2>4
<1>2. CASE ctl.ct_pack_sent /\ ~leaving
  <2>0. /\ DOMAIN c = Fields /\ c.ct_pack_sent = ~leaving
        /\ \A f \in Fields \ {"ct_pack_sent"} : c[f] = ctl[f]
    BY ZenonT(60), <1>2
  <2>1. Go(state, c) /\ StartUnits({} \cup {})
    BY <1>2, Zenon DEF EncPack
  <2>2. /\ state' = state /\ Kept({"ct_pack_sent"}) /\ ctl'.ct_pack_sent = TRUE
    <3> HIDE DEF c
    <3> QED
      BY ZenonT(60), <2>0, <1>2, <2>1 DEF Go, Latched
  <2>3. Started({})
    BY <2>1, Starts
  <2> QED
    BY <1>0, <1>2, <2>2, <2>3
<1>3. CASE ctl.ct_pack_sent /\ leaving
  <2>0. /\ DOMAIN c = Fields /\ c.ct_pack_sent = ~leaving
        /\ \A f \in Fields \ {"ct_pack_sent"} : c[f] = ctl[f]
    BY ZenonT(60), <1>3
  <2>1. PICK ready :
          /\ Go(IF ctl.dec_reenc_mode THEN "DEC_CMP" ELSE "ENC_WRITE_SS",
                [c EXCEPT !.hash_sent = FALSE, !.ss_ready = ready])
          /\ StartUnits({} \cup (IF ctl.dec_reenc_mode THEN {"cmp"} ELSE {}))
    BY <1>3 DEF EncPack
  <2>2. /\ state' = IF ctl.dec_reenc_mode THEN "DEC_CMP" ELSE "ENC_WRITE_SS"
        /\ Kept({"ct_pack_sent", "hash_sent", "ss_ready"})
    <3> HIDE DEF c
    <3> QED
      BY ZenonT(60), <2>0, <2>1 DEF Go, Latched
  <2>3. Started(IF ctl.dec_reenc_mode THEN {"cmp"} ELSE {})
    BY <2>1, Starts
  <2> QED
    BY <1>0, <1>3, <2>2, <2>3
<1> QED
  BY <1>1, <1>2, <1>3

LEMMA WriteSecretStep ==
    ASSUME CoreInv, state \in {"ENC_WRITE_SS", "DEC_PACK"}, WriteSecret
    PROVE  CoreInv'
<1>1. CASE ~ctl.ss_ready
  <2>1. Go(state, [ctl EXCEPT !.hash_sent = FALSE, !.ss_ready = TRUE]) /\ NoStart
    BY <1>1 DEF WriteSecret
  <2>2. state' = state /\ Kept({"hash_sent", "ss_ready"})
    BY <2>1 DEF Go, Latched
  <2>3. Started({})
    BY <2>1, StartsNone
  <2> QED
    BY <2>2, <2>3
<1>2. CASE ctl.ss_ready
  BY <1>2, FinishStep DEF WriteSecret
<1> QED
  BY <1>1, <1>2

-----------------------------------------------------------------------------
(* Decapsulation *)

LEMMA DecReadStep == CoreInv /\ DecRead => CoreInv'
<1> SUFFICES ASSUME CoreInv, DecRead PROVE CoreInv'
  OBVIOUS
<1>1. state = "DEC_READ" /\ NoStart
  BY DEF DecRead
<1>2. Started({})
  BY <1>1, StartsNone
<1>3. CASE Go(state, [ctl EXCEPT !.sk_reload_done = TRUE, !.pk_in_sk = TRUE])
  <2>1. state' = state /\ Kept({"sk_reload_done", "pk_in_sk"})
    BY <1>3 DEF Go, Latched
  <2> QED
    BY <1>1, <1>2, <2>1
<1>4. CASE Go("ENC_READ_PK", [ctl EXCEPT !.sk_reload_done = FALSE])
  <2>1. state' = "ENC_READ_PK" /\ Kept({"sk_reload_done"})
    BY <1>4 DEF Go, Latched
  <2> QED
    BY <1>1, <1>2, <2>1
<1> QED
  BY <1>3, <1>4 DEF DecRead

LEMMA DecReadRestStep == CoreInv /\ DecReadRest => CoreInv'
<1> SUFFICES ASSUME CoreInv, DecReadRest PROVE CoreInv'
  OBVIOUS
<1>1. /\ state = "DEC_READ_REST" /\ NoStart
      /\ Go("DEC_READ_CT", [ctl EXCEPT !.hash_sent = FALSE])
  BY DEF DecReadRest
<1>2. state' = "DEC_READ_CT" /\ Kept({"hash_sent"})
  BY <1>1 DEF Go, Latched
<1>3. Started({})
  BY <1>1, StartsNone
<1> QED
  BY <1>1, <1>2, <1>3

LEMMA DecReadCtStep == CoreInv /\ DecReadCt => CoreInv'
<1> SUFFICES ASSUME CoreInv, DecReadCt PROVE CoreInv'
  OBVIOUS
<1>1. state = "DEC_READ_CT" /\ NoStart
  BY DEF DecReadCt
<1>2. Started({})
  BY <1>1, StartsNone
<1>3. CASE ~ctl.hash_sent
  <2>1. Go(state, [ctl EXCEPT !.hash_sent = TRUE])
    BY <1>3 DEF DecReadCt
  <2>2. state' = state /\ Kept({"hash_sent"})
    BY <2>1 DEF Go, Latched
  <2> QED
    BY <1>1, <1>2, <2>2
<1>4. CASE ctl.hash_sent
  <2>1. Go("DEC_DECOMP",
           [ctl EXCEPT !.hash_sent = FALSE, !.dec_j_idx = 0,
                       !.u0_loaded = FALSE, !.u0_started = FALSE,
                       !.u0_done = FALSE, !.unpack_done = FALSE,
                       !.dp_phase = 0, !.dp_enable = FALSE, !.gm_source = FALSE])
    BY <1>4 DEF DecReadCt
  <2>2. /\ state' = "DEC_DECOMP" /\ ctl'.dec_j_idx = 0 /\ ctl'.dp_phase = 0
        /\ Kept({"hash_sent", "dec_j_idx", "u0_loaded", "u0_started", "u0_done",
                 "unpack_done", "dp_phase", "dp_enable", "gm_source"})
    BY <2>1, ZenonT(60) DEF Go, Latched
  <2> QED
    BY <1>1, <1>2, <2>2
<1> QED
  BY <1>3, <1>4

\* Unpacking beside the transform of u0: whichever ends first is remembered.
LEMMA DecUnpackStep ==
    ASSUME CoreInv, state = "DEC_DECOMP", ctl.dp_phase = 1, DecUnpack
    PROVE  CoreInv'
<1> DEFINE ntt_now == ctl.u0_done \/ (ctl.u0_started /\ "ntt" \in pulse)
           unpack_now == ctl.unpack_done \/ "unpack" \in pulse
           start == ctl.u0_loaded /\ ~ctl.u0_started
           c == [ctl EXCEPT !.intt = IF start THEN FALSE ELSE @,
                            !.u0_started = @ \/ start,
                            !.u0_done = ntt_now, !.unpack_done = unpack_now]
<1>1. /\ DOMAIN c = Fields /\ c.u0_started = (ctl.u0_started \/ start)
      /\ c.u0_done = ntt_now /\ c.unpack_done = unpack_now
      /\ \A f \in Fields \ {"intt", "u0_started", "u0_done", "unpack_done"} : c[f] = ctl[f]
  OBVIOUS
<1>2. /\ Go(state, IF ntt_now /\ unpack_now
                   THEN [c EXCEPT !.dec_j_idx = 0, !.dp_phase = 2] ELSE c)
      /\ StartUnits(IF start THEN {"ntt"} ELSE {})
  BY Zenon DEF DecUnpack
<1>3. start => ~ntt_now
  OBVIOUS
<1>4. Started(IF start THEN {"ntt"} ELSE {})
  BY <1>2, Starts
<1>5. CASE ntt_now /\ unpack_now
  <2>1. /\ state' = state /\ ctl'.dec_j_idx = 0 /\ ctl'.dp_phase = 2
        /\ Kept({"intt", "u0_started", "u0_done", "unpack_done", "dec_j_idx", "dp_phase"})
    <3> HIDE DEF c
    <3> QED
      BY ZenonT(60), <1>1, <1>2, <1>5 DEF Go, Latched
  <2>2. Started({})
    BY <1>3, <1>4, <1>5
  <2> HIDE DEF c
  <2> QED
    BY <1>5, <2>1, <2>2
<1>6. CASE ~(ntt_now /\ unpack_now)
  <2>1. /\ state' = state
        /\ ctl'.u0_started <=> ctl.u0_started \/ start
        /\ ctl'.u0_done <=> ntt_now
        /\ ctl'.unpack_done <=> unpack_now
        /\ Kept({"intt", "u0_started", "u0_done", "unpack_done"})
    <3> HIDE DEF c, ntt_now, unpack_now, start
    <3> QED
      BY ZenonT(60), <1>1, <1>2, <1>6 DEF Go, Latched
  <2> HIDE DEF c
  <2>2. CASE start
    BY <1>4, <1>6, <2>1, <2>2
  <2>3. CASE ~start
    BY <1>4, <1>6, <2>1, <2>3
  <2> QED
    BY <2>2, <2>3
<1> QED
  BY <1>5, <1>6

LEMMA DecDecompStep == CoreInv /\ DecDecomp => CoreInv'
<1> SUFFICES ASSUME CoreInv, DecDecomp PROVE CoreInv'
  OBVIOUS
<1>0. state = "DEC_DECOMP" /\ ctl.dp_phase \in {0, 1, 2, 4, 5, 6, 7, 8}
  BY DEF DecDecomp
<1>1. CASE ctl.dp_phase = 0
  <2>1. /\ Go(state, [ctl EXCEPT !.ntt_source = TRUE, !.gm_source = FALSE,
                                 !.dp_enable = TRUE, !.unpack_done = FALSE,
                                 !.u0_loaded = FALSE, !.u0_started = FALSE,
                                 !.u0_done = FALSE, !.dec_j_idx = 0,
                                 !.dp_phase = 1])
        /\ StartUnits({"unpack"})
    BY <1>1 DEF DecDecomp
  <2>2. /\ state' = state
        /\ Kept({"ntt_source", "gm_source", "dp_enable", "unpack_done", "u0_loaded",
                 "u0_started", "u0_done", "dec_j_idx", "dp_phase"})
        /\ ctl'.unpack_done = FALSE /\ ctl'.u0_started = FALSE
        /\ ctl'.u0_done = FALSE /\ ctl'.dec_j_idx = 0 /\ ctl'.dp_phase = 1
    BY ZenonT(60), <2>1 DEF Go, Latched
  <2>3. Started({"unpack"})
    BY <2>1, Starts
  <2> QED
    BY <1>0, <1>1, <2>2, <2>3
<1>2. CASE ctl.dp_phase = 1
  <2>1. DecUnpack
    BY <1>2 DEF DecDecomp
  <2> QED
    BY <1>0, <1>2, <2>1, DecUnpackStep
<1>3. CASE ctl.dp_phase = 2
  <2>1. CASE Product(ctl.bank, ctl.dec_j_idx, ctl.dec_j_idx # 0, FALSE)
    <3>1. \A b, o, a, m : Product(b, o, a, m) => CoreInv'
      BY <1>0, <1>3, PwmaLaunched
    <3> QED
      BY <2>1, <3>1, Zenon
  <2>2. CASE Await("pwma_sent", "pwma")
    BY <1>0, <1>3, <2>2, PwmaAwaited
  <2>3. CASE /\ Finished("pwma_sent", "pwma") /\ NoStart
             /\ Go(state, IF LastLoop(ctl.dec_j_idx)
                          THEN [ctl EXCEPT !.pwma_sent = FALSE, !.dp_phase = 6]
                          ELSE [ctl EXCEPT !.pwma_sent = FALSE, !.dp_phase = 4,
                                           !.dec_j_idx = @ + 1])
    <3>1. "pwma" \in pulse /\ ctl.pwma_sent /\ Started({})
      BY <2>3, StartsNone DEF Finished
    <3>2. CASE LastLoop(ctl.dec_j_idx)
      <4>1. /\ state' = state /\ Kept({"pwma_sent", "dp_phase"})
            /\ ctl'.pwma_sent = FALSE /\ ctl'.dp_phase = 6
        BY <2>3, <3>2 DEF Go, Latched
      <4> QED
        BY <1>0, <1>3, <3>1, <4>1
    <3>3. CASE ~LastLoop(ctl.dec_j_idx)
      <4>1. /\ state' = state /\ Kept({"pwma_sent", "dp_phase", "dec_j_idx"})
            /\ ctl'.pwma_sent = FALSE /\ ctl'.dp_phase = 4
            /\ ctl'.dec_j_idx = ctl.dec_j_idx + 1
        BY <2>3, <3>3 DEF Go, Latched
      <4> QED
        BY <1>0, <1>3, <3>1, <3>3, <4>1
    <3> QED
      BY <3>2, <3>3
  <2>4. \/ Product(ctl.bank, ctl.dec_j_idx, ctl.dec_j_idx # 0, FALSE)
        \/ Await("pwma_sent", "pwma")
        \/ /\ Finished("pwma_sent", "pwma") /\ NoStart
           /\ Go(state, IF LastLoop(ctl.dec_j_idx)
                        THEN [ctl EXCEPT !.pwma_sent = FALSE, !.dp_phase = 6]
                        ELSE [ctl EXCEPT !.pwma_sent = FALSE, !.dp_phase = 4,
                                         !.dec_j_idx = @ + 1])
    <3>1. /\ ctl.dp_phase # 0 /\ ctl.dp_phase # 1 /\ ctl.dp_phase # 4
          /\ ctl.dp_phase # 6 /\ ctl.dp_phase # 8 /\ ctl.dp_phase \notin {5, 7}
      BY <1>3
    <3> QED
      BY <1>3, <3>1, Zenon DEF DecDecomp
  <2> QED
    BY <2>1, <2>2, <2>3, <2>4
<1>4. CASE ctl.dp_phase = 4
  <2>1. Go(state, [ctl EXCEPT !.ntt_sent = FALSE, !.dp_phase = 5]) /\ NoStart
    BY <1>4 DEF DecDecomp
  <2>2. /\ state' = state /\ Kept({"ntt_sent", "dp_phase"})
        /\ ctl'.ntt_sent = FALSE /\ ctl'.dp_phase = 5
    BY <2>1 DEF Go, Latched
  <2>3. Started({})
    BY <2>1, StartsNone
  <2> QED
    BY <1>0, <1>4, <2>2, <2>3
<1>5. CASE ctl.dp_phase = 5 \/ ctl.dp_phase = 7
  <2>1. \/ Launch("ntt_sent", [ctl EXCEPT !.intt = (ctl.dp_phase = 7)], "ntt")
        \/ Await("ntt_sent", "ntt")
        \/ /\ Finished("ntt_sent", "ntt") /\ NoStart
           /\ Go(state, [ctl EXCEPT !.ntt_sent = FALSE,
                                    !.dp_phase = IF @ = 5 THEN 2 ELSE 8])
    <3>1. /\ ctl.dp_phase # 0 /\ ctl.dp_phase # 1 /\ ctl.dp_phase # 2
          /\ ctl.dp_phase # 4 /\ ctl.dp_phase # 6 /\ ctl.dp_phase # 8
          /\ ctl.dp_phase \in {5, 7}
      BY <1>5
    <3> QED
      BY <3>1, Zenon DEF DecDecomp
  <2>2. CASE Launch("ntt_sent", [ctl EXCEPT !.intt = (ctl.dp_phase = 7)], "ntt")
    <3>1. \A inverse : Launch("ntt_sent", [ctl EXCEPT !.intt = inverse], "ntt") => CoreInv'
      BY <1>0, <1>5, NttLaunched
    <3> QED
      BY <2>2, <3>1, Zenon
  <2>3. CASE Await("ntt_sent", "ntt")
    BY <1>0, <1>5, <2>3, NttAwaited
  <2>4. CASE /\ Finished("ntt_sent", "ntt") /\ NoStart
             /\ Go(state, [ctl EXCEPT !.ntt_sent = FALSE,
                                      !.dp_phase = IF @ = 5 THEN 2 ELSE 8])
    <3>1. /\ state' = state /\ Kept({"ntt_sent", "dp_phase"})
          /\ ctl'.ntt_sent = FALSE /\ ctl'.dp_phase \in {2, 8}
          /\ ctl.ntt_sent /\ "ntt" \in pulse
      BY <2>4 DEF Finished, Go, Latched
    <3>2. Started({})
      BY <2>4, StartsNone
    <3> QED
      BY <1>0, <1>5, <3>1, <3>2
  <2> QED
    BY <2>1, <2>2, <2>3, <2>4
<1>6. CASE ctl.dp_phase = 6
  <2>1. TransferAcc(state, [ctl EXCEPT !.dp_phase = 7])
    BY <1>6 DEF DecDecomp
  <2>2. /\ state' = state /\ Kept({"dp_phase", "ntt_sent"})
        /\ ctl'.dp_phase = 7 /\ ctl'.ntt_sent = FALSE
    BY <2>1 DEF TransferAcc, Go, Latched
  <2>3. Started({})
    BY <2>1, StartsNone DEF TransferAcc
  <2> QED
    BY <1>0, <1>6, <2>2, <2>3
<1>7. CASE ctl.dp_phase = 8
  <2>1. /\ Go("DEC_NTT_U", [ctl EXCEPT !.dp_enable = FALSE, !.dp_phase = 0,
                                       !.hash_sent = FALSE])
        /\ NoStart
    BY <1>7 DEF DecDecomp
  <2>2. /\ state' = "DEC_NTT_U" /\ Kept({"dp_enable", "dp_phase", "hash_sent"})
        /\ ctl'.hash_sent = FALSE
    BY <2>1 DEF Go, Latched
  <2>3. Started({})
    BY <2>1, StartsNone
  <2> QED
    BY <1>0, <1>7, <2>2, <2>3
<1> QED
  BY <1>0, <1>1, <1>2, <1>3, <1>4, <1>5, <1>6, <1>7

LEMMA DecCmpStep == CoreInv /\ DecCmp => CoreInv'
<1> SUFFICES ASSUME CoreInv, DecCmp PROVE CoreInv'
  OBVIOUS
<1>0. state = "DEC_CMP" /\ NoStart
  BY DEF DecCmp
<1>1. CASE "cmp" \in pulse
  <2>1. PICK next \in {"DEC_RKPRF", "DEC_PACK"} :
           Go(next, [ctl EXCEPT !.dec_reenc_mode = FALSE, !.hash_sent = FALSE])
    BY <1>1 DEF DecCmp
  <2>2. /\ state' = next
        /\ Kept({"dec_reenc_mode", "hash_sent"}) /\ ctl'.hash_sent = FALSE
    BY <2>1 DEF Go, Latched
  <2>3. Started({})
    BY <1>0, StartsNone
  <2> QED
    BY <1>0, <1>1, <2>2, <2>3
<1>2. CASE "cmp" \notin pulse
  <2>1. pulse \subseteq {"ctpack", "gm"} /\ Go(state, ctl)
    BY <1>0, <1>2 DEF DecCmp
  <2> QED
    BY <1>0, <2>1, Waits
<1> QED
  BY <1>1, <1>2

LEMMA DecRkprfStep == CoreInv /\ DecRkprf => CoreInv'
<1> SUFFICES ASSUME CoreInv, DecRkprf PROVE CoreInv'
  OBVIOUS
<1>0. state = "DEC_RKPRF"
  BY DEF DecRkprf
<1>1. CASE LaunchDigest
  BY <1>0, <1>1, DigestLaunched
<1>2. CASE Await("hash_sent", "digest")
  BY <1>0, <1>2, DigestAwaited
<1>3. CASE ~LaunchDigest /\ ~Await("hash_sent", "digest")
  <2>1. /\ Finished("hash_sent", "digest") /\ NoStart
        /\ Go("DEC_PACK", [ctl EXCEPT !.hash_sent = FALSE, !.ss_ready = FALSE])
    BY <1>3 DEF DecRkprf
  <2>2. /\ state' = "DEC_PACK" /\ Kept({"hash_sent", "ss_ready"})
        /\ "digest" \in pulse /\ ctl.hash_sent
    BY <2>1 DEF Finished, Go, Latched
  <2>3. Started({})
    BY <2>1, StartsNone
  <2> QED
    BY <1>0, <2>2, <2>3
<1> QED
  BY <1>1, <1>2, <1>3

-----------------------------------------------------------------------------
(* Steps of the units and of the host *)

\* A unit that ends has been waited for, and its end is seen once.
LEMMA RaiseStep ==
    ASSUME CoreInv, UNCHANGED <<state, ctl, out>>,
           NEW e \in Units, e \in run, pulse' = pulse \cup {e}, run' = run \ {e},
           \/ e \in {"pwma", "kgpack", "ctpack", "unpack", "cmp"} /\ sponge' = sponge
           \/ e = "cbd" /\ sponge = "words" /\ sponge' = "idle"
           \/ /\ e = "ntt" /\ sponge' = sponge
              /\ ~(state = "ENC_INTT_U" /\ "gm" \in run /\ out["gm"] = K * K)
           \/ e = "gm" /\ sponge = "xof" /\ sponge' = "idle",
           e = "pwma" => state # "ENC_PWMA_U"
    PROVE  CoreInv'
<1>1. CASE e = "cbd"
  BY <1>1
<1>2. CASE e = "ntt"
  BY <1>2
<1>3. CASE e = "pwma"
  BY <1>3
<1>4. CASE e = "gm"
  BY <1>4
<1>5. CASE e = "kgpack"
  BY <1>5
<1>6. CASE e = "ctpack"
  BY <1>6
<1>7. CASE e = "unpack"
  BY <1>7
<1>8. CASE e = "cmp"
  BY <1>8
<1> QED
  BY <1>1, <1>2, <1>3, <1>4, <1>5, <1>6, <1>7, <1>8

LEMMA DigestDoneStep == CoreInv /\ DigestDone => CoreInv'
<1> SUFFICES ASSUME CoreInv, DigestDone PROVE CoreInv'
  OBVIOUS
<1>1. /\ sponge = "digest" /\ sponge' = "idle" /\ pulse' = pulse \cup {"digest"}
      /\ UNCHANGED <<state, ctl, run, out>>
  BY DEF DigestDone
<1>2. state \in DigestStates
  BY <1>1
<1> QED
  BY <1>1, <1>2

LEMMA PrfReadyStep == CoreInv /\ PrfReady => CoreInv'
<1> SUFFICES ASSUME CoreInv, PrfReady PROVE CoreInv'
  OBVIOUS
<1>1. /\ sponge = "prf" /\ sponge' = "words"
      /\ UNCHANGED <<state, ctl, run, pulse, out>>
  BY DEF PrfReady
<1> QED
  BY <1>1

LEMMA CbdDoneStep == CoreInv /\ CbdDone => CoreInv'
<1> SUFFICES ASSUME CoreInv, CbdDone PROVE CoreInv'
  OBVIOUS
<1>1. /\ "cbd" \in run /\ sponge = "words" /\ sponge' = "idle"
      /\ pulse' = pulse \cup {"cbd"} /\ run' = run \ {"cbd"}
      /\ UNCHANGED <<state, ctl, out>>
  BY DEF CbdDone, Raise
<1> QED
  BY <1>1, RaiseStep

LEMMA NttDoneStep == CoreInv /\ NttDone => CoreInv'
<1> SUFFICES ASSUME CoreInv, NttDone PROVE CoreInv'
  OBVIOUS
<1>1. /\ "ntt" \in run /\ sponge' = sponge
      /\ ~(state = "ENC_INTT_U" /\ "gm" \in run /\ out["gm"] = K * K)
      /\ pulse' = pulse \cup {"ntt"} /\ run' = run \ {"ntt"}
      /\ UNCHANGED <<state, ctl, out>>
  BY DEF NttDone, Raise
<1> QED
  BY <1>1, RaiseStep

LEMMA GmOpenStep == CoreInv /\ GmOpen => CoreInv'
<1> SUFFICES ASSUME CoreInv, GmOpen PROVE CoreInv'
  OBVIOUS
<1>1. /\ "gm" \in run /\ sponge = "idle" /\ sponge' = "xof"
      /\ UNCHANGED <<state, ctl, run, pulse, out>>
  BY DEF GmOpen
<1>2. state \in MatrixStates
  BY <1>1
<1> QED
  BY <1>1, <1>2

LEMMA GmDoneStep == CoreInv /\ GmDone => CoreInv'
<1> SUFFICES ASSUME CoreInv, GmDone PROVE CoreInv'
  OBVIOUS
<1>1. /\ "gm" \in run /\ sponge = "xof" /\ sponge' = "idle"
      /\ pulse' = pulse \cup {"gm"} /\ run' = run \ {"gm"}
      /\ UNCHANGED <<state, ctl, out>>
  BY DEF GmDone, Raise
<1> QED
  BY <1>1, RaiseStep

LEMMA CacheTakeStep == CoreInv /\ CacheTake => CoreInv'
<1> SUFFICES ASSUME CoreInv, CacheTake PROVE CoreInv'
  OBVIOUS
<1>1. /\ ctl.kg_a_cache_active /\ out' = [out EXCEPT !["gm"] = @ + 1]
      /\ UNCHANGED <<state, sponge, run, pulse>>
  BY DEF CacheTake, TakeEntry
<1>2. state \in {"KG_NTT_E", "KG_DMA_E", "KG_GEN_A"}
  BY <1>1
<1>3. CASE ctl' = [ctl EXCEPT !.kg_a_cache_active = FALSE, !.kg_a_cache_done = TRUE]
  <2>1. /\ ctl'.kg_a_cache_active = FALSE /\ DOMAIN ctl' = Fields
        /\ \A f \in Fields \ {"kg_a_cache_active", "kg_a_cache_done"} : ctl'[f] = ctl[f]
    BY <1>3
  <2> QED
    BY <1>1, <1>2, <2>1
<1>4. CASE ctl' = [ctl EXCEPT !.kg_a_cache_count = ctl.kg_a_cache_count + 1]
  <2>1. /\ DOMAIN ctl' = Fields
        /\ \A f \in Fields \ {"kg_a_cache_count"} : ctl'[f] = ctl[f]
    BY <1>4
  <2> QED
    BY <1>1, <1>2, <2>1
<1> QED
  BY <1>3, <1>4 DEF CacheTake

\* A product of an encryption takes one entry of the stream.
LEMMA PwmaDoneStep == CoreInv /\ PwmaDone => CoreInv'
<1> SUFFICES ASSUME CoreInv, PwmaDone PROVE CoreInv'
  OBVIOUS
<1> DEFINE fromGm == ctl.dp_enable /\ ctl.gm_source /\ ~ctl.ntt_source
<1>1. /\ "pwma" \in run /\ sponge' = sponge
      /\ pulse' = pulse \cup {"pwma"} /\ run' = run \ {"pwma"}
      /\ UNCHANGED <<state, ctl>>
      /\ IF fromGm THEN out' = [out EXCEPT !["gm"] = @ + 1] ELSE out' = out
  BY Zenon DEF PwmaDone, Raise, TakeEntry
<1>2. CASE fromGm
  <2>1. /\ DOMAIN out' = {"gm", "ctpack", "unpack"} /\ out'["gm"] = out["gm"] + 1
    BY <1>1, <1>2
  <2>2. state # "ENC_INTT_U"
    BY <1>1
  <2> QED
    BY <1>1, <1>2, <2>1, <2>2
<1>3. CASE ~fromGm
  <2>1. state # "ENC_PWMA_U" /\ out' = out
    BY <1>1, <1>3
  <2> QED
    BY <1>1, <2>1, RaiseStep
<1> QED
  BY <1>2, <1>3

LEMMA KgPackDoneStep == CoreInv /\ KgPackDone => CoreInv'
<1> SUFFICES ASSUME CoreInv, KgPackDone PROVE CoreInv'
  OBVIOUS
<1>1. /\ "kgpack" \in run /\ sponge' = sponge
      /\ pulse' = pulse \cup {"kgpack"} /\ run' = run \ {"kgpack"}
      /\ UNCHANGED <<state, ctl, out>>
  BY DEF KgPackDone, Raise
<1> QED
  BY <1>1, RaiseStep

LEMMA CtPackWordStep == CoreInv /\ CtPackWord => CoreInv'
<1> SUFFICES ASSUME CoreInv, CtPackWord PROVE CoreInv'
  OBVIOUS
<1>1. /\ "ctpack" \in run /\ UNCHANGED <<state, sponge, run, pulse>>
      /\ out' = [out EXCEPT !["ctpack"] = @ + 1]
      /\ ctl' = ctl \/ ctl' = [ctl EXCEPT !.ct_cap_idx = @ + 1]
  BY DEF CtPackWord
<1>2. state = "ENC_PACK" /\ ctl.ct_pack_sent
  BY <1>1
<1>3. /\ DOMAIN ctl' = Fields /\ \A f \in Fields \ {"ct_cap_idx"} : ctl'[f] = ctl[f]
  <2>1. CASE ctl' = ctl
    BY <2>1
  <2>2. CASE ctl' = [ctl EXCEPT !.ct_cap_idx = @ + 1]
    BY <2>2
  <2> QED
    BY <1>1, <2>1, <2>2
<1> QED
  BY <1>1, <1>2, <1>3

LEMMA CtPackDoneStep == CoreInv /\ CtPackDone => CoreInv'
<1> SUFFICES ASSUME CoreInv, CtPackDone PROVE CoreInv'
  OBVIOUS
<1>1. /\ "ctpack" \in run /\ sponge' = sponge
      /\ pulse' = pulse \cup {"ctpack"} /\ run' = run \ {"ctpack"}
      /\ UNCHANGED <<state, ctl, out>>
  BY DEF CtPackDone, Raise
<1> QED
  BY <1>1, RaiseStep

LEMMA UnpackPartStep == CoreInv /\ UnpackPart => CoreInv'
<1> SUFFICES ASSUME CoreInv, UnpackPart PROVE CoreInv'
  OBVIOUS
<1>1. /\ UNCHANGED <<state, sponge, run, pulse>>
      /\ out' = [out EXCEPT !["unpack"] = @ + 1]
      /\ \/ ctl' = ctl
         \/ ctl' = [ctl EXCEPT !.u0_loaded = @ \/ out["unpack"] = 0]
  BY DEF UnpackPart
<1>2. /\ DOMAIN ctl' = Fields /\ \A f \in Fields \ {"u0_loaded"} : ctl'[f] = ctl[f]
  <2>1. CASE ctl' = ctl
    BY <2>1
  <2>2. CASE ctl' = [ctl EXCEPT !.u0_loaded = @ \/ out["unpack"] = 0]
    BY <2>2
  <2> QED
    BY <1>1, <2>1, <2>2
<1>3. DOMAIN out' = {"gm", "ctpack", "unpack"} /\ out'["gm"] = out["gm"]
  BY <1>1
<1> QED
  BY <1>1, <1>2, <1>3

LEMMA UnpackDoneStep == CoreInv /\ UnpackDone => CoreInv'
<1> SUFFICES ASSUME CoreInv, UnpackDone PROVE CoreInv'
  OBVIOUS
<1>1. /\ "unpack" \in run /\ sponge' = sponge
      /\ pulse' = pulse \cup {"unpack"} /\ run' = run \ {"unpack"}
      /\ UNCHANGED <<state, ctl, out>>
  BY DEF UnpackDone, Raise
<1> QED
  BY <1>1, RaiseStep

LEMMA CmpDoneStep == CoreInv /\ CmpDone => CoreInv'
<1> SUFFICES ASSUME CoreInv, CmpDone PROVE CoreInv'
  OBVIOUS
<1>1. /\ "cmp" \in run /\ sponge' = sponge
      /\ pulse' = pulse \cup {"cmp"} /\ run' = run \ {"cmp"}
      /\ UNCHANGED <<state, ctl, out>>
  BY DEF CmpDone, Raise
<1> QED
  BY <1>1, RaiseStep

LEMMA StartStep ==
    ASSUME CoreInv, NEW op \in {KEYGEN, ENCAPS, DECAPS}, NEW s, Start(op, s)
    PROVE  CoreInv'
<1>1. /\ state = "IDLE" /\ NoStart
      /\ state' \in {"KG_LOAD_SEED", "ENC_READ_PK", "DEC_READ"}
  BY DEF Start, FirstState, KEYGEN, ENCAPS, DECAPS
<1>2. ctl' = OnStart(ctl)
  BY DEF Start
<1>3. DOMAIN ctl' = Fields
  BY <1>2 DEF OnStart
<1>4. /\ ctl'.loop_i = 0 /\ ctl'.loop_j = 0 /\ ctl'.dec_j_idx = 0 /\ ctl'.ct_cap_idx = 0
      /\ ctl'.pwma_sent = FALSE /\ ctl'.kg_a_cache_active = FALSE
      /\ ctl'.kg_gm_started = FALSE
  BY <1>2 DEF OnStart
<1>5. ctl'.gm_stream_mode = ctl.gm_stream_mode
  BY <1>2 DEF OnStart
<1>6. Started({})
  BY <1>1, StartsNone
<1> QED
  BY <1>1, <1>3, <1>4, <1>5, <1>6

LEMMA TamperStep == ASSUME CoreInv, NEW n, Tamper(n) PROVE CoreInv'
<1>1. UNCHANGED <<state, ctl, sponge, run, pulse, out>>
  BY DEF Tamper
<1> QED
  BY <1>1

LEMMA SoftResetStep == CoreInv /\ SoftReset => CoreInv'
<1> SUFFICES ASSUME CoreInv, SoftReset PROVE CoreInv'
  OBVIOUS
<1>1. /\ state' = "IDLE" /\ sponge' = "idle" /\ run' = {} /\ pulse' = {}
      /\ out' = [gm |-> K * K, ctpack |-> K + 1, unpack |-> K + 1]
      /\ ctl' = ResetCtl
  BY DEF SoftReset
<1> QED
  BY <1>1

LEMMA CoreInvInit == Init => CoreInv
<1> SUFFICES ASSUME Init PROVE CoreInv
  OBVIOUS
<1>1. /\ state = "IDLE" /\ sponge = "idle" /\ run = {} /\ pulse = {}
      /\ out = [gm |-> K * K, ctpack |-> K + 1, unpack |-> K + 1]
      /\ ctl = ResetCtl
  BY DEF Init
<1> QED
  BY <1>1

-----------------------------------------------------------------------------
(* The invariant, and what it says of a core that is idle *)

LEMMA FsmStep == CoreInv /\ Fsm => CoreInv'
<1> SUFFICES ASSUME CoreInv, Fsm PROVE CoreInv'
  OBVIOUS
<1>1. KgPrfE => CoreInv'
  <2>1. \A noise : state = "KG_PRF_E" /\ Prf(noise, "KG_CBD_E") => CoreInv'
    BY PrfStep
  <2> QED
    BY <2>1, Zenon DEF KgPrfE
<1>2. KgPrfS => CoreInv'
  <2>1. \A noise : state = "KG_PRF_S" /\ Prf(noise, "KG_CBD_S") => CoreInv'
    BY PrfStep
  <2> QED
    BY <2>1, Zenon DEF KgPrfS
<1>3. KgCbdE \/ KgCbdS => CoreInv'
  BY SampleStep DEF KgCbdE, KgCbdS
<1>4. EncPrfR => CoreInv'
  <2>1. state = "ENC_PRF_R" /\ HashMessage(ctl) => CoreInv'
    BY HashMessageStep
  <2> QED
    BY <2>1, Zenon DEF EncPrfR
<1>5. DecNttU => CoreInv'
  <2>1. state = "DEC_NTT_U"
        /\ HashMessage([ctl EXCEPT !.dec_reenc_mode = TRUE, !.pwma_sent = FALSE,
                                   !.enc_ntt_phase = 0]) => CoreInv'
    BY HashMessageStep
  <2> QED
    BY <2>1, Zenon DEF DecNttU
<1>6. EncWriteSs \/ DecPack => CoreInv'
  BY WriteSecretStep DEF EncWriteSs, DecPack
<1> HIDE DEF CoreInv
<1> QED
  BY <1>1, <1>2, <1>3, <1>4, <1>5, <1>6, IdleStep, KgLoadSeedStep, KgHashGStep,
     KgNttEStep, KgDmaEStep, KgGenAStep, KgNttSStep, KgDmaSStep, KgPwmaStep,
     KgPackStep, KgHashPkStep, KgWriteRestStep, EncReadPkStep, EncLoadCoinsStep,
     EncCbdRStep, EncNttRStep, EncPwmaUStep, EncInttUStep, EncPwmaVStep,
     EncInttVStep, EncPackStep, DecReadStep, DecReadRestStep, DecReadCtStep,
     DecDecompStep, DecCmpStep, DecRkprfStep, Zenon DEF Fsm

LEMMA UnitStep == CoreInv /\ Unit => CoreInv'
<1> HIDE DEF CoreInv
<1> QED
  BY DigestDoneStep, PrfReadyStep, CbdDoneStep, NttDoneStep, GmOpenStep, GmDoneStep,
     CacheTakeStep, PwmaDoneStep, KgPackDoneStep, CtPackWordStep, CtPackDoneStep,
     UnpackPartStep, UnpackDoneStep, CmpDoneStep, Zenon DEF Unit

LEMMA HostStep == CoreInv /\ Host => CoreInv'
<1> HIDE DEF CoreInv
<1>1. CoreInv => \A op \in {KEYGEN, ENCAPS, DECAPS} : \A s : Start(op, s) => CoreInv'
  BY StartStep
<1>2. CoreInv => \A n : Tamper(n) => CoreInv'
  BY TamperStep
<1> QED
  BY <1>1, <1>2, SoftResetStep DEF Host

\* Each unit runs only where the FSM waits for it, after any number of
\* operations and of soft resets.
THEOREM CoreInvariant == Spec => []CoreInv
<1>1. CoreInv /\ UNCHANGED vars => CoreInv'
  BY SMTT(60) DEF vars, fsmVars
<1> HIDE DEF CoreInv
<1>2. CoreInv /\ [Next]_vars => CoreInv'
  BY <1>1, FsmStep, UnitStep, HostStep, Zenon DEF Next
<1> QED
  BY <1>2, CoreInvInit, PTL DEF Spec

\* An operation that ends, and a soft reset, leave the core as an operation
\* needs to find it: no unit running, the sponge free, no done output but the
\* packer's, the coefficient stream and the cache off.
THEOREM NothingLeftRunning == Spec => []QuiescentWhenIdle
<1>1. CoreInv => QuiescentWhenIdle
  <2> SUFFICES ASSUME CoreInv, state = "IDLE"
               PROVE  /\ run = {} /\ sponge = "idle" /\ pulse \subseteq {"ctpack"}
                      /\ ~ctl.gm_stream_mode /\ ~ctl.kg_a_cache_active
    BY Zenon DEF QuiescentWhenIdle
  <2>1. \A e \in Units : e \notin run
    OBVIOUS
  <2>2. \A e \in Units \ {"ctpack"} : e \notin pulse
    OBVIOUS
  <2> QED
    BY <2>1, <2>2
<1> HIDE DEF CoreInv
<1> QED
  BY <1>1, CoreInvariant, PTL

-----------------------------------------------------------------------------
(* The values.  From here on the control invariant is cited. *)

HIDE DEF CoreInv, CoreTypes, CbdWaits, NttTurn, NttWaits, PwmaTurn, PwmaWaits, PackWaits, SpongeWaits,
         MatrixWaits, StreamCount, Job, Off, Busy, Over, Units, DigestStates,
         MatrixStates, PackedStates, Fields, ResetCtl, Kept, Started, Idx, K, LastLoop

(* The values of an operation c, in the steps in which the FSM makes them. *)

\* The first n terms of a row of products.
Below(row, n) == {row[j] : j \in 0 .. n - 1}

Sigma3(c, n)  == Cbd(3, Sigma(c.seed[1]), n)
ErrorOf(c, i) == Ntt(Sigma3(c, K + i))
SecretOf(c, j) == Ntt(Sigma3(c, j))
MatrixOf(c, n) == A(Rho(c.seed[1]), n \div K, n % K)
TRow(c, i) == [j \in Idx |-> Mul(MatrixOf(c, K * i + j), SecretOf(c, j), TRUE)]
TSum(c, i, n) == Sum({ErrorOf(c, i)} \cup Below(TRow(c, i), n))

Key(c)  == IF c.op = DECAPS THEN c.ext.sk.pk ELSE c.ext.pk
Msg(c)  == IF c.op = DECAPS THEN indcpa_dec(c.ext.ct, c.ext.sk.s) ELSE c.seed[1]
Hash(c) == IF c.op = DECAPS THEN c.ext.sk.h ELSE H(c.ext.pk)
CoinsOf(c) == Coins(Msg(c), Hash(c))

RNoise(c, j) == Cbd(3, CoinsOf(c), j)
UNoise(c, i) == Cbd(2, CoinsOf(c), K + i)
VNoise(c)    == Cbd(2, CoinsOf(c), 2 * K)
URow(c, i) == [j \in Idx |-> Mul(A(Key(c).rho, j, i), Ntt(RNoise(c, j)), FALSE)]
VRow(c)    == [j \in Idx |-> Mul(Key(c).t[j], Ntt(RNoise(c, j)), FALSE)]
USum(c, i, n) == Sum(Below(URow(c, i), n))
VSum(c, n)    == Sum(Below(VRow(c), n))
UPoly(c, i) == Add(Intt(USum(c, i, K)), UNoise(c, i))
VPoly(c)    == AddMsg(Intt(VSum(c, K)), VNoise(c), Msg(c))
Ciphertext(c) ==
    [u |-> [i \in Idx |-> PackU(UPoly(c, i))], v |-> PackV(VPoly(c))]

UPart(c, j) == Unpack(c.ext.ct.u[j])
SRow(c)     == [j \in Idx |-> Mul(c.ext.sk.s[j], Ntt(UPart(c, j)), FALSE)]
SSum(c, n)  == Sum(Below(SRow(c), n))

ExpectedOf(c) ==
    CASE c.op = KEYGEN ->
           LET kp == crypto_kem_keypair(c.seed[1], c.seed[2])
           IN  [c.ext EXCEPT !.pk = kp.pk, !.sk = kp.sk]
      [] c.op = ENCAPS ->
           LET e == crypto_kem_enc(c.ext.pk, c.seed[1])
           IN  [c.ext EXCEPT !.ct = e.ct, !.ss = e.ss]
      [] c.op = DECAPS -> [c.ext EXCEPT !.ss = crypto_kem_dec(c.ext.ct, c.ext.sk)]

-----------------------------------------------------------------------------
(* Shapes *)

OnDomain(f, S) == f = [x \in S |-> f[x]]

MemFields == {"slot", "acc", "opnd", "ram", "noise", "ctram", "diff", "rho", "sigma",
              "z", "m", "kbar", "coins", "hpk"}

CtShape(ct) == OnDomain(ct, {"u", "v"}) /\ OnDomain(ct.u, Idx)
SkShape(sk) == OnDomain(sk, {"s", "pk", "h", "z"}) /\ OnDomain(sk.s, Idx)
ExtShape(e) == /\ OnDomain(e, {"pk", "sk", "ct", "ss"})
               /\ SkShape(e.sk) /\ CtShape(e.ct)

MemShape == /\ DOMAIN mem = MemFields
            /\ OnDomain(mem.slot, 0 .. 7) /\ OnDomain(mem.acc, Idx)
            /\ OnDomain(mem.opnd, Idx) /\ CtShape(mem.ctram)

-----------------------------------------------------------------------------
(* What the banks and registers hold in each state of the FSM *)

\* p goes through the NTT core and comes out as q.
Transforming(p, q, inverse) ==
    /\ ctl.ntt_sent => ctl.intt = inverse
    /\ "ntt" \notin pulse => mem.ram = p
    /\ "ntt" \in pulse => mem.ram = q

KgSeeded(c) ==
    /\ c.op = KEYGEN /\ mem.z = c.seed[2]
    /\ mem.rho = Rho(c.seed[1]) /\ mem.sigma = Sigma(c.seed[1])
    /\ ~ctl.ntt_source /\ ~ctl.dp_enable

KgSampled(prf, cbd, ntt, dma, p) ==
    /\ state = prf /\ ctl.hash_sent => mem.noise = p
    /\ state = cbd => mem.noise = p /\ ("cbd" \in pulse => mem.ram = p)
    /\ state = ntt => Transforming(p, Ntt(p), FALSE)
    /\ state = dma => mem.ram = Ntt(p)

KgErrors(c) ==
    /\ KgSeeded(c) /\ ext = c.ext
    /\ KgSampled("KG_PRF_E", "KG_CBD_E", "KG_NTT_E", "KG_DMA_E", Sigma3(c, ctl.loop_i + K))
    /\ \A i \in 0 .. ctl.loop_i - 1 : mem.acc[i] = Sum({ErrorOf(c, i)})

ErrorsIn(c) == \A i \in Idx : mem.acc[i] = Sum({ErrorOf(c, i)})
MatrixIn(c) == \A n \in 0 .. 3 : mem.slot[4 + n] = MatrixOf(c, n)

KgCache(c) ==
    ctl.kg_gm_started =>
        /\ ~ctl.gm_transposed
        /\ ctl.kg_a_cache_active =>
             /\ ctl.kg_a_cache_count \in 0 .. 3 /\ out["gm"] = ctl.kg_a_cache_count
             /\ \A n \in 0 .. 3 : n < ctl.kg_a_cache_count
                                      => mem.slot[4 + n] = MatrixOf(c, n)
        /\ ~ctl.kg_a_cache_active => MatrixIn(c)

SecretsTo(c, n) ==
    \A j \in Idx : j < n => /\ mem.slot[2 + j] = SecretOf(c, j)
                            /\ mem.opnd[j] = SecretOf(c, j)

KgSecrets(c) ==
    /\ KgSeeded(c) /\ ext = c.ext /\ ErrorsIn(c) /\ MatrixIn(c)
    /\ KgSampled("KG_PRF_S", "KG_CBD_S", "KG_NTT_S", "KG_DMA_S", Sigma3(c, ctl.loop_j))
    /\ SecretsTo(c, ctl.loop_j)

KgProducts(c) ==
    /\ KgSeeded(c) /\ ext = c.ext /\ MatrixIn(c) /\ SecretsTo(c, K)
    /\ \A i \in Idx : i < ctl.loop_i => mem.acc[i] = TSum(c, i, K)
    /\ \A i \in Idx : i > ctl.loop_i => mem.acc[i] = TSum(c, i, 0)
    /\ ctl.kg_poly_phase # 3 => mem.acc[ctl.loop_i] = TSum(c, ctl.loop_i, 0)
    /\ ctl.kg_poly_phase = 3 =>
         /\ "pwma" \notin pulse => mem.acc[ctl.loop_i] = TSum(c, ctl.loop_i, ctl.loop_j)
         /\ "pwma" \in pulse => mem.acc[ctl.loop_i] = TSum(c, ctl.loop_i, ctl.loop_j + 1)
    /\ ctl.pwma_sent => /\ ctl.bank = ctl.loop_i /\ ctl.operand_bank = ctl.loop_j
                        /\ ctl.accumulate /\ ctl.use_tomont = TRUE

KgOutput(c) ==
    /\ ext.pk = indcpa_keypair_pk(c.seed[1])
    /\ ext.sk.s = [j \in Idx |-> Secret(c.seed[1], j)]

KgPacking(c) ==
    /\ KgSeeded(c) /\ ext.ct = c.ext.ct /\ ext.ss = c.ext.ss
    /\ state = "KG_PACK" =>
         /\ \A i \in Idx : mem.acc[i] = TSum(c, i, K)
         /\ SecretsTo(c, K)
    /\ state # "KG_PACK" \/ "kgpack" \in pulse => KgOutput(c)
    /\ state = "KG_WRITE_REST" => mem.hpk = H(ext.pk)

\* An encryption has the public key and, once it is known, the message.
Encrypts(c) == c.op \in {ENCAPS, DECAPS} /\ ctl.bank = 0
PublicIn(c) ==
    mem.slot[0] = Key(c).t[0] /\ mem.slot[1] = Key(c).t[1] /\ mem.rho = Key(c).rho
Reads(c) == Encrypts(c) /\ ext = c.ext /\ ~ctl.dec_reenc_mode

EncReads(c) ==
    /\ Reads(c) /\ (ctl.pk_in_sk <=> c.op = DECAPS)
    /\ c.op = DECAPS => mem.opnd = c.ext.sk.s
    /\ ctl.sk_reload_done => /\ mem.slot[0] = Key(c).t[0]
                             /\ mem.slot[1] = Key(c).t[1]

EncHashes(c) ==
    /\ c.op = ENCAPS /\ Reads(c) /\ PublicIn(c)
    /\ state # "KG_HASH_PK" => mem.hpk = Hash(c)
    /\ state = "ENC_PRF_R" => mem.m = Msg(c)

DecReads(c) ==
    /\ c.op = DECAPS /\ Reads(c)
    /\ ctl.sk_reload_done \/ state # "DEC_READ" => mem.opnd = c.ext.sk.s
    /\ state = "DEC_READ" => (ctl.sk_reload_done => ctl.pk_in_sk)
    /\ state # "DEC_READ" => PublicIn(c)
    /\ state = "DEC_READ_CT" => mem.hpk = Hash(c) /\ mem.z = c.ext.sk.z

DecKeeps(c) == mem.ctram = c.ext.ct /\ mem.z = c.ext.sk.z

\* The phases of DEC_DECOMP.
DecUnpacks(c) ==
    ctl.dp_phase = 1 =>
      /\ out["unpack"] \in 0 .. 3
      /\ "unpack" \in pulse \/ ctl.unpack_done => out["unpack"] = 3
      /\ ctl.u0_loaded <=> out["unpack"] # 0
      /\ ctl.u0_started => ctl.u0_loaded /\ ctl.intt = FALSE
      /\ \A n \in 1 .. 2 : n < out["unpack"]
             => mem.slot[4 + n] = Unpack(Part(c.ext.ct, n))
      /\ ctl.u0_loaded /\ ~ctl.u0_done /\ "ntt" \notin pulse => mem.ram = UPart(c, 0)
      /\ ctl.u0_done \/ "ntt" \in pulse => mem.ram = Ntt(UPart(c, 0))

DecRow(c) ==
    /\ ctl.dp_phase \notin {0, 1} => /\ mem.slot[5] = UPart(c, 1)
                                     /\ mem.slot[6] = Unpack(c.ext.ct.v)
    /\ ctl.dp_phase = 2 =>
         /\ mem.ram = Ntt(UPart(c, ctl.dec_j_idx))
         /\ ctl.dec_j_idx # 0 /\ "pwma" \notin pulse
              => mem.acc[0] = SSum(c, ctl.dec_j_idx)
         /\ "pwma" \in pulse => mem.acc[0] = SSum(c, ctl.dec_j_idx + 1)
         /\ ctl.pwma_sent => /\ ctl.operand_bank = ctl.dec_j_idx
                             /\ ctl.accumulate = (ctl.dec_j_idx # 0)
                             /\ ctl.use_tomont = FALSE
    /\ ctl.dp_phase \in {4, 5} => ctl.dec_j_idx = 1 /\ mem.acc[0] = SSum(c, 1)
    /\ ctl.dp_phase = 5 => Transforming(UPart(c, 1), Ntt(UPart(c, 1)), FALSE)
    /\ ctl.dp_phase = 6 => mem.acc[0] = SSum(c, K)
    /\ ctl.dp_phase = 7 => Transforming(SSum(c, K), Intt(SSum(c, K)), TRUE)
    /\ ctl.dp_phase = 8 => mem.ram = Intt(SSum(c, K))

\* What a decapsulation holds while it decrypts.
DecHolds(c) ==
    c.op = DECAPS /\ Reads(c) /\ PublicIn(c) /\ DecKeeps(c) /\ mem.hpk = Hash(c)

DecDecrypts(c) ==
    /\ DecHolds(c)
    /\ state = "DEC_DECOMP" => /\ mem.opnd = c.ext.sk.s
                               /\ ctl.dp_phase # 0 => ctl.ntt_source
                               /\ DecUnpacks(c) /\ DecRow(c)
    /\ state = "DEC_NTT_U" => mem.m = Msg(c)

Encrypting(c) ==
    /\ Encrypts(c) /\ PublicIn(c) /\ mem.m = Msg(c)
    /\ mem.coins = CoinsOf(c) /\ mem.kbar = KBar(Msg(c), Hash(c))
    /\ (ctl.dec_reenc_mode <=> c.op = DECAPS)
    /\ c.op = DECAPS => DecKeeps(c)

OpndTo(c, n) == \A j \in Idx : j < n => mem.opnd[j] = Ntt(RNoise(c, j))
UNoiseFrom(c, n) == \A i \in Idx : i >= n => mem.slot[4 + i] = UNoise(c, i)
UPolyTo(c, n) == \A i \in Idx : i < n => mem.slot[4 + i] = UPoly(c, i)

EncSamples(c) ==
    /\ Encrypting(c) /\ ext = c.ext /\ ctl.enc_noise_kind \in 0 .. 2
    /\ ctl.enc_noise_kind = 0 =>
         /\ OpndTo(c, ctl.loop_j)
         /\ ctl.hash_sent => mem.noise = RNoise(c, ctl.loop_j)
         /\ "cbd" \in pulse => mem.ram = RNoise(c, ctl.loop_j)
    /\ ctl.enc_noise_kind # 0 => OpndTo(c, K)
    /\ ctl.enc_noise_kind = 1 =>
         /\ \A i \in Idx : i < ctl.loop_j => mem.slot[4 + i] = UNoise(c, i)
         /\ ctl.hash_sent => mem.noise = UNoise(c, ctl.loop_j)
         /\ "cbd" \in pulse => mem.slot[4 + ctl.loop_j] = UNoise(c, ctl.loop_j)
    /\ ctl.enc_noise_kind = 2 =>
         /\ UNoiseFrom(c, 0)
         /\ ctl.hash_sent => mem.noise = VNoise(c)
         /\ "cbd" \in pulse => mem.slot[6] = VNoise(c)

EncTransforms(c) ==
    /\ Encrypting(c) /\ ext = c.ext /\ ctl.enc_noise_kind = 0 /\ OpndTo(c, ctl.loop_j)
    /\ ctl.enc_ntt_phase = 0 => mem.ram = RNoise(c, ctl.loop_j)
    /\ ctl.enc_ntt_phase = 1 =>
         Transforming(RNoise(c, ctl.loop_j), Ntt(RNoise(c, ctl.loop_j)), FALSE)
    /\ ctl.enc_ntt_phase \notin {0, 1} => mem.ram = Ntt(RNoise(c, ctl.loop_j))

\* A product of a row runs with its operand bank, over the sum of those before.
RowRuns ==
    ctl.pwma_sent => /\ ctl.operand_bank = ctl.loop_j
                     /\ ctl.accumulate = (ctl.loop_j # 0) /\ ctl.use_tomont = FALSE

\* What the rows of products leave alone.
URowBase(c) ==
    /\ Encrypting(c) /\ ext = c.ext /\ OpndTo(c, K) /\ mem.slot[6] = VNoise(c)
    /\ UPolyTo(c, ctl.loop_i) /\ UNoiseFrom(c, ctl.loop_i)
VRowBase(c) ==
    /\ Encrypting(c) /\ ext = c.ext /\ OpndTo(c, K) /\ mem.slot[6] = VNoise(c)
    /\ UPolyTo(c, K)

EncRowU(c) ==
    /\ URowBase(c)
    /\ state = "ENC_PWMA_U" =>
         /\ ctl.dp_phase = 3 =>
              /\ ctl.gm_transposed /\ RowRuns
              /\ ctl.loop_j # 0 /\ "pwma" \notin pulse
                   => mem.acc[0] = USum(c, ctl.loop_i, ctl.loop_j)
              /\ "pwma" \in pulse => mem.acc[0] = USum(c, ctl.loop_i, ctl.loop_j + 1)
         /\ ctl.dp_phase = 4 => mem.acc[0] = USum(c, ctl.loop_i, K)
    /\ state = "ENC_INTT_U" =>
         /\ ctl.enc_ntt_phase = 1 =>
              Transforming(USum(c, ctl.loop_i, K), Intt(USum(c, ctl.loop_i, K)), TRUE)
         /\ ctl.enc_ntt_phase = 2 => mem.ram = Intt(USum(c, ctl.loop_i, K))

EncRowV(c) ==
    /\ VRowBase(c)
    /\ state = "ENC_PWMA_V" =>
         /\ ctl.dp_phase = 3 =>
              /\ ctl.dp_enable /\ ~ctl.gm_source /\ ~ctl.ntt_source /\ RowRuns
              /\ ctl.loop_j # 0 /\ "pwma" \notin pulse => mem.acc[0] = VSum(c, ctl.loop_j)
              /\ "pwma" \in pulse => mem.acc[0] = VSum(c, ctl.loop_j + 1)
         /\ ctl.dp_phase = 4 => mem.acc[0] = VSum(c, K)
    /\ state = "ENC_INTT_V" =>
         /\ ctl.enc_ntt_phase = 1 => Transforming(VSum(c, K), Intt(VSum(c, K)), TRUE)
         /\ ctl.enc_ntt_phase = 2 => mem.ram = Intt(VSum(c, K))

\* The n first parts of the ciphertext have gone by.
EncPacks(c) ==
    /\ Encrypting(c) /\ UPolyTo(c, K) /\ mem.slot[6] = VPoly(c)
    /\ ext.pk = c.ext.pk /\ ext.sk = c.ext.sk /\ ext.ss = c.ext.ss
    /\ c.op = DECAPS => ext = c.ext
    /\ ctl.ct_pack_sent =>
         /\ ctl.ct_cap_idx \in 0 .. 3 /\ out["ctpack"] = ctl.ct_cap_idx
         /\ c.op = ENCAPS => \A n \in Parts : n < ctl.ct_cap_idx
                                 => Part(ext.ct, n) = Part(Ciphertext(c), n)
         /\ c.op = DECAPS =>
              (mem.diff <=> \E n \in Parts :
                                /\ n < ctl.ct_cap_idx
                                /\ Part(Ciphertext(c), n) # Part(c.ext.ct, n))

EncWrites(c) ==
    /\ c.op = ENCAPS /\ mem.kbar = KBar(Msg(c), Hash(c))
    /\ ext.pk = c.ext.pk /\ ext.sk = c.ext.sk /\ ext.ss = c.ext.ss
    /\ ext.ct = Ciphertext(c)

DecCompares(c) ==
    /\ c.op = DECAPS /\ ext = c.ext
    /\ state \in {"DEC_CMP", "DEC_RKPRF"} => DecKeeps(c)
    /\ state = "DEC_CMP" => /\ mem.kbar = KBar(Msg(c), Hash(c))
                            /\ (mem.diff <=> Ciphertext(c) # c.ext.ct)
    /\ state = "DEC_RKPRF" => Ciphertext(c) # c.ext.ct
    /\ state = "DEC_PACK" => mem.kbar = crypto_kem_dec(c.ext.ct, c.ext.sk)

\* The frame of every state, then the values of each.
Frame(c) ==
    /\ MemShape /\ ExtShape(ext) /\ ExtShape(c.ext)
    /\ c.op \in {KEYGEN, ENCAPS, DECAPS}
    /\ state # "IDLE" => opcode = c.op /\ seed = c.seed /\ ~done

Values(c) ==
    /\ state = "IDLE" => (done => ext = ExpectedOf(c))
    /\ state \in {"KG_LOAD_SEED", "KG_HASH_G"} =>
         /\ c.op = KEYGEN /\ ext = c.ext /\ ~ctl.ntt_source /\ ~ctl.dp_enable
         /\ state = "KG_HASH_G" => mem.z = c.seed[2]
    /\ state \in {"KG_PRF_E", "KG_CBD_E", "KG_NTT_E", "KG_DMA_E"} => KgErrors(c)
    /\ state \in {"KG_NTT_E", "KG_DMA_E", "KG_GEN_A"} => KgCache(c)
    /\ state = "KG_GEN_A" => KgSeeded(c) /\ ext = c.ext /\ ErrorsIn(c)
    /\ state \in {"KG_PRF_S", "KG_CBD_S", "KG_NTT_S", "KG_DMA_S"} => KgSecrets(c)
    /\ state = "KG_PWMA_A_S" => KgProducts(c)
    /\ state \in {"KG_PACK", "KG_WRITE_REST"} => KgPacking(c)
    /\ state = "KG_HASH_PK" => IF c.op = ENCAPS THEN EncHashes(c) ELSE KgPacking(c)
    /\ state = "ENC_READ_PK" => EncReads(c)
    /\ state \in {"ENC_LOAD_COINS", "ENC_PRF_R"} => EncHashes(c)
    /\ state \in {"DEC_READ", "DEC_READ_REST", "DEC_READ_CT"} => DecReads(c)
    /\ state \in {"DEC_DECOMP", "DEC_NTT_U"} => DecDecrypts(c)
    /\ state = "ENC_CBD_R" => EncSamples(c)
    /\ state = "ENC_NTT_R" => EncTransforms(c)
    /\ state \in {"ENC_PWMA_U", "ENC_INTT_U"} => EncRowU(c)
    /\ state \in {"ENC_PWMA_V", "ENC_INTT_V"} => EncRowV(c)
    /\ state = "ENC_PACK" => EncPacks(c)
    /\ state = "ENC_WRITE_SS" => EncWrites(c)
    /\ state \in {"DEC_CMP", "DEC_RKPRF", "DEC_PACK"} => DecCompares(c)

DataOf(c) == Frame(c) /\ Values(c)
DataInv == \E c \in {call} : DataOf(c)

-----------------------------------------------------------------------------
(* Steps that leave the data alone *)

MemKept(S) == DOMAIN mem' = MemFields /\ \A f \in MemFields \ S : mem'[f] = mem[f]

\* The done outputs that a value waits for.
Watched == {"cbd", "ntt", "pwma", "kgpack", "unpack"}

Untouched ==
    /\ state' = state /\ mem' = mem /\ ext' = ext /\ Kept({})
    /\ \A e \in Watched : e \in pulse' <=> e \in pulse
    /\ \A e \in {"gm", "ctpack", "unpack"} : out'[e] = out[e]

LEMMA Stays ==
    ASSUME NEW c, Values(c), Untouched, state # "IDLE"
    PROVE  Values(c)'
<1> USE DEF Untouched, Kept, Fields, ResetCtl, Watched
<1>1. KgSeeded(c) => KgSeeded(c)'
  BY DEF KgSeeded
<1>2. KgErrors(c) => KgErrors(c)'
  BY <1>1 DEF KgErrors, KgSampled, Transforming
<1>3. KgCache(c) => KgCache(c)'
  BY DEF KgCache, MatrixIn
<1>4. KgSecrets(c) => KgSecrets(c)'
  BY <1>1 DEF KgSecrets, KgSampled, Transforming, ErrorsIn, MatrixIn, SecretsTo
<1>5. KgProducts(c) => KgProducts(c)'
  BY <1>1 DEF KgProducts, MatrixIn, SecretsTo
<1>6. KgPacking(c) => KgPacking(c)'
  BY <1>1 DEF KgPacking, SecretsTo, KgOutput
<1>7. EncReads(c) => EncReads(c)'
  BY DEF EncReads, Reads, Encrypts
<1>8. EncHashes(c) => EncHashes(c)'
  BY DEF EncHashes, Reads, Encrypts, PublicIn
<1>9. DecReads(c) => DecReads(c)'
  BY DEF DecReads, Reads, Encrypts, PublicIn
<1>10. DecDecrypts(c) => DecDecrypts(c)'
  BY DEF DecDecrypts, DecHolds, Reads, Encrypts, PublicIn, DecKeeps, DecUnpacks, DecRow, Transforming
<1>11. Encrypting(c) => Encrypting(c)'
  BY DEF Encrypting, Encrypts, PublicIn, DecKeeps
<1>12. EncSamples(c) => EncSamples(c)'
  BY <1>11 DEF EncSamples, OpndTo, UNoiseFrom
<1>13. EncTransforms(c) => EncTransforms(c)'
  BY <1>11 DEF EncTransforms, OpndTo, Transforming
<1>14. EncRowU(c) => EncRowU(c)'
  BY <1>11 DEF EncRowU, URowBase, OpndTo, UNoiseFrom, UPolyTo, RowRuns, Transforming
<1>15. EncRowV(c) => EncRowV(c)'
  BY <1>11 DEF EncRowV, VRowBase, OpndTo, UPolyTo, RowRuns, Transforming
<1>16. EncPacks(c) => EncPacks(c)'
  BY <1>11 DEF EncPacks, UPolyTo
<1>17. EncWrites(c) => EncWrites(c)'
  BY DEF EncWrites
<1>18. DecCompares(c) => DecCompares(c)'
  BY DEF DecCompares, DecKeeps
<1>19. KgSeeded(c) /\ ext = c.ext /\ ErrorsIn(c) => (KgSeeded(c) /\ ext = c.ext /\ ErrorsIn(c))'
  BY <1>1 DEF ErrorsIn
<1> QED
  BY <1>2, <1>3, <1>4, <1>5, <1>6, <1>7, <1>8, <1>9, <1>10, <1>12, <1>13, <1>14, <1>15,
     <1>16, <1>17, <1>18, <1>19 DEF Values

-----------------------------------------------------------------------------
(* What the control invariant says of the units a value waits for *)

UnitsAt(s) ==
    /\ "cbd" \in s => state \in {"KG_CBD_E", "KG_CBD_S", "ENC_CBD_R"} /\ ctl.cbd_sent
    /\ "ntt" \in s =>
         \/ state \in {"KG_NTT_E", "KG_NTT_S"} /\ ctl.ntt_sent
         \/ /\ state \in {"ENC_NTT_R", "ENC_INTT_U", "ENC_INTT_V"}
            /\ ctl.enc_ntt_phase = 1 /\ ctl.ntt_sent
         \/ state = "DEC_DECOMP" /\ ctl.dp_phase \in {5, 7} /\ ctl.ntt_sent
         \/ state = "DEC_DECOMP" /\ ctl.dp_phase = 1 /\ ctl.u0_started /\ ~ctl.u0_done
    /\ "pwma" \in s =>
         /\ ctl.pwma_sent
         /\ \/ state = "KG_PWMA_A_S" /\ ctl.kg_poly_phase = 3
            \/ state \in {"ENC_PWMA_U", "ENC_PWMA_V"} /\ ctl.dp_phase = 3
            \/ state = "DEC_DECOMP" /\ ctl.dp_phase = 2
    /\ "kgpack" \in s => state = "KG_PACK" /\ ctl.kg_pack_sent
    /\ "unpack" \in s => state = "DEC_DECOMP" /\ ctl.dp_phase = 1 /\ ~ctl.unpack_done

LEMMA UnitsWait ==
    ASSUME CoreInv
    PROVE  /\ UnitsAt(pulse) /\ UnitsAt(run)
           /\ \A e \in Watched : e \in run => e \notin pulse
           /\ DOMAIN ctl = Fields /\ ctl.loop_i \in Idx /\ ctl.loop_j \in Idx
           /\ ctl.dec_j_idx \in Idx
BY DEF CoreInv, CoreTypes, CbdWaits, NttWaits, NttTurn, PwmaWaits, PwmaTurn, PackWaits,
       Job, Off, Busy, Over, UnitsAt, Watched, Fields

\* A step of the FSM that starts no unit, or some, takes the done outputs back.
Cleared == \A e \in Watched : e \notin pulse'

LEMMA Clears ==
    ASSUME NEW E, StartUnits(E)
    PROVE  Cleared
BY DEF StartUnits, Held, Cleared, Watched

LEMMA ClearsNone ==
    ASSUME NoStart
    PROVE  Cleared
BY Clears DEF NoStart

LEMMA ClearsHash ==
    ASSUME NEW kind, StartHash(kind)
    PROVE  Cleared
BY DEF StartHash, Held, Cleared, Watched

LEMMA ExceptShape ==
    ASSUME NEW f, NEW S, OnDomain(f, S), NEW i, NEW x
    PROVE  OnDomain([f EXCEPT ![i] = x], S)
BY DEF OnDomain

\* A step of the core in the operation c.
Acts(c) ==
    CoreInv /\ DataOf(c) /\ state # "IDLE" /\ opcode' = opcode /\ seed' = seed

LEMMA CtlHas == ASSUME NEW c, Acts(c) PROVE DOMAIN ctl = Fields
BY UnitsWait DEF Acts

LEMMA FrameNext ==
    ASSUME NEW c, Acts(c), done' = done, MemShape', ext' = ext \/ ExtShape(ext')
    PROVE  Frame(c)'
BY DEF Acts, DataOf, Frame

LEMMA ShapeStays ==
    ASSUME NEW c, Acts(c), mem' = mem
    PROVE  MemShape'
BY DEF Acts, DataOf, Frame, MemShape

\* A register is written, and no bank.
LEMMA ShapeKept ==
    ASSUME NEW c, Acts(c), NEW S, MemKept(S), S \cap {"slot", "acc", "opnd", "ctram"} = {}
    PROVE  MemShape'
BY DEF Acts, DataOf, Frame, MemShape, MemKept, MemFields

\* A step ends with the values of the state it leads to.
LEMMA Ends ==
    ASSUME NEW c, Acts(c), done' = done, MemShape', ext' = ext \/ ExtShape(ext'), Values(c)'
    PROVE  DataOf(c)'
BY FrameNext DEF DataOf

\* A wait: nothing happens but that the done outputs of others are taken back.
LEMMA DataWaits ==
    ASSUME NEW c, Acts(c), Go(state, ctl), NoStart, Quiet, \A e \in Watched : e \notin pulse
    PROVE  DataOf(c)'
<1>1. Kept({}) /\ state' = state
  BY UnitsWait DEF Acts, Go, Latched, Kept, Fields, ResetCtl
<1>2. \A e \in {"gm", "ctpack", "unpack"} : out'[e] = out[e]
  BY DEF Acts, NoStart, StartUnits, CoreInv, CoreTypes
<1>3. \A e \in Watched : e \in pulse' <=> e \in pulse
  BY ClearsNone DEF Cleared
<1>4. mem' = mem /\ ext' = ext /\ done' = done
  BY DEF Quiet
<1>5. Values(c)'
  BY <1>1, <1>2, <1>3, <1>4, Stays DEF Acts, DataOf, Untouched
<1>6. MemShape'
  BY <1>4 DEF Acts, DataOf, Frame, MemShape
<1> QED
  BY <1>4, <1>5, <1>6, FrameNext DEF DataOf

\* The sponge is started on a digest.
LEMMA DigestStarts ==
    ASSUME NEW c, Acts(c), state \in DigestStates, LaunchDigest
    PROVE  DataOf(c)'
<1> USE DEF DigestStates
<1>0. state' = state
  BY DEF LaunchDigest, Go
<1>1. Kept({"hash_sent"})
  BY UnitsWait DEF Acts, LaunchDigest, Go, Latched, Kept, Fields, ResetCtl
<1>2. mem' = mem /\ ext' = ext /\ done' = done
  BY DEF LaunchDigest, Quiet
<1> SUFFICES Values(c)'
  <2>1. MemShape'
    BY <1>2 DEF Acts, DataOf, Frame, MemShape
  <2>2. Frame(c)'
    BY <1>2, <2>1, FrameNext DEF DataOf
  <2> QED
    BY <2>2 DEF DataOf
<1>3. KgSeeded(c) => KgSeeded(c)'
  BY <1>1, <1>2 DEF KgSeeded, Kept, Fields, ResetCtl
<1>4. CASE state = "KG_HASH_G"
  <2>1. /\ c.op = KEYGEN /\ ext' = c.ext /\ ~ctl'.ntt_source /\ ~ctl'.dp_enable
        /\ mem'.z = c.seed[2]
    BY <1>1, <1>2, <1>4 DEF Acts, DataOf, Values, Kept, Fields, ResetCtl
  <2> QED
    BY <1>0, <1>4, <2>1 DEF Values
<1>5. CASE state = "KG_HASH_PK" /\ c.op = ENCAPS
  <2>1. EncHashes(c)'
    BY <1>0, <1>1, <1>2, <1>5 DEF Acts, DataOf, Values, EncHashes, Reads, Encrypts, PublicIn,
           Kept, Fields, ResetCtl
  <2> QED
    BY <1>0, <1>5, <2>1 DEF Values
<1>6. CASE state = "KG_HASH_PK" /\ c.op # ENCAPS
  <2>1. KgPacking(c)'
    BY <1>0, <1>1, <1>2, <1>3, <1>6 DEF Acts, DataOf, Values, KgPacking, KgOutput,
           Kept, Fields, ResetCtl
  <2> QED
    BY <1>0, <1>6, <2>1 DEF Values
<1>7. CASE state = "ENC_PRF_R"
  <2>1. EncHashes(c)'
    BY <1>0, <1>1, <1>2, <1>7 DEF Acts, DataOf, Values, EncHashes, Reads, Encrypts, PublicIn,
           Kept, Fields, ResetCtl
  <2> QED
    BY <1>0, <1>7, <2>1 DEF Values
<1>8. CASE state = "DEC_NTT_U"
  <2>1. DecDecrypts(c)'
    BY <1>0, <1>1, <1>2, <1>8 DEF Acts, DataOf, Values, DecDecrypts, DecHolds, Reads, Encrypts, PublicIn,
           Kept, Fields, ResetCtl, DecKeeps
  <2> QED
    BY <1>0, <1>8, <2>1 DEF Values
<1>9. CASE state = "DEC_RKPRF"
  <2>1. DecCompares(c)'
    BY <1>0, <1>1, <1>2, <1>9 DEF Acts, DataOf, Values, DecCompares, DecKeeps,
           Kept, Fields, ResetCtl
  <2> QED
    BY <1>0, <1>9, <2>1 DEF Values
<1> QED
  BY <1>4, <1>5, <1>6, <1>7, <1>8, <1>9

LEMMA DigestWaits ==
    ASSUME NEW c, Acts(c), state \in DigestStates, Await("hash_sent", "digest")
    PROVE  DataOf(c)'
<1>1. \A e \in Watched : e \notin pulse
  BY UnitsWait DEF Acts, UnitsAt, Watched, DigestStates
<1> QED
  BY <1>1, DataWaits DEF Await, DigestStates

-----------------------------------------------------------------------------
(* Key generation *)

LEMMA KgLoadSeedData == ASSUME NEW c, Acts(c), KgLoadSeed PROVE DataOf(c)'
<1>1. state = "KG_LOAD_SEED" /\ state' = "KG_HASH_G" /\ ext' = ext /\ done' = done
  BY DEF KgLoadSeed, Go
<1>2. Kept({"hash_sent"})
  BY CtlHas DEF KgLoadSeed, Go, Latched, Kept, Fields, ResetCtl
<1>3. MemKept({"z"}) /\ mem'.z = seed[2]
  BY DEF Acts, DataOf, Frame, MemShape, KgLoadSeed, MemKept, MemFields
<1>4. /\ c.op = KEYGEN /\ ext' = c.ext /\ ~ctl'.ntt_source /\ ~ctl'.dp_enable
      /\ mem'.z = c.seed[2]
  BY <1>1, <1>2, <1>3 DEF Acts, DataOf, Frame, Values, Kept, Fields, ResetCtl
<1>5. Values(c)'
  BY <1>1, <1>4 DEF Values
<1> QED
  BY <1>1, <1>3, <1>5, ShapeKept, Ends

LEMMA KgHashGData == ASSUME NEW c, Acts(c), KgHashG PROVE DataOf(c)'
<1>0. state = "KG_HASH_G"
  BY DEF KgHashG
<1>1. CASE LaunchDigest
  BY <1>0, <1>1, DigestStarts DEF DigestStates
<1>2. CASE Await("hash_sent", "digest")
  BY <1>0, <1>2, DigestWaits DEF DigestStates
<1>3. CASE ~LaunchDigest /\ ~Await("hash_sent", "digest")
  <2>1. state' = "KG_PRF_E" /\ ext' = ext /\ done' = done
    BY <1>3 DEF KgHashG, Go
  <2> Go("KG_PRF_E", [ctl EXCEPT !.loop_i = 0, !.hash_sent = FALSE])
    BY <1>3 DEF KgHashG
  <2>2. Kept({"loop_i", "hash_sent"}) /\ ctl'.loop_i = 0 /\ ctl'.hash_sent = FALSE
    BY CtlHas DEF Go, Latched, Kept, Fields, ResetCtl
  <2>3. /\ MemKept({"rho", "sigma"})
        /\ mem'.rho = Rho(seed[1]) /\ mem'.sigma = Sigma(seed[1])
    BY <1>3 DEF Acts, DataOf, Frame, MemShape, KgHashG, MemKept, MemFields
  <2>4. KgSeeded(c)' /\ ext' = c.ext
    BY <1>0, <2>1, <2>2, <2>3 DEF Acts, DataOf, Frame, Values, KgSeeded, MemKept, MemFields,
       Kept, Fields, ResetCtl
  <2>5. KgErrors(c)'
    BY <2>1, <2>2, <2>4 DEF KgErrors, KgSampled
  <2>6. Values(c)'
    BY <2>1, <2>5 DEF Values
  <2> QED
    BY <2>1, <2>3, <2>6, ShapeKept, Ends
<1> QED
  BY <1>1, <1>2, <1>3

\* The sponge is started on noise p, and the sampler follows.
LEMMA PrfMoves ==
    ASSUME NEW c, Acts(c), NEW p, NEW next, Prf(p, next), ctl.hash_sent => mem.noise = p
    PROVE  /\ Kept({"hash_sent", "cbd_sent"}) /\ ext' = ext /\ done' = done /\ Cleared
           /\ MemKept({"noise"})
           /\ state' = state \/ state' = next
           /\ ctl'.hash_sent \/ state' = next => mem'.noise = p
<1>1. CASE LaunchPrf(p)
  <2>1. /\ Kept({"hash_sent"}) /\ ext' = ext /\ done' = done /\ state' = state
    BY <1>1, CtlHas DEF LaunchPrf, Go, Latched, Kept, Fields, ResetCtl
  <2>2. MemKept({"noise"}) /\ mem'.noise = p
    BY <1>1 DEF Acts, DataOf, Frame, MemShape, LaunchPrf, MemKept, MemFields
  <2>3. Cleared
    BY <1>1, ClearsHash DEF LaunchPrf
  <2> QED
    BY <2>1, <2>2, <2>3 DEF Kept
<1>2. CASE ~LaunchPrf(p)
  <2>1. ctl.hash_sent /\ NoStart /\ mem' = mem /\ ext' = ext /\ done' = done
    BY <1>2 DEF Prf, Quiet
  <2>2. MemKept({"noise"})
    BY <2>1 DEF Acts, DataOf, Frame, MemShape, MemKept
  <2>3. Kept({"hash_sent", "cbd_sent"}) /\ (state' = state \/ state' = next)
    BY <1>2, CtlHas, ZenonT(60) DEF Prf, Go, Latched, Kept, Fields, ResetCtl
  <2> QED
    BY <2>1, <2>2, <2>3, ClearsNone
<1> QED
  BY <1>1, <1>2

\* The sampler runs, and the FSM goes on when it is done.
LEMMA SampleMoves ==
    ASSUME NEW c, Acts(c), NEW next, Sample(next)
    PROVE  /\ Kept({"cbd_sent", "ntt_sent"}) /\ mem' = mem /\ ext' = ext /\ done' = done
           /\ Cleared
           /\ \/ state' = state
              \/ state' = next /\ "cbd" \in pulse /\ ctl'.ntt_sent = FALSE
<1>1. mem' = mem /\ ext' = ext /\ done' = done
  BY DEF Sample, Launch, Await, Quiet
<1>2. Cleared
  BY Clears, ClearsNone DEF Sample, Launch, Await
<1>3. CASE Launch("cbd_sent", ctl, "cbd")
  BY <1>1, <1>2, <1>3, CtlHas DEF Launch, Go, Latched, Kept, Fields, ResetCtl
<1>4. CASE Await("cbd_sent", "cbd")
  BY <1>1, <1>2, <1>4, CtlHas DEF Await, Go, Latched, Kept, Fields, ResetCtl
<1>5. CASE ~Launch("cbd_sent", ctl, "cbd") /\ ~Await("cbd_sent", "cbd")
  <2>1. "cbd" \in pulse /\ Go(next, [ctl EXCEPT !.ntt_sent = FALSE])
    BY <1>5 DEF Sample, Finished
  <2>2. /\ Kept({"cbd_sent", "ntt_sent"}) /\ state' = next /\ ctl'.ntt_sent = FALSE
    BY <2>1, CtlHas DEF Go, Latched, Kept, Fields, ResetCtl
  <2> QED
    BY <1>1, <1>2, <2>1, <2>2
<1> QED
  BY <1>3, <1>4, <1>5

LEMMA KgPrfEData == ASSUME NEW c, Acts(c), KgPrfE PROVE DataOf(c)'
<1> DEFINE p == Cbd(3, mem.sigma, ctl.loop_i + K)
<1>0. state = "KG_PRF_E" /\ Prf(p, "KG_CBD_E")
  BY DEF KgPrfE
<1>1. KgErrors(c) /\ mem.sigma = Sigma(c.seed[1])
  BY <1>0 DEF Acts, DataOf, Values, KgErrors, KgSeeded
<1>2. p = Sigma3(c, ctl.loop_i + K)
  BY <1>1 DEF Sigma3
<1>3. ctl.hash_sent => mem.noise = p
  BY <1>0, <1>1, <1>2 DEF KgErrors, KgSampled
<1> HIDE DEF p
<1>4. /\ Kept({"hash_sent", "cbd_sent"}) /\ ext' = ext /\ done' = done /\ Cleared
      /\ MemKept({"noise"})
      /\ state' = "KG_PRF_E" \/ state' = "KG_CBD_E"
      /\ ctl'.hash_sent \/ state' = "KG_CBD_E" => mem'.noise = p
  BY <1>0, <1>3, PrfMoves
<1>5. KgSeeded(c)'
  BY <1>1, <1>4 DEF KgErrors, KgSeeded, MemKept, MemFields, Kept, Fields, ResetCtl
<1>6. /\ ctl'.loop_i = ctl.loop_i /\ mem'.acc = mem.acc /\ "cbd" \notin pulse'
      /\ ext' = c.ext
  BY <1>1, <1>4 DEF KgErrors, MemKept, MemFields, Cleared, Watched, Kept, Fields, ResetCtl
<1>7. KgErrors(c)'
  BY <1>1, <1>2, <1>4, <1>5, <1>6 DEF KgErrors, KgSampled
<1>8. Values(c)'
  BY <1>4, <1>7 DEF Values
<1> QED
  BY <1>4, <1>8, ShapeKept, Ends

LEMMA KgPrfSData == ASSUME NEW c, Acts(c), KgPrfS PROVE DataOf(c)'
<1> DEFINE p == Cbd(3, mem.sigma, ctl.loop_j)
<1>0. state = "KG_PRF_S" /\ Prf(p, "KG_CBD_S")
  BY DEF KgPrfS
<1>1. KgSecrets(c) /\ mem.sigma = Sigma(c.seed[1])
  BY <1>0 DEF Acts, DataOf, Values, KgSecrets, KgSeeded
<1>2. p = Sigma3(c, ctl.loop_j)
  BY <1>1 DEF Sigma3
<1>3. ctl.hash_sent => mem.noise = p
  BY <1>0, <1>1, <1>2 DEF KgSecrets, KgSampled
<1> HIDE DEF p
<1>4. /\ Kept({"hash_sent", "cbd_sent"}) /\ ext' = ext /\ done' = done /\ Cleared
      /\ MemKept({"noise"})
      /\ state' = "KG_PRF_S" \/ state' = "KG_CBD_S"
      /\ ctl'.hash_sent \/ state' = "KG_CBD_S" => mem'.noise = p
  BY <1>0, <1>3, PrfMoves
<1>5. KgSeeded(c)' /\ ErrorsIn(c)' /\ MatrixIn(c)'
  BY <1>1, <1>4 DEF KgSecrets, KgSeeded, ErrorsIn, MatrixIn, MemKept, MemFields,
     Kept, Fields, ResetCtl
<1>6. /\ ctl'.loop_j = ctl.loop_j /\ "cbd" \notin pulse' /\ ext' = c.ext
      /\ mem'.slot = mem.slot /\ mem'.opnd = mem.opnd
  BY <1>1, <1>4 DEF KgSecrets, MemKept, MemFields, Cleared, Watched, Kept, Fields, ResetCtl
<1>7. KgSecrets(c)'
  BY <1>1, <1>2, <1>4, <1>5, <1>6 DEF KgSecrets, KgSampled, SecretsTo
<1>8. Values(c)'
  BY <1>4, <1>7 DEF Values
<1> QED
  BY <1>4, <1>8, ShapeKept, Ends

LEMMA KgCbdEData == ASSUME NEW c, Acts(c), KgCbdE PROVE DataOf(c)'
<1>0. state = "KG_CBD_E" /\ Sample("KG_NTT_E")
  BY DEF KgCbdE
<1>1. KgErrors(c)
  BY <1>0 DEF Acts, DataOf, Values
<1>2. /\ Kept({"cbd_sent", "ntt_sent"}) /\ mem' = mem /\ ext' = ext /\ done' = done
      /\ Cleared
      /\ \/ state' = "KG_CBD_E"
         \/ state' = "KG_NTT_E" /\ "cbd" \in pulse /\ ctl'.ntt_sent = FALSE
  BY <1>0, SampleMoves
<1>3. KgSeeded(c)'
  BY <1>1, <1>2 DEF KgErrors, KgSeeded, Kept, Fields, ResetCtl
<1>4. KgErrors(c)'
  BY <1>0, <1>1, <1>2, <1>3 DEF KgErrors, KgSampled, Transforming, Cleared, Watched,
     Kept, Fields, ResetCtl
<1>5. ~ctl'.kg_gm_started
  BY <1>0, <1>2 DEF Acts, CoreInv, MatrixWaits, Kept, Fields, ResetCtl
<1>6. Values(c)'
  BY <1>2, <1>4, <1>5 DEF Values, KgCache
<1> QED
  BY <1>2, <1>6, ShapeStays, Ends

LEMMA KgCbdSData == ASSUME NEW c, Acts(c), KgCbdS PROVE DataOf(c)'
<1>0. state = "KG_CBD_S" /\ Sample("KG_NTT_S")
  BY DEF KgCbdS
<1>1. KgSecrets(c)
  BY <1>0 DEF Acts, DataOf, Values
<1>2. /\ Kept({"cbd_sent", "ntt_sent"}) /\ mem' = mem /\ ext' = ext /\ done' = done
      /\ Cleared
      /\ \/ state' = "KG_CBD_S"
         \/ state' = "KG_NTT_S" /\ "cbd" \in pulse /\ ctl'.ntt_sent = FALSE
  BY <1>0, SampleMoves
<1>3. KgSeeded(c)' /\ ErrorsIn(c)' /\ MatrixIn(c)'
  BY <1>1, <1>2 DEF KgSecrets, KgSeeded, ErrorsIn, MatrixIn, Kept, Fields, ResetCtl
<1>4. KgSecrets(c)'
  BY <1>0, <1>1, <1>2, <1>3 DEF KgSecrets, KgSampled, Transforming, SecretsTo, Cleared, Watched,
     Kept, Fields, ResetCtl
<1>5. Values(c)'
  BY <1>2, <1>4 DEF Values
<1> QED
  BY <1>2, <1>5, ShapeStays, Ends

LEMMA KgNttEData == ASSUME NEW c, Acts(c), KgNttE PROVE DataOf(c)'
<1>0. state = "KG_NTT_E"
  BY DEF KgNttE
<1>1. KgErrors(c) /\ KgCache(c)
  BY <1>0 DEF Acts, DataOf, Values
<1>2. mem' = mem /\ ext' = ext /\ done' = done
  BY DEF KgNttE, Await, Quiet
<1>3. CASE ~ctl.ntt_sent
  <2> DEFINE generate == LastLoop(ctl.loop_i) /\ ~ctl.kg_gm_started
             d == IF generate THEN StartCache(ctl) ELSE ctl
  <2>1. /\ Go(state, [d EXCEPT !.ntt_sent = TRUE, !.intt = FALSE])
        /\ StartUnits({"ntt"} \cup IF generate THEN {"gm"} ELSE {})
    BY <1>3 DEF KgNttE, Await, Finished
  <2>2. Cleared /\ state' = "KG_NTT_E"
    BY <1>0, <2>1, Clears DEF Go
  <2>3. /\ DOMAIN ctl' = Fields /\ ctl'.ntt_sent = TRUE /\ ctl'.intt = FALSE
        /\ \A f \in {"loop_i", "ntt_source", "dp_enable"} : ctl'[f] = ctl[f]
    BY <2>1, CtlHas DEF Go, Latched, StartCache, Fields, ResetCtl
  <2>4. KgSeeded(c)'
    BY <1>1, <1>2, <2>3 DEF KgErrors, KgSeeded
  <2>5. "ntt" \notin pulse
    BY <1>0, <1>3, UnitsWait DEF Acts, UnitsAt
  <2>6. KgErrors(c)'
    BY <1>0, <1>1, <1>2, <2>2, <2>3, <2>4, <2>5
       DEF KgErrors, KgSampled, Transforming, Cleared, Watched
  <2>7. CASE generate
    <3>1. /\ ctl'.gm_transposed = FALSE /\ ctl'.kg_a_cache_active = TRUE
          /\ ctl'.kg_a_cache_count = 0
      BY <2>1, <2>7, CtlHas DEF Go, Latched, StartCache, Fields, ResetCtl
    <3>2. "gm" \notin run /\ "gm" \in DOMAIN out
      BY <1>0, <2>7 DEF Acts, CoreInv, CoreTypes, MatrixWaits, Off
    <3>3. out'["gm"] = 0
      BY <2>1, <2>7, <3>2 DEF StartUnits
    <3> QED
      BY <1>2, <2>2, <2>6, <3>1, <3>3, Ends, ShapeStays DEF KgCache, Values
  <2>8. CASE ~generate
    <3>1. Kept({"ntt_sent", "intt"})
      BY <2>1, <2>8, CtlHas DEF Go, Latched, Kept, Fields, ResetCtl
    <3>2. out'["gm"] = out["gm"]
      BY <2>1, <2>8 DEF Acts, CoreInv, CoreTypes, StartUnits
    <3>3. KgCache(c)'
      BY <1>1, <1>2, <3>1, <3>2 DEF KgCache, MatrixIn, Kept, Fields, ResetCtl
    <3>4. Values(c)'
      BY <2>2, <2>6, <3>3 DEF Values
    <3> QED
      BY <1>2, <3>4, Ends, ShapeStays
  <2> QED
    BY <2>7, <2>8
<1>4. CASE Await("ntt_sent", "ntt")
  <2>1. \A e \in Watched : e \notin pulse
    BY <1>0, <1>4, UnitsWait DEF Acts, UnitsAt, Watched, Await
  <2> QED
    BY <1>4, <2>1, DataWaits DEF Await
<1>5. CASE Finished("ntt_sent", "ntt") /\ Go("KG_DMA_E", ctl) /\ NoStart
  <2>1. state' = "KG_DMA_E" /\ Kept({}) /\ "ntt" \in pulse
    BY <1>5, CtlHas DEF Finished, Go, Latched, Kept, Fields, ResetCtl
  <2>2. out'["gm"] = out["gm"]
    BY <1>5 DEF Acts, CoreInv, CoreTypes, NoStart, StartUnits
  <2>3. KgSeeded(c)' /\ KgCache(c)'
    BY <1>1, <1>2, <2>1, <2>2 DEF KgErrors, KgSeeded, KgCache, MatrixIn, Kept, Fields, ResetCtl
  <2>4. KgErrors(c)'
    BY <1>0, <1>1, <1>2, <2>1, <2>3 DEF KgErrors, KgSampled, Transforming, Kept, Fields, ResetCtl
  <2>5. Values(c)'
    BY <2>1, <2>3, <2>4 DEF Values
  <2> QED
    BY <1>2, <2>5, Ends, ShapeStays
<1> QED
  BY <1>3, <1>4, <1>5 DEF KgNttE

LEMMA KgNttSData == ASSUME NEW c, Acts(c), KgNttS PROVE DataOf(c)'
<1>0. state = "KG_NTT_S"
  BY DEF KgNttS
<1>1. KgSecrets(c)
  BY <1>0 DEF Acts, DataOf, Values
<1>2. mem' = mem /\ ext' = ext /\ done' = done
  BY DEF KgNttS, Launch, Await, Quiet
<1>3. CASE Launch("ntt_sent", [ctl EXCEPT !.intt = FALSE], "ntt")
  <2>1. /\ state' = "KG_NTT_S" /\ Kept({"ntt_sent", "intt"}) /\ ctl'.intt = FALSE
    BY <1>0, <1>3, CtlHas DEF Launch, Go, Latched, Kept, Fields, ResetCtl
  <2>2. Cleared /\ "ntt" \notin pulse
    BY <1>0, <1>3, Clears, UnitsWait DEF Acts, Launch, UnitsAt
  <2>3. KgSeeded(c)' /\ ErrorsIn(c)' /\ MatrixIn(c)'
    BY <1>1, <1>2, <2>1 DEF KgSecrets, KgSeeded, ErrorsIn, MatrixIn, Kept, Fields, ResetCtl
  <2>4. KgSecrets(c)'
    BY <1>0, <1>1, <1>2, <2>1, <2>2, <2>3 DEF KgSecrets, KgSampled, Transforming, SecretsTo,
       Cleared, Watched, Kept, Fields, ResetCtl
  <2>5. Values(c)'
    BY <2>1, <2>4 DEF Values
  <2> QED
    BY <1>2, <2>5, Ends, ShapeStays
<1>4. CASE Await("ntt_sent", "ntt")
  <2>1. \A e \in Watched : e \notin pulse
    BY <1>0, <1>4, UnitsWait DEF Acts, UnitsAt, Watched, Await
  <2> QED
    BY <1>4, <2>1, DataWaits DEF Await
<1>5. CASE Finished("ntt_sent", "ntt") /\ Go("KG_DMA_S", ctl) /\ NoStart
  <2>1. state' = "KG_DMA_S" /\ Kept({}) /\ "ntt" \in pulse
    BY <1>5, CtlHas DEF Finished, Go, Latched, Kept, Fields, ResetCtl
  <2>2. KgSeeded(c)' /\ ErrorsIn(c)' /\ MatrixIn(c)'
    BY <1>1, <1>2, <2>1 DEF KgSecrets, KgSeeded, ErrorsIn, MatrixIn, Kept, Fields, ResetCtl
  <2>3. KgSecrets(c)'
    BY <1>0, <1>1, <1>2, <2>1, <2>2 DEF KgSecrets, KgSampled, Transforming, SecretsTo,
       Kept, Fields, ResetCtl
  <2>4. Values(c)'
    BY <2>1, <2>3 DEF Values
  <2> QED
    BY <1>2, <2>4, Ends, ShapeStays
<1> QED
  BY <1>3, <1>4, <1>5 DEF KgNttS

\* A bank and an accumulator, or an operand, are written together.
LEMMA KgDmaEData == ASSUME NEW c, Acts(c), KgDmaE PROVE DataOf(c)'
<1>0. state = "KG_DMA_E" /\ ext' = ext /\ done' = done /\ NoStart
  BY DEF KgDmaE
<1>1. KgErrors(c) /\ KgCache(c) /\ mem.ram = ErrorOf(c, ctl.loop_i)
  <2>1. KgErrors(c) /\ KgCache(c)
    BY <1>0 DEF Acts, DataOf, Values
  <2>2. mem.ram = Ntt(Sigma3(c, ctl.loop_i + K)) /\ ctl.loop_i + K = K + ctl.loop_i
    BY <1>0, <2>1, UnitsWait DEF Acts, KgErrors, KgSampled, Idx, K
  <2> QED
    BY <2>1, <2>2 DEF ErrorOf
<1>2. /\ MemKept({"slot", "acc"})
      /\ mem'.slot = [mem.slot EXCEPT ![ctl.loop_i] = mem.ram]
      /\ mem'.acc = [mem.acc EXCEPT ![ctl.loop_i] = Sum({mem.ram})]
  BY DEF Acts, DataOf, Frame, MemShape, KgDmaE, MemKept, MemFields
<1>3. MemShape'
  BY <1>2, ExceptShape DEF Acts, DataOf, Frame, MemShape, MemKept, MemFields
<1>4. ctl.loop_i \in Idx /\ out'["gm"] = out["gm"]
  BY <1>0, UnitsWait DEF Acts, CoreInv, CoreTypes, NoStart, StartUnits
<1>5. /\ mem'.acc[ctl.loop_i] = Sum({ErrorOf(c, ctl.loop_i)})
      /\ \A i \in 0 .. ctl.loop_i - 1 : mem'.acc[i] = Sum({ErrorOf(c, i)})
  BY <1>1, <1>2, <1>4 DEF Acts, DataOf, Frame, MemShape, OnDomain, KgErrors, Idx, K
<1>6. \A n \in 0 .. 3 : mem'.slot[4 + n] = mem.slot[4 + n]
  BY <1>2, <1>4 DEF Acts, DataOf, Frame, MemShape, OnDomain, Idx, K
<1>7. /\ mem'.z = c.seed[2] /\ mem'.rho = Rho(c.seed[1]) /\ mem'.sigma = Sigma(c.seed[1])
      /\ ext' = c.ext
  BY <1>0, <1>1, <1>2 DEF KgErrors, KgSeeded, MemKept, MemFields
<1>8. CASE LastLoop(ctl.loop_i)
  <2>1. Go("KG_GEN_A", [ctl EXCEPT !.loop_i = 0, !.loop_j = 0])
    BY <1>8 DEF KgDmaE
  <2>2. state' = "KG_GEN_A" /\ Kept({"loop_i", "loop_j"})
    BY <2>1, CtlHas DEF Go, Latched, Kept, Fields, ResetCtl
  <2>3. KgSeeded(c)'
    BY <1>1, <1>7, <2>2 DEF KgErrors, KgSeeded, Kept, Fields, ResetCtl
  <2>4. ErrorsIn(c)'
    BY <1>4, <1>5, <1>8 DEF ErrorsIn, LastLoop, Idx, K
  <2>5. KgCache(c)'
    BY <1>1, <1>4, <1>6, <2>2 DEF KgCache, MatrixIn, Kept, Fields, ResetCtl
  <2>6. Values(c)'
    BY <1>7, <2>2, <2>3, <2>4, <2>5 DEF Values
  <2> QED
    BY <1>0, <1>3, <2>6, Ends
<1>9. CASE ~LastLoop(ctl.loop_i)
  <2>1. Go("KG_PRF_E", [ctl EXCEPT !.loop_i = @ + 1, !.hash_sent = FALSE])
    BY <1>9 DEF KgDmaE
  <2>2. /\ state' = "KG_PRF_E" /\ Kept({"loop_i", "hash_sent"})
        /\ ctl'.loop_i = ctl.loop_i + 1 /\ ctl'.hash_sent = FALSE
    BY <2>1, CtlHas DEF Go, Latched, Kept, Fields, ResetCtl
  <2>3. KgSeeded(c)'
    BY <1>1, <1>7, <2>2 DEF KgErrors, KgSeeded, Kept, Fields, ResetCtl
  <2>4. \A i \in 0 .. ctl'.loop_i - 1 : mem'.acc[i] = Sum({ErrorOf(c, i)})
    <3> SUFFICES ASSUME NEW i \in 0 .. ctl.loop_i PROVE mem'.acc[i] = Sum({ErrorOf(c, i)})
      BY <1>4, <2>2 DEF Idx, K
    <3>1. i = ctl.loop_i \/ i \in 0 .. ctl.loop_i - 1
      BY <1>4 DEF Idx, K
    <3> QED
      BY <1>5, <3>1
  <2>5. KgErrors(c)'
    BY <1>7, <2>2, <2>3, <2>4 DEF KgErrors, KgSampled
  <2>6. Values(c)'
    BY <2>2, <2>5 DEF Values
  <2> QED
    BY <1>0, <1>3, <2>6, Ends
<1> QED
  BY <1>8, <1>9

LEMMA KgGenAData == ASSUME NEW c, Acts(c), KgGenA PROVE DataOf(c)'
<1>0. state = "KG_GEN_A" /\ mem' = mem /\ ext' = ext /\ done' = done
  BY DEF KgGenA, Quiet
<1>1. KgSeeded(c) /\ ext = c.ext /\ ErrorsIn(c) /\ KgCache(c)
  BY <1>0 DEF Acts, DataOf, Values
<1>2. ErrorsIn(c)'
  BY <1>0, <1>1 DEF ErrorsIn
<1>3. CASE ~ctl.kg_gm_started
  <2>1. Go(state, StartCache(ctl)) /\ StartUnits({"gm"})
    BY <1>3 DEF KgGenA
  <2>2. /\ state' = "KG_GEN_A" /\ ctl'.gm_transposed = FALSE
        /\ ctl'.kg_a_cache_active = TRUE /\ ctl'.kg_a_cache_count = 0
        /\ ctl'.ntt_source = ctl.ntt_source /\ ctl'.dp_enable = ctl.dp_enable
    BY <1>0, <2>1, CtlHas DEF Go, Latched, StartCache, Fields, ResetCtl
  <2>3. "gm" \notin run /\ "gm" \in DOMAIN out
    BY <1>0, <1>3 DEF Acts, CoreInv, CoreTypes, MatrixWaits, Off
  <2>4. out'["gm"] = 0
    BY <2>1, <2>3 DEF StartUnits
  <2>5. KgSeeded(c)' /\ KgCache(c)'
    BY <1>0, <1>1, <2>2, <2>4 DEF KgSeeded, KgCache
  <2>6. Values(c)'
    BY <1>0, <1>1, <1>2, <2>2, <2>5 DEF Values
  <2> QED
    BY <1>0, <2>6, ShapeStays, Ends
<1>4. CASE ctl.kg_gm_started /\ MatrixReady
  <2>1. Go("KG_PRF_S", [ctl EXCEPT !.gm_sent = FALSE, !.loop_i = 0,
                                   !.gm_stream_mode = FALSE,
                                   !.loop_j = 0, !.hash_sent = FALSE])
    BY <1>4 DEF KgGenA
  <2>2. /\ state' = "KG_PRF_S"
        /\ ctl'.loop_j = 0 /\ ctl'.hash_sent = FALSE
        /\ ctl'.ntt_source = ctl.ntt_source /\ ctl'.dp_enable = ctl.dp_enable
    BY <2>1, CtlHas DEF Go, Latched, Fields, ResetCtl
  <2>3. MatrixIn(c)
    BY <1>0, <1>1, <1>4 DEF KgCache, MatrixReady, Acts, CoreInv, MatrixWaits
  <2>4. KgSeeded(c)' /\ MatrixIn(c)'
    BY <1>0, <1>1, <2>2, <2>3 DEF KgSeeded, MatrixIn
  <2>5. SecretsTo(c, ctl.loop_j)'
    BY <2>2 DEF SecretsTo, Idx, K
  <2>6. KgSecrets(c)'
    BY <1>0, <1>1, <1>2, <2>2, <2>4, <2>5 DEF KgSecrets, KgSampled
  <2>7. Values(c)'
    BY <2>2, <2>6 DEF Values
  <2> QED
    BY <1>0, <2>7, ShapeStays, Ends
<1>5. CASE ctl.kg_gm_started /\ ~MatrixReady
  <2>1. Go(state, ctl) /\ NoStart /\ Quiet
    BY <1>5 DEF KgGenA
  <2>2. \A e \in Watched : e \notin pulse
    BY <1>0, UnitsWait DEF Acts, UnitsAt, Watched
  <2> QED
    BY <2>1, <2>2, DataWaits
<1> QED
  BY <1>3, <1>4, <1>5

LEMMA NoProducts == ASSUME NEW row PROVE Below(row, 0) = {}
BY DEF Below

LEMMA NextProduct ==
    ASSUME NEW row, NEW n \in Idx
    PROVE  Below(row, n + 1) = Below(row, n) \cup {row[n]}
BY DEF Below, Idx, K

LEMMA KgDmaSData == ASSUME NEW c, Acts(c), KgDmaS PROVE DataOf(c)'
<1>0. state = "KG_DMA_S" /\ ext' = ext /\ done' = done /\ NoStart
  BY DEF KgDmaS
<1>1. KgSecrets(c)
  BY <1>0 DEF Acts, DataOf, Values
<1>2. mem.ram = SecretOf(c, ctl.loop_j) /\ ctl.loop_j \in Idx
  BY <1>0, <1>1, UnitsWait DEF Acts, KgSecrets, KgSampled, SecretOf
<1>3. /\ MemKept({"slot", "opnd"})
      /\ mem'.slot = [mem.slot EXCEPT ![2 + ctl.loop_j] = mem.ram]
      /\ mem'.opnd = [mem.opnd EXCEPT ![ctl.loop_j] = mem.ram]
  BY DEF Acts, DataOf, Frame, MemShape, KgDmaS, MemKept, MemFields
<1>4. MemShape'
  <2>1. OnDomain(mem.slot, 0 .. 7) /\ OnDomain(mem.opnd, Idx)
    BY DEF Acts, DataOf, Frame, MemShape
  <2>2. OnDomain(mem'.slot, 0 .. 7)
    BY <1>3, <2>1 DEF OnDomain
  <2>3. OnDomain(mem'.opnd, Idx)
    BY <1>3, <2>1 DEF OnDomain
  <2> QED
    BY <1>3, <2>2, <2>3 DEF Acts, DataOf, Frame, MemShape, MemKept, MemFields
<1>5. \A j \in Idx : j < ctl.loop_j + 1 => /\ mem'.slot[2 + j] = SecretOf(c, j)
                                           /\ mem'.opnd[j] = SecretOf(c, j)
  BY <1>1, <1>2, <1>3
     DEF Acts, DataOf, Frame, MemShape, OnDomain, KgSecrets, SecretsTo, Idx, K
<1>6. MatrixIn(c)'
  <2>1. \A n \in 0 .. 3 : mem'.slot[4 + n] = mem.slot[4 + n]
    BY <1>2, <1>3 DEF Acts, DataOf, Frame, MemShape, OnDomain, Idx, K
  <2> QED
    BY <1>1, <2>1 DEF KgSecrets, MatrixIn
<1>7. /\ mem'.z = c.seed[2] /\ mem'.rho = Rho(c.seed[1]) /\ mem'.sigma = Sigma(c.seed[1])
      /\ ext' = c.ext /\ mem'.acc = mem.acc /\ c.op = KEYGEN
      /\ ~ctl.ntt_source /\ ~ctl.dp_enable
  BY <1>0, <1>1, <1>3 DEF KgSecrets, KgSeeded, MemKept, MemFields
<1>8. ErrorsIn(c)'
  BY <1>1, <1>7 DEF KgSecrets, ErrorsIn
<1>9. CASE LastLoop(ctl.loop_j)
  <2>1. Go("KG_PWMA_A_S",
           [ctl EXCEPT !.loop_i = 0, !.loop_j = 0, !.pwma_sent = FALSE,
                       !.gm_sent = FALSE, !.kg_poly_phase = 0,
                       !.kg_gm_started = FALSE, !.kg_enable = TRUE])
    BY <1>9 DEF KgDmaS
  <2>2. /\ state' = "KG_PWMA_A_S" /\ ctl'.loop_i = 0 /\ ctl'.pwma_sent = FALSE
        /\ ctl'.kg_poly_phase = 0
        /\ ctl'.ntt_source = ctl.ntt_source /\ ctl'.dp_enable = ctl.dp_enable
    BY <2>1, CtlHas DEF Go, Latched, Fields, ResetCtl
  <2>3. KgSeeded(c)' /\ SecretsTo(c, K)'
    BY <1>2, <1>5, <1>7, <1>9, <2>2 DEF KgSeeded, SecretsTo, LastLoop, Idx, K
  <2>4. \A i \in Idx : TSum(c, i, 0) = Sum({ErrorOf(c, i)})
    BY NoProducts DEF TSum
  <2>5. KgProducts(c)'
    BY <1>6, <1>7, <1>8, <2>2, <2>3, <2>4 DEF KgProducts, ErrorsIn, Idx, K
  <2>6. Values(c)'
    BY <2>2, <2>5 DEF Values
  <2> QED
    BY <1>0, <1>4, <2>6, Ends
<1>10. CASE ~LastLoop(ctl.loop_j)
  <2>1. Go("KG_PRF_S", [ctl EXCEPT !.loop_j = @ + 1, !.hash_sent = FALSE])
    BY <1>10 DEF KgDmaS
  <2>2. /\ state' = "KG_PRF_S" /\ ctl'.loop_j = ctl.loop_j + 1 /\ ctl'.hash_sent = FALSE
        /\ ctl'.ntt_source = ctl.ntt_source /\ ctl'.dp_enable = ctl.dp_enable
    BY <2>1, CtlHas DEF Go, Latched, Fields, ResetCtl
  <2>3. KgSeeded(c)'
    BY <1>7, <2>2 DEF KgSeeded
  <2>4. SecretsTo(c, ctl.loop_j)'
    BY <1>5, <2>2 DEF SecretsTo
  <2>5. KgSecrets(c)'
    BY <1>6, <1>7, <1>8, <2>2, <2>3, <2>4 DEF KgSecrets, KgSampled
  <2>6. Values(c)'
    BY <2>2, <2>5 DEF Values
  <2> QED
    BY <1>0, <1>4, <2>6, Ends
<1> QED
  BY <1>9, <1>10

LEMMA KgPwmaData == ASSUME NEW c, Acts(c), KgPwma PROVE DataOf(c)'
<1>0. state = "KG_PWMA_A_S" /\ mem' = mem /\ ext' = ext /\ done' = done
  BY DEF KgPwma, Product, Launch, Await, Quiet
<1>1. KgProducts(c) /\ ctl.loop_i \in Idx /\ ctl.loop_j \in Idx
  BY <1>0, UnitsWait DEF Acts, DataOf, Values
<1>2. /\ MatrixIn(c)' /\ SecretsTo(c, K)' /\ ext' = c.ext
  BY <1>0, <1>1 DEF KgProducts, MatrixIn, SecretsTo
<1>3. CASE ctl.kg_poly_phase = 0
  <2>1. /\ Go(state, [ctl EXCEPT !.pwma_sent = FALSE, !.loop_j = 0,
                                 !.kg_poly_phase = 3])
        /\ NoStart
    BY <1>3 DEF KgPwma
  <2>2. /\ state' = "KG_PWMA_A_S" /\ Kept({"pwma_sent", "loop_j", "kg_poly_phase"})
        /\ ctl'.pwma_sent = FALSE /\ ctl'.loop_j = 0 /\ ctl'.kg_poly_phase = 3
    BY <1>0, <2>1, CtlHas DEF Go, Latched, Kept, Fields, ResetCtl
  <2>3. "pwma" \notin pulse'
    BY <2>1, ClearsNone DEF Cleared, Watched
  <2>4. KgSeeded(c)' /\ ctl'.loop_i = ctl.loop_i
    BY <1>0, <1>1, <2>2 DEF KgProducts, KgSeeded, Kept, Fields, ResetCtl
  <2>5. KgProducts(c)'
    BY <1>0, <1>1, <1>2, <1>3, <2>2, <2>3, <2>4 DEF KgProducts
  <2>6. Values(c)'
    BY <2>2, <2>5 DEF Values
  <2> QED
    BY <1>0, <2>6, ShapeStays, Ends
<1>4. CASE ctl.kg_poly_phase = 3 /\ Product(ctl.loop_i, ctl.loop_j, TRUE, TRUE)
  <2>1. /\ state' = "KG_PWMA_A_S"
        /\ Kept({"pwma_sent", "bank", "operand_bank", "accumulate", "use_tomont"})
        /\ ctl'.bank = ctl.loop_i /\ ctl'.operand_bank = ctl.loop_j
        /\ ctl'.accumulate = TRUE /\ ctl'.use_tomont = TRUE
    BY <1>0, <1>4, CtlHas, ZenonT(60) DEF Product, Launch, Go, Latched, Kept, Fields, ResetCtl
  <2>2. "pwma" \notin pulse' /\ "pwma" \notin pulse
    BY <1>4, Clears, UnitsWait DEF Acts, UnitsAt, Cleared, Watched, Product, Launch
  <2>3. /\ KgSeeded(c)' /\ ctl'.loop_i = ctl.loop_i /\ ctl'.loop_j = ctl.loop_j
        /\ ctl'.kg_poly_phase = 3
    BY <1>0, <1>1, <1>4, <2>1 DEF KgProducts, KgSeeded, Kept, Fields, ResetCtl
  <2>4. KgProducts(c)'
    BY <1>0, <1>1, <1>2, <1>4, <2>1, <2>2, <2>3 DEF KgProducts
  <2>5. Values(c)'
    BY <2>1, <2>4 DEF Values
  <2> QED
    BY <1>0, <2>5, ShapeStays, Ends
<1>5. CASE ctl.kg_poly_phase = 3 /\ Await("pwma_sent", "pwma")
  <2>1. \A e \in Watched : e \notin pulse
    BY <1>0, <1>5, UnitsWait DEF Acts, UnitsAt, Watched, Await
  <2> QED
    BY <1>0, <1>5, <2>1, DataWaits DEF Await
<1>6. CASE /\ ctl.kg_poly_phase = 3
           /\ ~Product(ctl.loop_i, ctl.loop_j, TRUE, TRUE)
           /\ ~Await("pwma_sent", "pwma")
  <2> DEFINE d == [ctl EXCEPT !.pwma_sent = FALSE]
  <2>0. ctl.kg_poly_phase # 0
    BY <1>6
  <2>1. /\ Finished("pwma_sent", "pwma") /\ NoStart
        /\ IF ~LastLoop(ctl.loop_j) THEN Go(state, [d EXCEPT !.loop_j = @ + 1])
           ELSE IF ~LastLoop(ctl.loop_i)
           THEN Go(state, [d EXCEPT !.loop_i = @ + 1, !.loop_j = 0,
                                    !.kg_poly_phase = 0])
           ELSE Go("KG_PACK", [d EXCEPT !.kg_enable = FALSE, !.kg_pack_sent = FALSE,
                                        !.kg_poly_phase = 0])
    BY <1>6, <2>0, Zenon DEF KgPwma
  <2>2. /\ "pwma" \in pulse /\ "pwma" \notin pulse' /\ "kgpack" \notin pulse'
    BY <2>1, ClearsNone DEF Finished, Cleared, Watched
  <2>3. mem.acc[ctl.loop_i] = TSum(c, ctl.loop_i, ctl.loop_j + 1)
    BY <1>1, <1>6, <2>2 DEF KgProducts
  <2>4. CASE Go(state, [d EXCEPT !.loop_j = @ + 1]) /\ ~LastLoop(ctl.loop_j)
    <3>1. /\ state' = "KG_PWMA_A_S" /\ Kept({"pwma_sent", "loop_j"})
          /\ ctl'.pwma_sent = FALSE /\ ctl'.loop_j = ctl.loop_j + 1
      BY <1>0, <2>4, CtlHas DEF Go, Latched, Kept, Fields, ResetCtl
    <3>2. KgSeeded(c)' /\ ctl'.loop_i = ctl.loop_i /\ ctl'.kg_poly_phase = 3
      BY <1>0, <1>1, <1>6, <3>1 DEF KgProducts, KgSeeded, Kept, Fields, ResetCtl
    <3>3. KgProducts(c)'
      BY <1>0, <1>1, <1>2, <2>2, <2>3, <3>1, <3>2 DEF KgProducts
    <3>4. Values(c)'
      BY <3>1, <3>3 DEF Values
    <3> QED
      BY <1>0, <3>4, ShapeStays, Ends
  <2>5. CASE /\ Go(state, [d EXCEPT !.loop_i = @ + 1, !.loop_j = 0,
                                    !.kg_poly_phase = 0])
             /\ LastLoop(ctl.loop_j) /\ ~LastLoop(ctl.loop_i)
    <3>1. /\ state' = "KG_PWMA_A_S"
          /\ Kept({"pwma_sent", "loop_i", "loop_j", "kg_poly_phase"})
          /\ ctl'.pwma_sent = FALSE /\ ctl'.loop_i = ctl.loop_i + 1
          /\ ctl'.kg_poly_phase = 0
      BY <1>0, <2>5, CtlHas DEF Go, Latched, Kept, Fields, ResetCtl
    <3>2. KgSeeded(c)'
      BY <1>0, <1>1, <1>6, <3>1 DEF KgProducts, KgSeeded, Kept, Fields, ResetCtl
    <3>3. mem.acc[0] = TSum(c, 0, K) /\ mem.acc[1] = TSum(c, 1, 0) /\ ctl.loop_i = 0
      BY <1>1, <2>3, <2>5 DEF KgProducts, LastLoop, Idx, K
    <3>4. /\ \A i \in Idx : i < ctl'.loop_i => mem'.acc[i] = TSum(c, i, K)
          /\ \A i \in Idx : i > ctl'.loop_i => mem'.acc[i] = TSum(c, i, 0)
          /\ mem'.acc[ctl'.loop_i] = TSum(c, ctl'.loop_i, 0)
      BY <1>0, <3>1, <3>3 DEF Idx, K
    <3>5. KgProducts(c)'
      BY <1>2, <3>1, <3>2, <3>4 DEF KgProducts
    <3>6. Values(c)'
      BY <3>1, <3>5 DEF Values
    <3> QED
      BY <1>0, <3>6, ShapeStays, Ends
  <2>6. CASE /\ Go("KG_PACK", [d EXCEPT !.kg_enable = FALSE, !.kg_pack_sent = FALSE,
                                        !.kg_poly_phase = 0])
             /\ LastLoop(ctl.loop_j) /\ LastLoop(ctl.loop_i)
    <3>1. /\ state' = "KG_PACK"
          /\ Kept({"pwma_sent", "kg_enable", "kg_pack_sent", "kg_poly_phase"})
      BY <2>6, CtlHas DEF Go, Latched, Kept, Fields, ResetCtl
    <3>2. KgSeeded(c)'
      BY <1>0, <1>1, <1>6, <3>1 DEF KgProducts, KgSeeded, Kept, Fields, ResetCtl
    <3>3. \A i \in Idx : mem'.acc[i] = TSum(c, i, K)
      BY <1>0, <1>1, <2>3, <2>6 DEF KgProducts, LastLoop, Idx, K
    <3>4. KgPacking(c)'
      BY <1>2, <2>2, <3>1, <3>2, <3>3 DEF KgPacking
    <3>5. Values(c)'
      BY <3>1, <3>4 DEF Values
    <3> QED
      BY <1>0, <3>5, ShapeStays, Ends
  <2> QED
    BY <2>1, <2>4, <2>5, <2>6
<1> QED
  BY <1>3, <1>4, <1>5, <1>6 DEF KgPwma

LEMMA SameFields ==
    ASSUME NEW f, NEW g, NEW S, OnDomain(f, S), OnDomain(g, S), \A x \in S : f[x] = g[x]
    PROVE  f = g
BY DEF OnDomain

\* The sums of the products are the key of the reference.
LEMMA KeyIsKem ==
    ASSUME NEW c, NEW i \in Idx
    PROVE  TSum(c, i, K) = indcpa_keypair_pk(c.seed[1]).t[i]
<1> DEFINE d == c.seed[1]
<1>1. \A j \in Idx : TRow(c, i)[j] = Mul(A(Rho(d), i, j), Secret(d, j), TRUE)
  <2> SUFFICES ASSUME NEW j \in Idx
               PROVE  TRow(c, i)[j] = Mul(A(Rho(d), i, j), Secret(d, j), TRUE)
    OBVIOUS
  <2>1. (K * i + j) \div K = i /\ (K * i + j) % K = j
    BY DEF Idx, K
  <2>2. MatrixOf(c, K * i + j) = A(Rho(d), i, j) /\ SecretOf(c, j) = Secret(d, j)
    BY <2>1 DEF MatrixOf, SecretOf, Secret, Sigma3
  <2> QED
    BY <2>2 DEF TRow
<1>2. Below(TRow(c, i), K) = {Mul(A(Rho(d), i, j), Secret(d, j), TRUE) : j \in Idx}
  BY <1>1 DEF Below, Idx
<1>3. ErrorOf(c, i) = Ntt(Cbd(3, Sigma(d), K + i))
  BY DEF ErrorOf, Sigma3
<1> QED
  BY <1>2, <1>3 DEF TSum, indcpa_keypair_pk

LEMMA KgPackData == ASSUME NEW c, Acts(c), KgPack PROVE DataOf(c)'
<1>0. state = "KG_PACK" /\ mem' = mem /\ ext' = ext /\ done' = done
  BY DEF KgPack, Launch, Await, Quiet
<1>1. KgPacking(c)
  BY <1>0 DEF Acts, DataOf, Values
<1>2. CASE Launch("kg_pack_sent", ctl, "kgpack")
  <2>1. state' = "KG_PACK" /\ Kept({"kg_pack_sent"}) /\ "kgpack" \notin pulse'
    BY <1>0, <1>2, Clears, UnitsWait
       DEF Acts, Launch, Go, Latched, Kept, Fields, ResetCtl, Cleared, Watched
  <2>2. KgSeeded(c)'
    BY <1>0, <1>1, <2>1 DEF KgPacking, KgSeeded, Kept, Fields, ResetCtl
  <2>3. KgPacking(c)'
    BY <1>0, <1>1, <2>1, <2>2 DEF KgPacking, SecretsTo
  <2>4. Values(c)'
    BY <2>1, <2>3 DEF Values
  <2> QED
    BY <1>0, <2>4, ShapeStays, Ends
<1>3. CASE Await("kg_pack_sent", "kgpack")
  <2>1. \A e \in Watched : e \notin pulse
    BY <1>0, <1>3, UnitsWait DEF Acts, UnitsAt, Watched, Await
  <2> QED
    BY <1>0, <1>3, <2>1, DataWaits DEF Await
<1>4. CASE /\ ~Launch("kg_pack_sent", ctl, "kgpack")
           /\ ~Await("kg_pack_sent", "kgpack")
  <2>1. /\ Finished("kg_pack_sent", "kgpack")
        /\ Go("KG_HASH_PK", [ctl EXCEPT !.kg_pack_sent = FALSE, !.hash_sent = FALSE])
    BY <1>4 DEF KgPack
  <2>2. state' = "KG_HASH_PK" /\ Kept({"kg_pack_sent", "hash_sent"}) /\ "kgpack" \in pulse
    BY <2>1, CtlHas DEF Finished, Go, Latched, Kept, Fields, ResetCtl
  <2>3. KgSeeded(c)' /\ KgOutput(c)'
    BY <1>0, <1>1, <2>2 DEF KgPacking, KgOutput, KgSeeded, Kept, Fields, ResetCtl
  <2>4. KgPacking(c)' /\ c.op = KEYGEN
    BY <1>0, <1>1, <2>2, <2>3 DEF KgPacking, KgSeeded
  <2>5. Values(c)'
    BY <2>2, <2>4 DEF Values, KEYGEN, ENCAPS
  <2> QED
    BY <1>0, <2>5, ShapeStays, Ends
<1> QED
  BY <1>2, <1>3, <1>4

LEMMA KgHashPkData == ASSUME NEW c, Acts(c), KgHashPk PROVE DataOf(c)'
<1>0. state = "KG_HASH_PK" /\ opcode = c.op
  BY DEF KgHashPk, Acts, DataOf, Frame
<1>1. CASE LaunchDigest
  BY <1>0, <1>1, DigestStarts DEF DigestStates
<1>2. CASE Await("hash_sent", "digest")
  BY <1>0, <1>2, DigestWaits DEF DigestStates
<1>3. CASE ~LaunchDigest /\ ~Await("hash_sent", "digest")
  <2>1. /\ Go(IF opcode = ENCAPS THEN "ENC_LOAD_COINS" ELSE "KG_WRITE_REST",
              [ctl EXCEPT !.hash_sent = FALSE])
        /\ mem' = [mem EXCEPT !.hpk = H(ext.pk)] /\ ext' = ext /\ done' = done
    BY <1>3 DEF KgHashPk
  <2>2. Kept({"hash_sent"})
    BY <2>1, CtlHas DEF Go, Latched, Kept, Fields, ResetCtl
  <2>3. MemKept({"hpk"}) /\ mem'.hpk = H(ext.pk)
    BY <2>1 DEF Acts, DataOf, Frame, MemShape, MemKept, MemFields
  <2>4. CASE c.op = ENCAPS
    <3>1. state' = "ENC_LOAD_COINS"
      BY <1>0, <2>1, <2>4 DEF Go
    <3>2. EncHashes(c)
      BY <1>0, <2>4 DEF Acts, DataOf, Values
    <3>3. mem'.hpk = Hash(c)
      BY <2>3, <2>4, <3>2 DEF Hash, EncHashes, Reads, ENCAPS, DECAPS
    <3>4. EncHashes(c)'
      BY <2>1, <2>2, <2>3, <3>1, <3>2, <3>3
         DEF EncHashes, Reads, Encrypts, PublicIn, MemKept, MemFields, Kept, Fields, ResetCtl
    <3>5. Values(c)'
      BY <3>1, <3>4 DEF Values
    <3> QED
      BY <2>1, <2>3, <3>5, ShapeKept, Ends
  <2>5. CASE c.op # ENCAPS
    <3>1. state' = "KG_WRITE_REST"
      BY <1>0, <2>1, <2>5 DEF Go
    <3>2. KgPacking(c)
      BY <1>0, <2>5 DEF Acts, DataOf, Values
    <3>3. KgSeeded(c)' /\ KgOutput(c)'
      BY <1>0, <2>1, <2>2, <2>3, <3>2
         DEF KgPacking, KgOutput, KgSeeded, MemKept, MemFields, Kept, Fields, ResetCtl
    <3>4. KgPacking(c)'
      BY <2>1, <2>3, <3>1, <3>2, <3>3 DEF KgPacking
    <3>5. Values(c)'
      BY <3>1, <3>4 DEF Values
    <3> QED
      BY <2>1, <2>3, <3>5, ShapeKept, Ends
  <2> QED
    BY <2>4, <2>5
<1> QED
  BY <1>1, <1>2, <1>3

\* The last step of an operation writes its last result.
LEMMA KgWriteRestData == ASSUME NEW c, Acts(c), KgWriteRest PROVE DataOf(c)'
<1> DEFINE kp == crypto_kem_keypair(c.seed[1], c.seed[2])
           pk == indcpa_keypair_pk(c.seed[1])
           s  == [j \in Idx |-> Secret(c.seed[1], j)]
<1>0. /\ state = "KG_WRITE_REST" /\ state' = "IDLE" /\ mem' = mem
      /\ ext' = [ext EXCEPT !.sk.pk = ext.pk, !.sk.h = mem.hpk, !.sk.z = mem.z]
  BY DEF KgWriteRest, Finish, Go
<1>1. KgPacking(c) /\ ExtShape(ext) /\ ExtShape(c.ext) /\ Frame(c)
  BY <1>0 DEF Acts, DataOf, Values, Frame
<1>2. /\ ext.pk = pk /\ ext.sk.s = s /\ mem.hpk = H(pk) /\ mem.z = c.seed[2]
      /\ ext.ct = c.ext.ct /\ ext.ss = c.ext.ss /\ c.op = KEYGEN
  BY <1>0, <1>1 DEF KgPacking, KgOutput, KgSeeded
<1>3. ext'.sk = [ext.sk EXCEPT !.pk = pk, !.h = H(pk), !.z = c.seed[2]]
  BY <1>0, <1>1, <1>2 DEF ExtShape, OnDomain
<1>4. ext'.sk = [s |-> s, pk |-> pk, h |-> H(pk), z |-> c.seed[2]]
  BY <1>1, <1>2, <1>3 DEF ExtShape, SkShape, OnDomain
<1>5. ext'.pk = pk /\ ext'.ct = c.ext.ct /\ ext'.ss = c.ext.ss
  BY <1>0, <1>1, <1>2 DEF ExtShape, OnDomain
<1>6. OnDomain(ext', {"pk", "sk", "ct", "ss"})
  BY <1>0, <1>1 DEF ExtShape, OnDomain
<1>7. ExpectedOf(c) = [c.ext EXCEPT !.pk = kp.pk, !.sk = kp.sk]
  BY <1>2 DEF ExpectedOf, KEYGEN, ENCAPS, DECAPS
<1>8. kp.pk = pk /\ kp.sk = [s |-> s, pk |-> pk, h |-> H(pk), z |-> c.seed[2]]
  BY DEF crypto_kem_keypair
<1> HIDE DEF kp, pk, s
<1>9. ext' = ExpectedOf(c)
  <2>1. OnDomain(ExpectedOf(c), {"pk", "sk", "ct", "ss"})
    BY <1>1, <1>7 DEF ExtShape, OnDomain
  <2>2. \A x \in {"pk", "sk", "ct", "ss"} : ext'[x] = ExpectedOf(c)[x]
    BY <1>1, <1>4, <1>5, <1>7, <1>8 DEF ExtShape, OnDomain
  <2> QED
    BY <1>6, <2>1, <2>2, SameFields
<1>10. ExtShape(ext')
  <2>1. ext'.sk.s = s /\ OnDomain(s, Idx)
    BY <1>4 DEF s, OnDomain
  <2>2. SkShape(ext'.sk) 
    BY <1>4, <2>1 DEF SkShape, OnDomain
  <2> QED
    BY <1>1, <1>5, <1>6, <2>2 DEF ExtShape
<1>11. Values(c)'
  BY <1>0, <1>9 DEF Values
<1>12. Frame(c)'
  BY <1>0, <1>1, <1>10, ShapeStays DEF Frame
<1> QED
  BY <1>11, <1>12 DEF DataOf

-----------------------------------------------------------------------------
(* Encapsulation, and the re-encryption of a decapsulation *)

LEMMA EncReadPkData == ASSUME NEW c, Acts(c), EncReadPk PROVE DataOf(c)'
<1> DEFINE pk == IF ctl.pk_in_sk THEN ext.sk.pk ELSE ext.pk
<1>0. state = "ENC_READ_PK" /\ ext' = ext /\ done' = done /\ opcode = c.op
  BY DEF EncReadPk, Acts, DataOf, Frame
<1>1. EncReads(c) /\ Reads(c)
  BY <1>0 DEF Acts, DataOf, Values, EncReads
<1>2. pk = Key(c)
  BY <1>1 DEF EncReads, Reads, Key
<1>3. CASE ~ctl.sk_reload_done
  <2>1. /\ mem' = [mem EXCEPT !.slot[0] = pk.t[0], !.slot[1] = pk.t[1]]
        /\ Go(state, [ctl EXCEPT !.sk_reload_done = TRUE])
    BY <1>3 DEF EncReadPk
  <2> HIDE DEF pk
  <2>2. state' = "ENC_READ_PK" /\ Kept({"sk_reload_done"})
    BY <1>0, <2>1, CtlHas DEF Go, Latched, Kept, Fields, ResetCtl
  <2>3. /\ MemKept({"slot"})
        /\ mem'.slot = [[mem.slot EXCEPT ![0] = pk.t[0]] EXCEPT ![1] = pk.t[1]]
    BY <2>1 DEF Acts, DataOf, Frame, MemShape, MemKept, MemFields
  <2>4. MemShape'
    <3>1. OnDomain([mem.slot EXCEPT ![0] = pk.t[0]], 0 .. 7)
      BY ExceptShape DEF Acts, DataOf, Frame, MemShape
    <3>2. OnDomain(mem'.slot, 0 .. 7)
      BY <2>3, <3>1, ExceptShape
    <3> QED
      BY <2>3, <3>2 DEF Acts, DataOf, Frame, MemShape, MemKept, MemFields
  <2>5. mem'.slot[0] = Key(c).t[0] /\ mem'.slot[1] = Key(c).t[1]
    BY <1>2, <2>3 DEF Acts, DataOf, Frame, MemShape, OnDomain
  <2>6. EncReads(c)'
    BY <1>0, <1>1, <2>2, <2>3, <2>5
       DEF EncReads, Reads, Encrypts, MemKept, MemFields, Kept, Fields, ResetCtl
  <2>7. Values(c)'
    BY <2>2, <2>6 DEF Values
  <2> QED
    BY <1>0, <2>4, <2>7, Ends
<1>4. CASE ctl.sk_reload_done
  <2>1. /\ mem' = [mem EXCEPT !.rho = pk.rho]
        /\ IF opcode = ENCAPS THEN Go("KG_HASH_PK", [ctl EXCEPT !.hash_sent = FALSE])
           ELSE Go("DEC_READ_REST", ctl)
    BY <1>4 DEF EncReadPk
  <2> HIDE DEF pk
  <2>2. Kept({"hash_sent"})
    BY <2>1, CtlHas, ZenonT(60) DEF Go, Latched, Kept, Fields, ResetCtl
  <2>3. MemKept({"rho"}) /\ mem'.rho = Key(c).rho
    BY <1>2, <2>1 DEF Acts, DataOf, Frame, MemShape, MemKept, MemFields
  <2>4. Reads(c)' /\ PublicIn(c)'
    BY <1>0, <1>1, <1>4, <2>2, <2>3 DEF EncReads, Reads, Encrypts, PublicIn,
       MemKept, MemFields, Kept, Fields, ResetCtl
  <2>5. CASE c.op = ENCAPS
    <3>1. state' = "KG_HASH_PK"
      BY <1>0, <2>1, <2>5 DEF Go
    <3>2. Values(c)'
      BY <2>4, <2>5, <3>1 DEF Values, EncHashes
    <3> QED
      BY <1>0, <2>3, <3>2, ShapeKept, Ends
  <2>6. CASE c.op # ENCAPS
    <3>1. state' = "DEC_READ_REST"
      BY <1>0, <2>1, <2>6 DEF Go
    <3>2. c.op = DECAPS /\ mem'.opnd = c.ext.sk.s
      BY <1>1, <2>3, <2>6 DEF EncReads, Reads, Encrypts, MemKept, MemFields
    <3>3. DecReads(c)'
      BY <2>4, <3>1, <3>2 DEF DecReads
    <3>4. Values(c)'
      BY <3>1, <3>3 DEF Values
    <3> QED
      BY <1>0, <2>3, <3>4, ShapeKept, Ends
  <2> QED
    BY <2>5, <2>6
<1> QED
  BY <1>3, <1>4

LEMMA EncLoadCoinsData == ASSUME NEW c, Acts(c), EncLoadCoins PROVE DataOf(c)'
<1>0. /\ state = "ENC_LOAD_COINS" /\ state' = "ENC_PRF_R" /\ ext' = ext /\ done' = done
      /\ seed = c.seed
  BY DEF EncLoadCoins, Go, Acts, DataOf, Frame
<1>1. EncHashes(c)
  BY <1>0 DEF Acts, DataOf, Values
<1>2. Kept({"hash_sent"})
  BY CtlHas DEF EncLoadCoins, Go, Latched, Kept, Fields, ResetCtl
<1>3. MemKept({"m"}) /\ mem'.m = seed[1]
  BY DEF Acts, DataOf, Frame, MemShape, EncLoadCoins, MemKept, MemFields
<1>4. mem'.m = Msg(c)
  BY <1>0, <1>1, <1>3 DEF EncHashes, Msg, ENCAPS, DECAPS
<1>5. EncHashes(c)'
  BY <1>0, <1>1, <1>2, <1>3, <1>4
     DEF EncHashes, Reads, Encrypts, PublicIn, MemKept, MemFields, Kept, Fields, ResetCtl
<1>6. Values(c)'
  BY <1>0, <1>5 DEF Values
<1> QED
  BY <1>0, <1>3, <1>6, ShapeKept, Ends

\* The message and the hash of the key give the secret and the coins.
LEMMA HashMessageData ==
    ASSUME NEW c, Acts(c), NEW d,
           \/ state = "ENC_PRF_R" /\ d = ctl
           \/ /\ state = "DEC_NTT_U"
              /\ d = [ctl EXCEPT !.dec_reenc_mode = TRUE, !.pwma_sent = FALSE,
                                 !.enc_ntt_phase = 0],
           HashMessage(d)
    PROVE  DataOf(c)'
<1>1. CASE LaunchDigest
  BY <1>1, DigestStarts DEF DigestStates
<1>2. CASE Await("hash_sent", "digest")
  BY <1>2, DigestWaits DEF DigestStates
<1>3. CASE ~LaunchDigest /\ ~Await("hash_sent", "digest")
  <2>1. /\ Go("ENC_CBD_R",
             [d EXCEPT !.hash_sent = FALSE, !.cbd_sent = FALSE, !.ntt_sent = FALSE,
                       !.loop_j = 0, !.enc_noise_kind = 0])
        /\ mem' = [mem EXCEPT !.kbar = KBar(mem.m, mem.hpk),
                              !.coins = Coins(mem.m, mem.hpk)]
        /\ ext' = ext /\ done' = done /\ NoStart
    BY <1>3 DEF HashMessage
  <2>2. /\ state' = "ENC_CBD_R" /\ ctl'.hash_sent = FALSE /\ ctl'.loop_j = 0
        /\ ctl'.enc_noise_kind = 0 /\ ctl'.bank = ctl.bank
        /\ ctl'.dec_reenc_mode = IF state = "DEC_NTT_U" THEN TRUE ELSE ctl.dec_reenc_mode
    BY <2>1, CtlHas, ZenonT(60) DEF Go, Latched, Fields, ResetCtl
  <2>3. /\ MemKept({"kbar", "coins"})
        /\ mem'.kbar = KBar(mem.m, mem.hpk) /\ mem'.coins = Coins(mem.m, mem.hpk)
    BY <2>1 DEF Acts, DataOf, Frame, MemShape, MemKept, MemFields
  <2>4. "cbd" \notin pulse'
    BY <2>1, ClearsNone DEF Cleared, Watched
  <2>5. Encrypting(c)' /\ ext' = c.ext
    <3>1. CASE state = "ENC_PRF_R"
      <4>1. EncHashes(c)
        BY <3>1 DEF Acts, DataOf, Values
      <4> QED
        BY <2>1, <2>2, <2>3, <3>1, <4>1 DEF EncHashes, Reads, Encrypts, PublicIn, Encrypting,
           CoinsOf, MemKept, MemFields, ENCAPS, DECAPS
    <3>2. CASE state = "DEC_NTT_U"
      <4>1. DecDecrypts(c)
        BY <3>2 DEF Acts, DataOf, Values
      <4> QED
        BY <2>1, <2>2, <2>3, <3>2, <4>1 DEF DecDecrypts, DecHolds, Reads, Encrypts, PublicIn, DecKeeps,
           Encrypting, CoinsOf, MemKept, MemFields, ENCAPS, DECAPS
    <3> QED
      BY <3>1, <3>2
  <2>6. OpndTo(c, ctl.loop_j)'
    BY <2>2 DEF OpndTo, Idx, K
  <2>7. EncSamples(c)'
    BY <2>2, <2>4, <2>5, <2>6 DEF EncSamples
  <2>8. Values(c)'
    BY <2>2, <2>7 DEF Values
  <2> QED
    BY <2>1, <2>3, <2>8, ShapeKept, Ends
<1> QED
  BY <1>1, <1>2, <1>3

LEMMA EncPrfRData == ASSUME NEW c, Acts(c), EncPrfR PROVE DataOf(c)'
BY HashMessageData DEF EncPrfR

LEMMA DecNttUData == ASSUME NEW c, Acts(c), DecNttU PROVE DataOf(c)'
BY HashMessageData DEF DecNttU

LEMMA NoiseIs ==
    ASSUME NEW c, EncSamples(c)
    PROVE  /\ ctl.enc_noise_kind = 0 => EncNoise = RNoise(c, ctl.loop_j)
           /\ ctl.enc_noise_kind = 1 => EncNoise = UNoise(c, ctl.loop_j)
           /\ ctl.enc_noise_kind = 2 => EncNoise = VNoise(c)
<1>1. mem.coins = CoinsOf(c)
  BY DEF EncSamples, Encrypting
<1> QED
  BY <1>1 DEF EncNoise, RNoise, UNoise, VNoise

\* The control registers that an encryption keeps.
LEMMA EncryptingKept ==
    ASSUME NEW c, Encrypting(c), NEW S, MemKept(S),
           S \cap {"rho", "m", "coins", "kbar", "ctram", "z"} = {},
           mem'.slot[0] = mem.slot[0], mem'.slot[1] = mem.slot[1],
           ctl'.bank = ctl.bank, ctl'.dec_reenc_mode = ctl.dec_reenc_mode
    PROVE  Encrypting(c)'
<1>1. /\ mem'.rho = mem.rho /\ mem'.m = mem.m /\ mem'.coins = mem.coins
      /\ mem'.kbar = mem.kbar /\ mem'.ctram = mem.ctram /\ mem'.z = mem.z
  BY DEF MemKept, MemFields
<1> QED
  BY <1>1 DEF Encrypting, Encrypts, PublicIn, DecKeeps

LEMMA EncryptingStays ==
    ASSUME NEW c, Encrypting(c), mem' = mem,
           ctl'.bank = ctl.bank, ctl'.dec_reenc_mode = ctl.dec_reenc_mode
    PROVE  Encrypting(c)'
BY DEF Encrypting, Encrypts, PublicIn, DecKeeps

LEMMA EncCbdRData == ASSUME NEW c, Acts(c), EncCbdR PROVE DataOf(c)'
<1>0. state = "ENC_CBD_R"
  BY DEF EncCbdR
<1>1. EncSamples(c) /\ Encrypting(c) /\ ext = c.ext /\ ctl.loop_j \in Idx
  BY <1>0, UnitsWait DEF Acts, DataOf, Values, EncSamples
<1>2. ASSUME state' = "ENC_CBD_R", Kept({"hash_sent", "cbd_sent"}), MemKept({"noise"}),
             ctl'.hash_sent => \/ ctl.hash_sent /\ mem'.noise = mem.noise
                               \/ mem'.noise = EncNoise,
             ext' = ext, done' = done, Cleared
      PROVE  DataOf(c)'
  <2>1. /\ ctl'.bank = ctl.bank /\ ctl'.dec_reenc_mode = ctl.dec_reenc_mode
        /\ ctl'.enc_noise_kind = ctl.enc_noise_kind /\ ctl'.loop_j = ctl.loop_j
    BY <1>2 DEF Kept, Fields, ResetCtl
  <2>2. mem'.slot = mem.slot /\ mem'.opnd = mem.opnd /\ "cbd" \notin pulse'
    BY <1>2 DEF MemKept, MemFields, Cleared, Watched
  <2>3. Encrypting(c)'
    BY <1>1, <1>2, <2>1, <2>2, EncryptingKept
  <2>4. EncSamples(c)'
    BY <1>1, <1>2, <2>1, <2>2, <2>3, NoiseIs DEF EncSamples, OpndTo, UNoiseFrom
  <2>5. Values(c)'
    BY <1>2, <2>4 DEF Values
  <2> QED
    BY <1>2, <2>5, ShapeKept, Ends
<1>3. CASE LaunchPrf(EncNoise)
  <2>1. /\ state' = "ENC_CBD_R" /\ Kept({"hash_sent", "cbd_sent"})
        /\ ext' = ext /\ done' = done
    BY <1>0, <1>3, CtlHas DEF LaunchPrf, Go, Latched, Kept, Fields, ResetCtl
  <2>2. MemKept({"noise"}) /\ mem'.noise = EncNoise
    BY <1>3 DEF Acts, DataOf, Frame, MemShape, LaunchPrf, MemKept, MemFields
  <2> QED
    BY <1>2, <1>3, <2>1, <2>2, ClearsHash DEF LaunchPrf
<1>4. CASE \/ /\ ctl.hash_sent /\ ~ctl.cbd_sent
              /\ IF sponge = "words"
                 THEN Go(state, [ctl EXCEPT !.cbd_sent = TRUE]) /\ StartUnits({"cbd"})
                 ELSE Go(state, ctl) /\ NoStart
              /\ Quiet
           \/ ctl.hash_sent /\ Await("cbd_sent", "cbd")
  <2>1. /\ state' = "ENC_CBD_R" /\ Kept({"hash_sent", "cbd_sent"})
        /\ ext' = ext /\ done' = done /\ mem' = mem /\ ctl.hash_sent
    BY <1>0, <1>4, CtlHas, ZenonT(60) DEF Await, Quiet, Go, Latched, Kept, Fields, ResetCtl
  <2>2. Cleared
    BY <1>4, Clears, ClearsNone DEF Await
  <2>3. MemKept({"noise"})
    BY <2>1 DEF Acts, DataOf, Frame, MemShape, MemKept
  <2> QED
    BY <1>2, <2>1, <2>2, <2>3
<1>5. CASE /\ ctl.hash_sent /\ Finished("cbd_sent", "cbd")
           /\ AfterNoise([ctl EXCEPT !.hash_sent = FALSE, !.cbd_sent = FALSE])
           /\ NoStart /\ Quiet
  <2> DEFINE d == [ctl EXCEPT !.hash_sent = FALSE, !.cbd_sent = FALSE]
  <2>1. mem' = mem /\ ext' = ext /\ done' = done /\ "cbd" \in pulse /\ Cleared
    BY <1>5, ClearsNone DEF Quiet, Finished
  <2>2. "cbd" \notin pulse' /\ "ntt" \notin pulse' /\ "pwma" \notin pulse'
    BY <2>1 DEF Cleared, Watched
  <2>3. d.enc_noise_kind = ctl.enc_noise_kind /\ d.loop_j = ctl.loop_j
    BY CtlHas DEF Fields, ResetCtl
  <2>4. CASE ctl.enc_noise_kind = 0
    <3>1. Go("ENC_NTT_R", [d EXCEPT !.enc_ntt_phase = 0, !.ntt_sent = FALSE])
      BY <1>5, <2>3, <2>4 DEF AfterNoise
    <3>2. /\ state' = "ENC_NTT_R" /\ ctl'.bank = ctl.bank
          /\ ctl'.dec_reenc_mode = ctl.dec_reenc_mode
          /\ ctl'.enc_noise_kind = ctl.enc_noise_kind /\ ctl'.loop_j = ctl.loop_j
          /\ ctl'.enc_ntt_phase = 0
      BY <3>1, CtlHas DEF Go, Latched, Fields, ResetCtl
    <3>3. EncTransforms(c)'
      BY <1>1, <2>1, <2>4, <3>2, EncryptingStays DEF EncSamples, EncTransforms, OpndTo
    <3>4. Values(c)'
      BY <3>2, <3>3 DEF Values
    <3> QED
      BY <2>1, <3>4, ShapeStays, Ends
  <2>5. CASE ctl.enc_noise_kind = 1
    <3>1. Go(state, IF LastLoop(ctl.loop_j)
                    THEN [d EXCEPT !.loop_j = 0, !.enc_noise_kind = 2]
                    ELSE [d EXCEPT !.loop_j = @ + 1])
      BY <1>5, <2>3, <2>5 DEF AfterNoise
    <3>2. /\ state' = "ENC_CBD_R" /\ ctl'.bank = ctl.bank
          /\ ctl'.dec_reenc_mode = ctl.dec_reenc_mode /\ ctl'.hash_sent = FALSE
      BY <1>0, <3>1, CtlHas DEF Go, Latched, Fields, ResetCtl
    <3>3. \/ LastLoop(ctl.loop_j) /\ ctl'.loop_j = 0 /\ ctl'.enc_noise_kind = 2
          \/ /\ ~LastLoop(ctl.loop_j) /\ ctl'.loop_j = ctl.loop_j + 1
             /\ ctl'.enc_noise_kind = 1
      BY <2>5, <3>1, CtlHas DEF Go, Latched, Fields, ResetCtl
    <3>4. \A i \in Idx : i < ctl.loop_j + 1 => mem.slot[4 + i] = UNoise(c, i)
      BY <1>1, <2>1, <2>5 DEF EncSamples, Idx, K
    <3>5. Encrypting(c)' /\ OpndTo(c, K)'
      BY <1>1, <2>1, <2>5, <3>2, EncryptingStays DEF EncSamples, OpndTo
    <3>6. EncSamples(c)'
      BY <1>1, <2>1, <2>2, <3>2, <3>3, <3>4, <3>5 DEF EncSamples, UNoiseFrom, LastLoop, Idx, K
    <3>7. Values(c)'
      BY <3>2, <3>6 DEF Values
    <3> QED
      BY <2>1, <3>7, ShapeStays, Ends
  <2>6. CASE ctl.enc_noise_kind = 2
    <3>1. Go("ENC_PWMA_U",
              [d EXCEPT !.loop_i = 0, !.loop_j = 0, !.enc_ntt_phase = 0,
                        !.dp_phase = 0, !.dp_enable = FALSE, !.gm_source = TRUE,
                        !.gm_sent = FALSE])
      BY <1>5, <2>3, <2>6 DEF AfterNoise
    <3>2. /\ state' = "ENC_PWMA_U" /\ ctl'.bank = ctl.bank
          /\ ctl'.dec_reenc_mode = ctl.dec_reenc_mode /\ ctl'.loop_i = 0
          /\ ctl'.dp_phase = 0
      BY <3>1, CtlHas DEF Go, Latched, Fields, ResetCtl
    <3>3. /\ Encrypting(c)' /\ OpndTo(c, K)' /\ mem'.slot[6] = VNoise(c)
      BY <1>1, <2>1, <2>6, <3>2, EncryptingStays DEF EncSamples, OpndTo
    <3>4. UPolyTo(c, ctl.loop_i)' /\ UNoiseFrom(c, ctl.loop_i)'
      BY <1>1, <2>1, <2>6, <3>2 DEF EncSamples, UPolyTo, UNoiseFrom, Idx, K
    <3>5. EncRowU(c)'
      BY <1>1, <2>1, <3>2, <3>3, <3>4 DEF EncRowU, URowBase
    <3>6. Values(c)'
      BY <3>2, <3>5 DEF Values
    <3> QED
      BY <2>1, <3>6, ShapeStays, Ends
  <2> QED
    BY <1>1, <2>4, <2>5, <2>6 DEF EncSamples
<1> QED
  BY <1>3, <1>4, <1>5 DEF EncCbdR

LEMMA EncNttRData == ASSUME NEW c, Acts(c), EncNttR PROVE DataOf(c)'
<1>0. state = "ENC_NTT_R"
  BY DEF EncNttR
<1>1. /\ EncTransforms(c) /\ Encrypting(c) /\ ext = c.ext /\ ctl.loop_j \in Idx
      /\ ctl.enc_noise_kind = 0 /\ OpndTo(c, ctl.loop_j)
  BY <1>0, UnitsWait DEF Acts, DataOf, Values, EncTransforms
<1>2. CASE ctl.enc_ntt_phase = 0
  <2>1. Go(state, [ctl EXCEPT !.enc_ntt_phase = 1]) /\ NoStart /\ Quiet
    BY <1>2 DEF EncNttR
  <2>2. state' = "ENC_NTT_R" /\ Kept({"enc_ntt_phase"}) /\ ctl'.enc_ntt_phase = 1
    BY <1>0, <2>1, CtlHas DEF Go, Latched, Kept, Fields, ResetCtl
  <2>3. mem' = mem /\ ext' = ext /\ done' = done /\ "ntt" \notin pulse'
    BY <2>1, ClearsNone DEF Quiet, Cleared, Watched
  <2>4. /\ ctl'.bank = ctl.bank /\ ctl'.dec_reenc_mode = ctl.dec_reenc_mode
        /\ ctl'.enc_noise_kind = 0 /\ ctl'.loop_j = ctl.loop_j /\ ~ctl'.ntt_sent
    BY <1>0, <1>1, <1>2, <2>2 DEF Acts, CoreInv, StreamCount, Kept, Fields, ResetCtl
  <2>5. EncTransforms(c)'
    BY <1>1, <1>2, <2>2, <2>3, <2>4, EncryptingStays DEF EncTransforms, OpndTo, Transforming
  <2>6. Values(c)'
    BY <2>2, <2>5 DEF Values
  <2> QED
    BY <2>3, <2>6, ShapeStays, Ends
<1>3. CASE ctl.enc_ntt_phase = 1 /\ Launch("ntt_sent", [ctl EXCEPT !.intt = FALSE], "ntt")
  <2>1. state' = "ENC_NTT_R" /\ Kept({"ntt_sent", "intt"}) /\ ctl'.intt = FALSE
    BY <1>0, <1>3, CtlHas DEF Launch, Go, Latched, Kept, Fields, ResetCtl
  <2>2. mem' = mem /\ ext' = ext /\ done' = done /\ "ntt" \notin pulse' /\ "ntt" \notin pulse
    BY <1>0, <1>3, Clears, UnitsWait DEF Acts, Launch, Quiet, Cleared, Watched, UnitsAt
  <2>3. /\ ctl'.bank = ctl.bank /\ ctl'.dec_reenc_mode = ctl.dec_reenc_mode
        /\ ctl'.enc_noise_kind = 0 /\ ctl'.loop_j = ctl.loop_j /\ ctl'.enc_ntt_phase = 1
    BY <1>1, <1>3, <2>1 DEF Kept, Fields, ResetCtl
  <2>4. EncTransforms(c)'
    BY <1>1, <1>3, <2>1, <2>2, <2>3, EncryptingStays DEF EncTransforms, OpndTo, Transforming
  <2>5. Values(c)'
    BY <2>1, <2>4 DEF Values
  <2> QED
    BY <2>2, <2>5, ShapeStays, Ends
<1>4. CASE ctl.enc_ntt_phase = 1 /\ Await("ntt_sent", "ntt")
  <2>1. \A e \in Watched : e \notin pulse
    BY <1>0, <1>4, UnitsWait DEF Acts, UnitsAt, Watched, Await
  <2> QED
    BY <1>0, <1>4, <2>1, DataWaits DEF Await
<1>5. CASE /\ ctl.enc_ntt_phase = 1 /\ Finished("ntt_sent", "ntt")
           /\ Go(state, [ctl EXCEPT !.ntt_sent = FALSE, !.enc_ntt_phase = 2])
           /\ NoStart /\ Quiet
  <2>1. /\ state' = "ENC_NTT_R" /\ Kept({"ntt_sent", "enc_ntt_phase"})
        /\ ctl'.enc_ntt_phase = 2 /\ "ntt" \in pulse
    BY <1>0, <1>5, CtlHas DEF Finished, Go, Latched, Kept, Fields, ResetCtl
  <2>2. mem' = mem /\ ext' = ext /\ done' = done
    BY <1>5 DEF Quiet
  <2>3. /\ ctl'.bank = ctl.bank /\ ctl'.dec_reenc_mode = ctl.dec_reenc_mode
        /\ ctl'.enc_noise_kind = 0 /\ ctl'.loop_j = ctl.loop_j
    BY <1>1, <2>1 DEF Kept, Fields, ResetCtl
  <2>4. EncTransforms(c)'
    BY <1>1, <1>5, <2>1, <2>2, <2>3, EncryptingStays DEF EncTransforms, OpndTo, Transforming
  <2>5. Values(c)'
    BY <2>1, <2>4 DEF Values
  <2> QED
    BY <2>2, <2>5, ShapeStays, Ends
<1>6. CASE ctl.enc_ntt_phase \notin {0, 1}
  <2>1. /\ mem' = [mem EXCEPT !.slot[2 + ctl.loop_j] = mem.ram,
                              !.opnd[ctl.loop_j] = mem.ram]
        /\ Go("ENC_CBD_R",
              IF LastLoop(ctl.loop_j)
              THEN [ctl EXCEPT !.loop_j = 0, !.enc_noise_kind = 1]
              ELSE [ctl EXCEPT !.loop_j = @ + 1])
        /\ NoStart /\ ext' = ext /\ done' = done
    BY <1>6 DEF EncNttR
  <2>2. /\ state' = "ENC_CBD_R" /\ ctl'.bank = ctl.bank
        /\ ctl'.dec_reenc_mode = ctl.dec_reenc_mode /\ ~ctl'.hash_sent
    BY <1>0, <2>1, UnitsWait DEF Acts, CoreInv, SpongeWaits, Go, Latched, Fields, ResetCtl
  <2>3. \/ LastLoop(ctl.loop_j) /\ ctl'.loop_j = 0 /\ ctl'.enc_noise_kind = 1
        \/ /\ ~LastLoop(ctl.loop_j) /\ ctl'.loop_j = ctl.loop_j + 1
           /\ ctl'.enc_noise_kind = 0
    BY <1>1, <2>1, CtlHas DEF Go, Latched, Fields, ResetCtl
  <2>4. /\ MemKept({"slot", "opnd"})
        /\ mem'.slot = [mem.slot EXCEPT ![2 + ctl.loop_j] = mem.ram]
        /\ mem'.opnd = [mem.opnd EXCEPT ![ctl.loop_j] = mem.ram]
    BY <2>1 DEF Acts, DataOf, Frame, MemShape, MemKept, MemFields
  <2>5. MemShape'
    <3>1. OnDomain(mem.slot, 0 .. 7) /\ OnDomain(mem.opnd, Idx)
      BY DEF Acts, DataOf, Frame, MemShape
    <3>2. OnDomain(mem'.slot, 0 .. 7)
      BY <2>4, <3>1 DEF OnDomain
    <3>3. OnDomain(mem'.opnd, Idx)
      BY <2>4, <3>1 DEF OnDomain
    <3> QED
      BY <2>4, <3>2, <3>3 DEF Acts, DataOf, Frame, MemShape, MemKept, MemFields
  <2>6. mem.ram = Ntt(RNoise(c, ctl.loop_j))
    BY <1>1, <1>6 DEF EncTransforms
  <2>7. \A j \in Idx : j < ctl.loop_j + 1 => mem'.opnd[j] = Ntt(RNoise(c, j))
    BY <1>1, <2>4, <2>6 DEF Acts, DataOf, Frame, MemShape, OnDomain, OpndTo, Idx, K
  <2>8. mem'.slot[0] = mem.slot[0] /\ mem'.slot[1] = mem.slot[1]
    BY <1>1, <2>4 DEF Acts, DataOf, Frame, MemShape, OnDomain, Idx, K
  <2>9. Encrypting(c)'
    BY <1>1, <2>2, <2>4, <2>8, EncryptingKept
  <2>10. "cbd" \notin pulse'
    BY <2>1, ClearsNone DEF Cleared, Watched
  <2>11. EncSamples(c)'
    BY <1>1, <2>1, <2>2, <2>3, <2>7, <2>9, <2>10 DEF EncSamples, OpndTo, LastLoop, Idx, K
  <2>12. Values(c)'
    BY <2>2, <2>11 DEF Values
  <2> QED
    BY <2>1, <2>5, <2>12, Ends
<1> QED
  BY <1>2, <1>3, <1>4, <1>5, <1>6 DEF EncNttR

LEMMA URowKept ==
    ASSUME NEW c, URowBase(c), MemKept({"ram", "acc"}), ext' = ext, ctl'.bank = ctl.bank,
           ctl'.dec_reenc_mode = ctl.dec_reenc_mode, ctl'.loop_i = ctl.loop_i
    PROVE  URowBase(c)'
<1>1. mem'.slot = mem.slot /\ mem'.opnd = mem.opnd
  BY DEF MemKept, MemFields
<1>2. Encrypting(c)'
  BY <1>1, EncryptingKept DEF URowBase
<1> QED
  BY <1>1, <1>2 DEF URowBase, OpndTo, UPolyTo, UNoiseFrom

LEMMA VRowKept ==
    ASSUME NEW c, VRowBase(c), MemKept({"ram", "acc"}), ext' = ext, ctl'.bank = ctl.bank,
           ctl'.dec_reenc_mode = ctl.dec_reenc_mode
    PROVE  VRowBase(c)'
<1>1. mem'.slot = mem.slot /\ mem'.opnd = mem.opnd
  BY DEF MemKept, MemFields
<1>2. Encrypting(c)'
  BY <1>1, EncryptingKept DEF VRowBase
<1> QED
  BY <1>1, <1>2 DEF VRowBase, OpndTo, UPolyTo

\* The clocks of a row: a product is started, awaited or ended, or the sum
\* goes to the NTT core.
RowStarts ==
    /\ ctl.dp_phase = 3 /\ state' = state /\ mem' = mem
    /\ Kept({"pwma_sent", "bank", "operand_bank", "accumulate", "use_tomont"})
    /\ ctl'.operand_bank = ctl.loop_j /\ ctl'.accumulate = (ctl.loop_j # 0)
    /\ ctl'.use_tomont = FALSE /\ "pwma" \notin pulse /\ Cleared
    /\ ext' = ext /\ done' = done /\ ctl'.bank = 0
RowAwaits == ctl.dp_phase = 3 /\ Await("pwma_sent", "pwma")
RowAdds ==
    /\ ctl.dp_phase = 3 /\ state' = state /\ mem' = mem /\ "pwma" \in pulse
    /\ Kept({"pwma_sent", "loop_j", "dp_phase"}) /\ Cleared
    /\ ext' = ext /\ done' = done /\ ~ctl'.pwma_sent /\ ctl'.bank = 0
    /\ \/ LastLoop(ctl.loop_j) /\ ctl'.dp_phase = 4
       \/ /\ ~LastLoop(ctl.loop_j) /\ ctl'.dp_phase = 3
          /\ ctl'.loop_j = ctl.loop_j + 1
RowTransfers(next) ==
    /\ ctl.dp_phase = 4 /\ state' = next
    /\ MemKept({"ram"}) /\ mem'.ram = mem.acc[0]
    /\ Kept({"ntt_sent", "dp_enable", "dp_phase", "enc_ntt_phase"}) /\ Cleared
    /\ ext' = ext /\ done' = done /\ ~ctl'.ntt_sent
    /\ ctl'.enc_ntt_phase = 1 /\ ctl'.bank = 0

LEMMA RowMoves ==
    ASSUME NEW c, Acts(c), NEW next, Row(next), ctl.dp_phase \in {3, 4}, ctl.bank = 0,
           ctl.loop_j \in Idx
    PROVE  RowStarts \/ RowAwaits \/ RowAdds \/ RowTransfers(next)
<1>1. CASE ctl.dp_phase = 3 /\ Product(ctl.bank, ctl.loop_j, ctl.loop_j # 0, FALSE)
  <2>1. /\ state' = state
        /\ Kept({"pwma_sent", "bank", "operand_bank", "accumulate", "use_tomont"})
        /\ ctl'.operand_bank = ctl.loop_j /\ ctl'.accumulate = (ctl.loop_j # 0)
        /\ ctl'.use_tomont = FALSE /\ ctl'.bank = 0
    BY <1>1, CtlHas, ZenonT(60) DEF Product, Launch, Go, Latched, Kept, Fields, ResetCtl
  <2>2. mem' = mem /\ ext' = ext /\ done' = done /\ ~ctl.pwma_sent /\ Cleared
    BY <1>1, Clears DEF Product, Launch, Quiet
  <2>3. "pwma" \notin pulse
    BY <2>2, UnitsWait DEF Acts, UnitsAt
  <2> QED
    BY <1>1, <2>1, <2>2, <2>3 DEF RowStarts
<1>2. CASE RowAwaits
  BY <1>2
<1>3. CASE /\ ctl.dp_phase = 3 /\ Finished("pwma_sent", "pwma")
           /\ Go(state, IF LastLoop(ctl.loop_j)
                        THEN [ctl EXCEPT !.pwma_sent = FALSE, !.dp_phase = 4]
                        ELSE [ctl EXCEPT !.pwma_sent = FALSE, !.loop_j = @ + 1])
           /\ NoStart /\ Quiet
  <2>1. /\ state' = state /\ Kept({"pwma_sent", "loop_j", "dp_phase"})
        /\ ~ctl'.pwma_sent /\ ctl'.bank = 0
        /\ \/ LastLoop(ctl.loop_j) /\ ctl'.dp_phase = 4
           \/ ~LastLoop(ctl.loop_j) /\ ctl'.dp_phase = 3 /\ ctl'.loop_j = ctl.loop_j + 1
    BY <1>3, CtlHas, ZenonT(60) DEF Go, Latched, Kept, Fields, ResetCtl
  <2>2. mem' = mem /\ ext' = ext /\ done' = done /\ "pwma" \in pulse /\ Cleared
    BY <1>3, ClearsNone DEF Finished, Quiet
  <2> QED
    BY <1>3, <2>1, <2>2 DEF RowAdds
<1>4. CASE /\ ctl.dp_phase = 4
           /\ TransferAcc(next, [ctl EXCEPT !.dp_enable = FALSE, !.dp_phase = 0,
                                            !.enc_ntt_phase = 1])
  <2>1. /\ state' = next /\ Kept({"ntt_sent", "dp_enable", "dp_phase", "enc_ntt_phase"})
        /\ ~ctl'.ntt_sent /\ ctl'.enc_ntt_phase = 1 /\ ctl'.bank = 0
    BY <1>4, CtlHas, ZenonT(60) DEF TransferAcc, Go, Latched, Kept, Fields, ResetCtl
  <2>2. /\ MemKept({"ram"}) /\ mem'.ram = mem.acc[0]
    BY <1>4 DEF Acts, DataOf, Frame, MemShape, TransferAcc, MemKept, MemFields
  <2>3. ext' = ext /\ done' = done /\ Cleared
    BY <1>4, ClearsNone DEF TransferAcc
  <2> QED
    BY <1>4, <2>1, <2>2, <2>3 DEF RowTransfers
<1> QED
  BY <1>1, <1>2, <1>3, <1>4 DEF Row, RowAwaits

LEMMA EncPwmaUData == ASSUME NEW c, Acts(c), EncPwmaU PROVE DataOf(c)'
<1>0. state = "ENC_PWMA_U"
  BY DEF EncPwmaU
<1>1. /\ EncRowU(c) /\ URowBase(c) /\ ctl.loop_i \in Idx /\ ctl.loop_j \in Idx
      /\ ctl.bank = 0 /\ ctl.dp_phase \in {0, 3, 4}
  BY <1>0, UnitsWait DEF Acts, DataOf, Values, EncRowU, URowBase, Encrypting, Encrypts,
     CoreInv, StreamCount
<1>2. CASE ctl.dp_phase = 0
  <2>1. /\ Go(state, [ctl EXCEPT !.gm_transposed = TRUE, !.gm_stream_mode = TRUE,
                                 !.gm_source = TRUE, !.ntt_source = FALSE,
                                 !.dp_enable = TRUE, !.loop_j = 0,
                                 !.pwma_sent = FALSE, !.gm_sent = TRUE,
                                 !.dp_phase = 3])
        /\ StartUnits(IF ctl.gm_sent THEN {} ELSE {"gm"})
        /\ mem' = mem /\ ext' = ext /\ done' = done
    BY <1>2 DEF EncPwmaU, Quiet
  <2>2. /\ state' = "ENC_PWMA_U" /\ ctl'.gm_transposed = TRUE /\ ctl'.loop_j = 0
        /\ ctl'.pwma_sent = FALSE /\ ctl'.dp_phase = 3 /\ ctl'.bank = ctl.bank
        /\ ctl'.dec_reenc_mode = ctl.dec_reenc_mode /\ ctl'.loop_i = ctl.loop_i
    BY <1>0, <2>1, CtlHas DEF Go, Latched, Fields, ResetCtl
  <2>3. "pwma" \notin pulse' /\ MemKept({"ram", "acc"})
    BY <2>1, Clears DEF Cleared, Watched, Acts, DataOf, Frame, MemShape, MemKept
  <2>4. URowBase(c)'
    BY <1>1, <2>1, <2>2, <2>3, URowKept
  <2>5. EncRowU(c)'
    BY <2>2, <2>3, <2>4 DEF EncRowU, RowRuns
  <2>6. Values(c)'
    BY <2>2, <2>5 DEF Values
  <2> QED
    BY <2>1, <2>6, ShapeStays, Ends
<1>3. CASE ctl.dp_phase # 0
  <2>1. Row("ENC_INTT_U")
    BY <1>3 DEF EncPwmaU
  <2>2. CASE RowStarts
    <3>1. /\ ctl'.loop_i = ctl.loop_i /\ ctl'.loop_j = ctl.loop_j /\ ctl'.dp_phase = 3
          /\ ctl'.dec_reenc_mode = ctl.dec_reenc_mode
          /\ ctl'.gm_transposed = ctl.gm_transposed
      BY <2>2 DEF RowStarts, Kept, Fields, ResetCtl
    <3>2. MemKept({"ram", "acc"}) /\ "pwma" \notin pulse'
      BY <2>2 DEF RowStarts, Cleared, Watched, Acts, DataOf, Frame, MemShape, MemKept
    <3>3. URowBase(c)'
      BY <1>1, <2>2, <3>1, <3>2, URowKept DEF RowStarts
    <3>4. EncRowU(c)'
      BY <1>0, <1>1, <2>2, <3>1, <3>2, <3>3 DEF RowStarts, EncRowU, RowRuns
    <3>5. Values(c)'
      BY <1>0, <2>2, <3>4 DEF RowStarts, Values
    <3> QED
      BY <2>2, <3>5, ShapeStays, Ends DEF RowStarts
  <2>3. CASE RowAwaits
    <3>1. \A e \in Watched : e \notin pulse
      BY <1>0, <2>3, UnitsWait DEF RowAwaits, Acts, UnitsAt, Watched, Await
    <3> QED
      BY <1>0, <2>3, <3>1, DataWaits DEF RowAwaits, Await
  <2>4. CASE RowAdds
    <3>1. /\ ctl'.loop_i = ctl.loop_i /\ ctl'.dec_reenc_mode = ctl.dec_reenc_mode
          /\ ctl'.gm_transposed = ctl.gm_transposed
      BY <2>4 DEF RowAdds, Kept, Fields, ResetCtl
    <3>2. MemKept({"ram", "acc"}) /\ "pwma" \notin pulse'
      BY <2>4 DEF RowAdds, Cleared, Watched, Acts, DataOf, Frame, MemShape, MemKept
    <3>3. URowBase(c)'
      BY <1>1, <2>4, <3>1, <3>2, URowKept DEF RowAdds
    <3>4. mem'.acc[0] = USum(c, ctl.loop_i, ctl.loop_j + 1) /\ ctl.gm_transposed
      BY <1>0, <1>1, <2>4 DEF RowAdds, EncRowU
    <3>5. LastLoop(ctl.loop_j) => ctl.loop_j + 1 = K
      BY DEF LastLoop, K
    <3>6. EncRowU(c)'
      BY <1>0, <1>1, <2>4, <3>1, <3>2, <3>3, <3>4, <3>5 DEF RowAdds, EncRowU, RowRuns
    <3>7. Values(c)'
      BY <1>0, <2>4, <3>6 DEF RowAdds, Values
    <3> QED
      BY <2>4, <3>7, ShapeStays, Ends DEF RowAdds
  <2>5. CASE RowTransfers("ENC_INTT_U")
    <3>1. /\ ctl'.loop_i = ctl.loop_i /\ ctl'.dec_reenc_mode = ctl.dec_reenc_mode
      BY <2>5 DEF RowTransfers, Kept, Fields, ResetCtl
    <3>2. MemKept({"ram", "acc"}) /\ "ntt" \notin pulse'
      BY <2>5 DEF RowTransfers, Cleared, Watched, MemKept
    <3>3. URowBase(c)'
      BY <1>1, <2>5, <3>1, <3>2, URowKept DEF RowTransfers
    <3>4. mem'.ram = USum(c, ctl.loop_i, K)
      BY <1>0, <1>1, <2>5 DEF RowTransfers, EncRowU
    <3>5. EncRowU(c)'
      BY <2>5, <3>1, <3>2, <3>3, <3>4 DEF RowTransfers, EncRowU, Transforming
    <3>6. Values(c)'
      BY <2>5, <3>5 DEF RowTransfers, Values
    <3> QED
      BY <2>5, <3>6, ShapeKept, Ends DEF RowTransfers
  <2> QED
    BY <1>1, <1>3, <2>1, <2>2, <2>3, <2>4, <2>5, RowMoves
<1> QED
  BY <1>2, <1>3

LEMMA EncPwmaVData == ASSUME NEW c, Acts(c), EncPwmaV PROVE DataOf(c)'
<1>0. state = "ENC_PWMA_V"
  BY DEF EncPwmaV
<1>1. /\ EncRowV(c) /\ VRowBase(c) /\ ctl.loop_j \in Idx
      /\ ctl.bank = 0 /\ ctl.dp_phase \in {0, 3, 4}
  BY <1>0, UnitsWait DEF Acts, DataOf, Values, EncRowV, VRowBase, Encrypting, Encrypts,
     CoreInv, StreamCount
<1>2. CASE ctl.dp_phase = 0
  <2>1. /\ Go(state, [ctl EXCEPT !.gm_source = FALSE, !.ntt_source = FALSE,
                                 !.dp_enable = TRUE, !.loop_j = 0,
                                 !.pwma_sent = FALSE, !.dp_phase = 3])
        /\ NoStart /\ mem' = mem /\ ext' = ext /\ done' = done
    BY <1>2 DEF EncPwmaV, Quiet
  <2>2. /\ state' = "ENC_PWMA_V" /\ ctl'.loop_j = 0 /\ ctl'.dp_enable = TRUE
        /\ ctl'.gm_source = FALSE /\ ctl'.ntt_source = FALSE
        /\ ctl'.pwma_sent = FALSE /\ ctl'.dp_phase = 3 /\ ctl'.bank = ctl.bank
        /\ ctl'.dec_reenc_mode = ctl.dec_reenc_mode
    BY <1>0, <2>1, CtlHas DEF Go, Latched, Fields, ResetCtl
  <2>3. "pwma" \notin pulse' /\ MemKept({"ram", "acc"})
    BY <2>1, ClearsNone DEF Cleared, Watched, Acts, DataOf, Frame, MemShape, MemKept
  <2>4. VRowBase(c)'
    BY <1>1, <2>1, <2>2, <2>3, VRowKept
  <2>5. EncRowV(c)'
    BY <2>2, <2>3, <2>4 DEF EncRowV, RowRuns
  <2>6. Values(c)'
    BY <2>2, <2>5 DEF Values
  <2> QED
    BY <2>1, <2>6, ShapeStays, Ends
<1>3. CASE ctl.dp_phase # 0
  <2>1. Row("ENC_INTT_V")
    BY <1>3 DEF EncPwmaV
  <2>2. CASE RowStarts
    <3>1. /\ ctl'.loop_j = ctl.loop_j /\ ctl'.dp_phase = 3
          /\ ctl'.dec_reenc_mode = ctl.dec_reenc_mode /\ ctl'.dp_enable = ctl.dp_enable
          /\ ctl'.gm_source = ctl.gm_source /\ ctl'.ntt_source = ctl.ntt_source
      BY <2>2 DEF RowStarts, Kept, Fields, ResetCtl
    <3>2. MemKept({"ram", "acc"}) /\ "pwma" \notin pulse'
      BY <2>2 DEF RowStarts, Cleared, Watched, Acts, DataOf, Frame, MemShape, MemKept
    <3>3. VRowBase(c)'
      BY <1>1, <2>2, <3>1, <3>2, VRowKept DEF RowStarts
    <3>4. EncRowV(c)'
      BY <1>0, <1>1, <2>2, <3>1, <3>2, <3>3 DEF RowStarts, EncRowV, RowRuns
    <3>5. Values(c)'
      BY <1>0, <2>2, <3>4 DEF RowStarts, Values
    <3> QED
      BY <2>2, <3>5, ShapeStays, Ends DEF RowStarts
  <2>3. CASE RowAwaits
    <3>1. \A e \in Watched : e \notin pulse
      BY <1>0, <2>3, UnitsWait DEF RowAwaits, Acts, UnitsAt, Watched, Await
    <3> QED
      BY <1>0, <2>3, <3>1, DataWaits DEF RowAwaits, Await
  <2>4. CASE RowAdds
    <3>1. /\ ctl'.dec_reenc_mode = ctl.dec_reenc_mode /\ ctl'.dp_enable = ctl.dp_enable
          /\ ctl'.gm_source = ctl.gm_source /\ ctl'.ntt_source = ctl.ntt_source
      BY <2>4 DEF RowAdds, Kept, Fields, ResetCtl
    <3>2. MemKept({"ram", "acc"}) /\ "pwma" \notin pulse'
      BY <2>4 DEF RowAdds, Cleared, Watched, Acts, DataOf, Frame, MemShape, MemKept
    <3>3. VRowBase(c)'
      BY <1>1, <2>4, <3>1, <3>2, VRowKept DEF RowAdds
    <3>4. /\ mem'.acc[0] = VSum(c, ctl.loop_j + 1)
          /\ ctl.dp_enable /\ ~ctl.gm_source /\ ~ctl.ntt_source
      BY <1>0, <1>1, <2>4 DEF RowAdds, EncRowV
    <3>5. LastLoop(ctl.loop_j) => ctl.loop_j + 1 = K
      BY DEF LastLoop, K
    <3>6. EncRowV(c)'
      BY <1>0, <1>1, <2>4, <3>1, <3>2, <3>3, <3>4, <3>5 DEF RowAdds, EncRowV, RowRuns
    <3>7. Values(c)'
      BY <1>0, <2>4, <3>6 DEF RowAdds, Values
    <3> QED
      BY <2>4, <3>7, ShapeStays, Ends DEF RowAdds
  <2>5. CASE RowTransfers("ENC_INTT_V")
    <3>1. ctl'.dec_reenc_mode = ctl.dec_reenc_mode
      BY <2>5 DEF RowTransfers, Kept, Fields, ResetCtl
    <3>2. MemKept({"ram", "acc"}) /\ "ntt" \notin pulse'
      BY <2>5 DEF RowTransfers, Cleared, Watched, MemKept
    <3>3. VRowBase(c)'
      BY <1>1, <2>5, <3>1, <3>2, VRowKept DEF RowTransfers
    <3>4. mem'.ram = VSum(c, K)
      BY <1>0, <1>1, <2>5 DEF RowTransfers, EncRowV
    <3>5. EncRowV(c)'
      BY <2>5, <3>1, <3>2, <3>3, <3>4 DEF RowTransfers, EncRowV, Transforming
    <3>6. Values(c)'
      BY <2>5, <3>5 DEF RowTransfers, Values
    <3> QED
      BY <2>5, <3>6, ShapeKept, Ends DEF RowTransfers
  <2> QED
    BY <1>1, <1>3, <2>1, <2>2, <2>3, <2>4, <2>5, RowMoves
<1> QED
  BY <1>2, <1>3

\* One clock of an inverse transform.
LEMMA InverseMoves ==
    ASSUME NEW c, Acts(c),
           \/ /\ ctl.enc_ntt_phase = 1
              /\ \/ Launch("ntt_sent", [ctl EXCEPT !.intt = TRUE], "ntt")
                 \/ /\ Finished("ntt_sent", "ntt")
                    /\ Go(state, [ctl EXCEPT !.ntt_sent = FALSE, !.enc_ntt_phase = 2])
                    /\ NoStart /\ Quiet,
           state \in {"ENC_INTT_U", "ENC_INTT_V"}
    PROVE  /\ state' = state /\ mem' = mem /\ ext' = ext /\ done' = done
           /\ ctl'.loop_i = ctl.loop_i /\ ctl'.bank = ctl.bank
           /\ ctl'.dec_reenc_mode = ctl.dec_reenc_mode
           /\ \/ /\ ctl'.enc_ntt_phase = 1 /\ ctl'.intt = TRUE
                 /\ "ntt" \notin pulse /\ "ntt" \notin pulse'
              \/ ctl'.enc_ntt_phase = 2 /\ "ntt" \in pulse
<1>1. CASE Launch("ntt_sent", [ctl EXCEPT !.intt = TRUE], "ntt") /\ ctl.enc_ntt_phase = 1
  <2>1. /\ state' = state /\ ctl'.loop_i = ctl.loop_i /\ ctl'.bank = ctl.bank
        /\ ctl'.dec_reenc_mode = ctl.dec_reenc_mode
        /\ ctl'.enc_ntt_phase = 1 /\ ctl'.intt = TRUE
    BY <1>1, CtlHas DEF Launch, Go, Latched, Fields, ResetCtl
  <2>2. /\ mem' = mem /\ ext' = ext /\ done' = done
        /\ "ntt" \notin pulse /\ "ntt" \notin pulse'
    BY <1>1, Clears, UnitsWait DEF Acts, Launch, Quiet, Cleared, Watched, UnitsAt
  <2> QED
    BY <2>1, <2>2
<1>2. CASE /\ Finished("ntt_sent", "ntt") /\ ctl.enc_ntt_phase = 1
           /\ Go(state, [ctl EXCEPT !.ntt_sent = FALSE, !.enc_ntt_phase = 2])
           /\ NoStart /\ Quiet
  BY <1>2, CtlHas DEF Finished, Quiet, Go, Latched, Fields, ResetCtl
<1> QED
  BY <1>1, <1>2

LEMMA EncInttUData == ASSUME NEW c, Acts(c), EncInttU PROVE DataOf(c)'
<1>0. state = "ENC_INTT_U"
  BY DEF EncInttU
<1>1. /\ EncRowU(c) /\ URowBase(c) /\ ctl.loop_i \in Idx /\ ctl.enc_ntt_phase \in {1, 2}
      /\ Encrypting(c) /\ ext = c.ext
  BY <1>0, UnitsWait DEF Acts, DataOf, Values, EncRowU, URowBase, CoreInv, StreamCount
<1>2. CASE ctl.enc_ntt_phase = 1 /\ Await("ntt_sent", "ntt")
  <2>1. \A e \in Watched : e \notin pulse
    BY <1>0, <1>2, UnitsWait DEF Acts, UnitsAt, Watched, Await
  <2> QED
    BY <1>0, <1>2, <2>1, DataWaits DEF Await
<1>3. CASE ctl.enc_ntt_phase = 1 /\ ~Await("ntt_sent", "ntt")
  <2>1. /\ state' = state /\ mem' = mem /\ ext' = ext /\ done' = done
        /\ ctl'.loop_i = ctl.loop_i /\ ctl'.bank = ctl.bank
        /\ ctl'.dec_reenc_mode = ctl.dec_reenc_mode
        /\ \/ /\ ctl'.enc_ntt_phase = 1 /\ ctl'.intt = TRUE
              /\ "ntt" \notin pulse /\ "ntt" \notin pulse'
           \/ ctl'.enc_ntt_phase = 2 /\ "ntt" \in pulse
    <3>1. \/ Launch("ntt_sent", [ctl EXCEPT !.intt = TRUE], "ntt")
          \/ /\ Finished("ntt_sent", "ntt")
             /\ Go(state, [ctl EXCEPT !.ntt_sent = FALSE, !.enc_ntt_phase = 2])
             /\ NoStart /\ Quiet
      BY <1>3 DEF EncInttU, Inverse
    <3> QED
      BY <1>0, <1>3, <3>1, InverseMoves
  <2>2. MemKept({"ram", "acc"})
    BY <2>1 DEF Acts, DataOf, Frame, MemShape, MemKept
  <2>3. URowBase(c)'
    BY <1>1, <2>1, <2>2, URowKept
  <2>4. Transforming(USum(c, ctl.loop_i, K), Intt(USum(c, ctl.loop_i, K)), TRUE)
    BY <1>0, <1>1, <1>3 DEF EncRowU
  <2>5. EncRowU(c)'
    BY <1>0, <2>1, <2>3, <2>4 DEF EncRowU, Transforming
  <2>6. Values(c)'
    BY <1>0, <2>1, <2>5 DEF Values
  <2> QED
    BY <2>1, <2>6, ShapeStays, Ends
<1>4. CASE ctl.enc_ntt_phase = 2
  <2> DEFINE d == [ctl EXCEPT !.enc_ntt_phase = 0, !.loop_j = 0, !.dp_phase = 0]
  <2>1. /\ mem' = [mem EXCEPT !.slot[4 + ctl.loop_i] = Add(mem.ram, @)]
        /\ IF LastLoop(ctl.loop_i)
           THEN Go("ENC_PWMA_V", EndOfMatrix(d))
           ELSE Go("ENC_PWMA_U", [d EXCEPT !.loop_i = @ + 1])
        /\ ext' = ext /\ done' = done
    BY <1>4 DEF EncInttU, Inverse
  <2>2. /\ MemKept({"slot"})
        /\ mem'.slot = [mem.slot EXCEPT ![4 + ctl.loop_i]
                                            = Add(mem.ram, mem.slot[4 + ctl.loop_i])]
    BY <2>1 DEF Acts, DataOf, Frame, MemShape, MemKept, MemFields
  <2>3. MemShape'
    BY <2>2, ExceptShape DEF Acts, DataOf, Frame, MemShape, MemKept, MemFields
  <2>4. Add(mem.ram, mem.slot[4 + ctl.loop_i]) = UPoly(c, ctl.loop_i)
    BY <1>0, <1>1, <1>4 DEF EncRowU, URowBase, UNoiseFrom, UPoly, Idx
  <2>5. /\ \A i \in Idx : i < ctl.loop_i + 1 => mem'.slot[4 + i] = UPoly(c, i)
        /\ \A i \in Idx : i >= ctl.loop_i + 1 => mem'.slot[4 + i] = UNoise(c, i)
        /\ mem'.slot[0] = mem.slot[0] /\ mem'.slot[1] = mem.slot[1]
        /\ mem'.slot[6] = mem.slot[6]
    BY <1>1, <2>2, <2>4 DEF Acts, DataOf, Frame, MemShape, OnDomain, URowBase, UPolyTo,
       UNoiseFrom, Idx, K
  <2>6. ctl'.bank = ctl.bank /\ ctl'.dec_reenc_mode = ctl.dec_reenc_mode /\ ctl'.dp_phase = 0
    BY <2>1, CtlHas, ZenonT(60) DEF EndOfMatrix, Go, Latched, Fields, ResetCtl
  <2>7. Encrypting(c)' /\ OpndTo(c, K)' /\ mem'.slot[6] = VNoise(c)
    <3>1. Encrypting(c)'
      BY <1>1, <2>2, <2>5, <2>6, EncryptingKept
    <3>2. mem'.opnd = mem.opnd
      BY <2>2 DEF MemKept, MemFields
    <3> QED
      BY <1>1, <2>5, <3>1, <3>2 DEF URowBase, OpndTo
  <2>8. CASE LastLoop(ctl.loop_i)
    <3>1. state' = "ENC_PWMA_V" /\ ctl.loop_i + 1 = K
      BY <2>1, <2>8 DEF Go, LastLoop, K
    <3>2. UPolyTo(c, K)'
      BY <2>5, <3>1 DEF UPolyTo
    <3>3. EncRowV(c)'
      BY <1>1, <2>1, <2>6, <2>7, <3>1, <3>2 DEF EncRowV, VRowBase
    <3>4. Values(c)'
      BY <3>1, <3>3 DEF Values
    <3> QED
      BY <2>1, <2>3, <3>4, Ends
  <2>9. CASE ~LastLoop(ctl.loop_i)
    <3>1. state' = "ENC_PWMA_U" /\ ctl'.loop_i = ctl.loop_i + 1
      BY <2>1, <2>9, CtlHas, ZenonT(60) DEF Go, Latched, Fields, ResetCtl
    <3>2. UPolyTo(c, ctl.loop_i)' /\ UNoiseFrom(c, ctl.loop_i)'
      BY <2>5, <3>1 DEF UPolyTo, UNoiseFrom
    <3>3. EncRowU(c)'
      BY <1>1, <2>1, <2>6, <2>7, <3>1, <3>2 DEF EncRowU, URowBase
    <3>4. Values(c)'
      BY <3>1, <3>3 DEF Values
    <3> QED
      BY <2>1, <2>3, <3>4, Ends
  <2> QED
    BY <2>8, <2>9
<1> QED
  BY <1>1, <1>2, <1>3, <1>4

LEMMA EncInttVData == ASSUME NEW c, Acts(c), EncInttV PROVE DataOf(c)'
<1>0. state = "ENC_INTT_V"
  BY DEF EncInttV
<1>1. /\ EncRowV(c) /\ VRowBase(c) /\ ctl.enc_ntt_phase \in {1, 2}
      /\ Encrypting(c) /\ ext = c.ext
  BY <1>0 DEF Acts, DataOf, Values, EncRowV, VRowBase, CoreInv, StreamCount
<1>2. CASE ctl.enc_ntt_phase = 1 /\ Await("ntt_sent", "ntt")
  <2>1. \A e \in Watched : e \notin pulse
    BY <1>0, <1>2, UnitsWait DEF Acts, UnitsAt, Watched, Await
  <2> QED
    BY <1>0, <1>2, <2>1, DataWaits DEF Await
<1>3. CASE ctl.enc_ntt_phase = 1 /\ ~Await("ntt_sent", "ntt")
  <2>1. /\ state' = state /\ mem' = mem /\ ext' = ext /\ done' = done
        /\ ctl'.bank = ctl.bank /\ ctl'.dec_reenc_mode = ctl.dec_reenc_mode
        /\ \/ /\ ctl'.enc_ntt_phase = 1 /\ ctl'.intt = TRUE
              /\ "ntt" \notin pulse /\ "ntt" \notin pulse'
           \/ ctl'.enc_ntt_phase = 2 /\ "ntt" \in pulse
    <3>1. \/ Launch("ntt_sent", [ctl EXCEPT !.intt = TRUE], "ntt")
          \/ /\ Finished("ntt_sent", "ntt")
             /\ Go(state, [ctl EXCEPT !.ntt_sent = FALSE, !.enc_ntt_phase = 2])
             /\ NoStart /\ Quiet
      BY <1>3 DEF EncInttV, Inverse
    <3> QED
      BY <1>0, <1>3, <3>1, InverseMoves
  <2>2. MemKept({"ram", "acc"})
    BY <2>1 DEF Acts, DataOf, Frame, MemShape, MemKept
  <2>3. VRowBase(c)'
    BY <1>1, <2>1, <2>2, VRowKept
  <2>4. Transforming(VSum(c, K), Intt(VSum(c, K)), TRUE)
    BY <1>0, <1>1, <1>3 DEF EncRowV
  <2>5. EncRowV(c)'
    BY <1>0, <2>1, <2>3, <2>4 DEF EncRowV, Transforming
  <2>6. Values(c)'
    BY <1>0, <2>1, <2>5 DEF Values
  <2> QED
    BY <2>1, <2>6, ShapeStays, Ends
<1>4. CASE ctl.enc_ntt_phase = 2
  <2>1. /\ mem' = [mem EXCEPT !.slot[6] = AddMsg(mem.ram, @, mem.m)]
        /\ Go("ENC_PACK", [ctl EXCEPT !.enc_ntt_phase = 0, !.ct_pack_sent = FALSE])
        /\ ext' = ext /\ done' = done
    BY <1>4 DEF EncInttV, Inverse
  <2>2. /\ MemKept({"slot"})
        /\ mem'.slot = [mem.slot EXCEPT ![6] = AddMsg(mem.ram, mem.slot[6], mem.m)]
    BY <2>1 DEF Acts, DataOf, Frame, MemShape, MemKept, MemFields
  <2>3. MemShape'
    BY <2>2, ExceptShape DEF Acts, DataOf, Frame, MemShape, MemKept, MemFields
  <2>4. AddMsg(mem.ram, mem.slot[6], mem.m) = VPoly(c)
    BY <1>0, <1>1, <1>4 DEF EncRowV, VRowBase, Encrypting, VPoly
  <2>5. /\ \A i \in Idx : mem'.slot[4 + i] = mem.slot[4 + i]
        /\ mem'.slot[0] = mem.slot[0] /\ mem'.slot[1] = mem.slot[1]
        /\ mem'.slot[6] = VPoly(c)
    BY <2>2, <2>4 DEF Acts, DataOf, Frame, MemShape, OnDomain, Idx, K
  <2>6. /\ state' = "ENC_PACK" /\ ctl'.bank = ctl.bank
        /\ ctl'.dec_reenc_mode = ctl.dec_reenc_mode /\ ctl'.ct_pack_sent = FALSE
    BY <2>1, CtlHas DEF Go, Latched, Fields, ResetCtl
  <2>7. Encrypting(c)'
    BY <1>1, <2>2, <2>5, <2>6, EncryptingKept
  <2>8. EncPacks(c)'
    BY <1>1, <2>1, <2>5, <2>6, <2>7 DEF EncPacks, VRowBase, UPolyTo
  <2>9. Values(c)'
    BY <2>6, <2>8 DEF Values
  <2> QED
    BY <2>1, <2>3, <2>9, Ends
<1> QED
  BY <1>1, <1>2, <1>3, <1>4

LEMMA CtEqual ==
    ASSUME NEW x, NEW y, CtShape(x), CtShape(y)
    PROVE  x = y <=> \A n \in Parts : Part(x, n) = Part(y, n)
<1>1. ASSUME \A n \in Parts : Part(x, n) = Part(y, n) PROVE x = y
  <2>1. x.v = y.v /\ \A n \in Idx : x.u[n] = y.u[n]
    <3>1. \A n \in Idx : n \in Parts /\ n < K
      BY DEF Idx, Parts, K
    <3>2. K \in Parts /\ ~(K < K)
      BY DEF Parts, K
    <3> QED
      BY <1>1, <3>1, <3>2 DEF Part
  <2>2. x.u = y.u
    BY <2>1, SameFields DEF CtShape
  <2>3. \A f \in {"u", "v"} : x[f] = y[f]
    BY <2>1, <2>2
  <2> QED
    BY <2>3, SameFields DEF CtShape
<1> QED
  BY <1>1

\* The packed polynomials are the ciphertext of the reference.
LEMMA CiphertextIsKem ==
    ASSUME NEW c
    PROVE  CtShape(Ciphertext(c)) /\ Ciphertext(c) = indcpa_enc(Key(c), Msg(c), CoinsOf(c))
<1>1. CtShape(Ciphertext(c))
  BY DEF Ciphertext, CtShape, OnDomain
<1>2. \A i \in Idx : Below(URow(c, i), K)
          = {Mul(A(Key(c).rho, j, i), Ntt(Cbd(3, CoinsOf(c), j)), FALSE) : j \in Idx}
  BY DEF Below, URow, RNoise, Idx, K
<1>3. Below(VRow(c), K) = {Mul(Key(c).t[j], Ntt(Cbd(3, CoinsOf(c), j)), FALSE) : j \in Idx}
  BY DEF Below, VRow, RNoise, Idx, K
<1>4. \A i \in Idx : UPoly(c, i)
          = Add(Intt(Sum({Mul(A(Key(c).rho, j, i), Ntt(Cbd(3, CoinsOf(c), j)), FALSE)
                            : j \in Idx})),
                Cbd(2, CoinsOf(c), K + i))
  BY <1>2 DEF UPoly, USum, UNoise
<1>5. VPoly(c)
        = AddMsg(Intt(Sum({Mul(Key(c).t[j], Ntt(Cbd(3, CoinsOf(c), j)), FALSE) : j \in Idx})),
                 Cbd(2, CoinsOf(c), 2 * K), Msg(c))
  BY <1>3 DEF VPoly, VSum, VNoise
<1> QED
  BY <1>1, <1>4, <1>5 DEF Ciphertext, indcpa_enc

LEMMA EncPackData == ASSUME NEW c, Acts(c), EncPack PROVE DataOf(c)'
<1>0. state = "ENC_PACK" /\ ext' = ext /\ done' = done
  BY DEF EncPack
<1>1. /\ EncPacks(c) /\ Encrypting(c) /\ UPolyTo(c, K) /\ mem.slot[6] = VPoly(c)
      /\ ext.pk = c.ext.pk /\ ext.sk = c.ext.sk /\ ext.ss = c.ext.ss
      /\ c.op = DECAPS => ext = c.ext
      /\ (ctl.dec_reenc_mode <=> c.op = DECAPS) /\ c.op \in {ENCAPS, DECAPS}
  BY <1>0 DEF Acts, DataOf, Values, EncPacks, Encrypting, Encrypts
<1> DEFINE leaving == "ctpack" \in pulse /\ ctl.ct_cap_idx > K
           d == [ctl EXCEPT !.ct_pack_sent = ~leaving,
                            !.ct_cap_idx = IF ~ctl.ct_pack_sent THEN 0 ELSE @]
           E == (IF ~ctl.ct_pack_sent THEN {"ctpack"} ELSE {}) \cup
                (IF leaving /\ ctl.dec_reenc_mode THEN {"cmp"} ELSE {})
<1>2. /\ IF leaving
         THEN Go(IF ctl.dec_reenc_mode THEN "DEC_CMP" ELSE "ENC_WRITE_SS",
                 [d EXCEPT !.hash_sent = FALSE,
                           !.ss_ready = IF ctl.dec_reenc_mode THEN @ ELSE FALSE])
         ELSE Go(state, d)
      /\ mem' = IF ~ctl.ct_pack_sent /\ ctl.dec_reenc_mode THEN ClearedDiff(mem) ELSE mem
      /\ StartUnits(E)
  BY DEF EncPack
<1>3. ctl'.bank = ctl.bank /\ ctl'.dec_reenc_mode = ctl.dec_reenc_mode
  <2> HIDE DEF leaving
  <2> QED
    BY <1>2, CtlHas, ZenonT(60) DEF Go, Latched, Fields, ResetCtl
<1>4. CASE ~ctl.ct_pack_sent
  <2>1. ~leaving /\ "ctpack" \notin run
    BY <1>0, <1>4 DEF Acts, CoreInv, PackWaits, PackedStates, K
  <2> HIDE DEF leaving
  <2>2. state' = "ENC_PACK" /\ ctl'.ct_cap_idx = 0
    BY <1>0, <1>2, <1>4, <2>1, CtlHas DEF Go, Latched, Fields, ResetCtl
  <2>3. out'["ctpack"] = 0
    BY <1>2, <1>4, <2>1 DEF StartUnits, Acts, CoreInv, CoreTypes
  <2>4. /\ MemKept({"diff"})
        /\ mem'.diff = IF ctl.dec_reenc_mode THEN FALSE ELSE mem.diff
    BY <1>2, <1>4 DEF Acts, DataOf, Frame, MemShape, MemKept, MemFields, ClearedDiff
  <2>5. mem'.slot = mem.slot
    BY <2>4 DEF MemKept, MemFields
  <2>6. Encrypting(c)'
    BY <1>1, <1>3, <2>4, <2>5, EncryptingKept
  <2>7. EncPacks(c)'
    BY <1>0, <1>1, <2>2, <2>3, <2>4, <2>5, <2>6 DEF EncPacks, UPolyTo, Parts, ENCAPS, DECAPS
  <2>8. Values(c)'
    BY <2>2, <2>7 DEF Values
  <2> QED
    BY <1>0, <2>4, <2>8, ShapeKept, Ends
<1>5. CASE ctl.ct_pack_sent /\ ~leaving
  <2>1. state' = "ENC_PACK" /\ ctl'.ct_cap_idx = ctl.ct_cap_idx /\ mem' = mem
    <3> HIDE DEF leaving
    <3> QED
      BY <1>0, <1>2, <1>5, CtlHas DEF Go, Latched, Fields, ResetCtl
  <2>2. out'["ctpack"] = out["ctpack"]
    BY <1>2, <1>5 DEF StartUnits, Acts, CoreInv, CoreTypes
  <2>3. Encrypting(c)'
    BY <1>1, <1>3, <2>1, EncryptingStays
  <2>4. EncPacks(c)'
    BY <1>0, <1>1, <1>5, <2>1, <2>2, <2>3 DEF EncPacks, UPolyTo
  <2>5. Values(c)'
    BY <2>1, <2>4 DEF Values
  <2> QED
    BY <1>0, <2>1, <2>5, ShapeStays, Ends
<1>6. CASE ctl.ct_pack_sent /\ leaving
  <2>1. /\ state' = IF ctl.dec_reenc_mode THEN "DEC_CMP" ELSE "ENC_WRITE_SS"
        /\ mem' = mem
    BY <1>2, <1>6 DEF Go
  <2>2. \A n \in Parts : n < ctl.ct_cap_idx
    BY <1>1, <1>6 DEF EncPacks, Parts, K
  <2>3. CASE c.op = ENCAPS
    <3>1. \A n \in Parts : Part(ext.ct, n) = Part(Ciphertext(c), n)
      BY <1>1, <1>6, <2>2, <2>3 DEF EncPacks
    <3>2. ext.ct = Ciphertext(c)
      BY <3>1, CtEqual, CiphertextIsKem DEF Acts, DataOf, Frame, ExtShape
    <3>3. state' = "ENC_WRITE_SS"
      BY <1>1, <2>1, <2>3 DEF ENCAPS, DECAPS
    <3>4. EncWrites(c)'
      BY <1>0, <1>1, <2>1, <2>3, <3>2 DEF EncWrites, Encrypting
    <3>5. Values(c)'
      BY <3>3, <3>4 DEF Values
    <3> QED
      BY <1>0, <2>1, <3>5, ShapeStays, Ends
  <2>4. CASE c.op = DECAPS
    <3>1. mem.diff <=> \E n \in Parts : Part(Ciphertext(c), n) # Part(c.ext.ct, n)
      BY <1>1, <1>6, <2>2, <2>4 DEF EncPacks
    <3>2. mem.diff <=> Ciphertext(c) # c.ext.ct
      BY <3>1, CtEqual, CiphertextIsKem DEF Acts, DataOf, Frame, ExtShape
    <3>3. state' = "DEC_CMP"
      BY <1>1, <2>1, <2>4
    <3>4. DecCompares(c)'
      BY <1>0, <1>1, <2>1, <2>4, <3>2, <3>3 DEF DecCompares, Encrypting, DecKeeps
    <3>5. Values(c)'
      BY <3>3, <3>4 DEF Values
    <3> QED
      BY <1>0, <2>1, <3>5, ShapeStays, Ends
  <2> QED
    BY <1>1, <2>3, <2>4
<1> QED
  BY <1>4, <1>5, <1>6

\* The secret is written out and the operation ends.
LEMMA WriteSecretData ==
    ASSUME NEW c, Acts(c), WriteSecret,
           \/ state = "ENC_WRITE_SS" /\ EncWrites(c)
           \/ state = "DEC_PACK" /\ DecCompares(c)
    PROVE  DataOf(c)'
<1>1. CASE ~ctl.ss_ready
  <2>1. /\ Go(state, [ctl EXCEPT !.hash_sent = FALSE, !.ss_ready = TRUE])
        /\ mem' = mem /\ ext' = ext /\ done' = done
    BY <1>1 DEF WriteSecret, Quiet
  <2>2. state' = state
    BY <2>1 DEF Go
  <2>3. Values(c)'
    <3>1. CASE state = "ENC_WRITE_SS" /\ EncWrites(c)
      <4>1. EncWrites(c)'
        BY <2>1, <3>1 DEF EncWrites
      <4> QED
        BY <2>2, <3>1, <4>1 DEF Values
    <3>2. CASE state = "DEC_PACK" /\ DecCompares(c)
      <4>1. DecCompares(c)'
        BY <2>1, <2>2, <3>2 DEF DecCompares
      <4> QED
        BY <2>2, <3>2, <4>1 DEF Values
    <3> QED
      BY <3>1, <3>2
  <2> QED
    BY <2>1, <2>3, ShapeStays, Ends
<1>2. CASE ctl.ss_ready
  <2>1. ext' = [ext EXCEPT !.ss = mem.kbar] /\ mem' = mem /\ state' = "IDLE"
    BY <1>2 DEF WriteSecret, Finish, Go
  <2>2. ExtShape(ext) /\ ExtShape(c.ext) /\ Frame(c)
    BY DEF Acts, DataOf, Frame
  <2>3. ExtShape(ext')
    BY <2>1, <2>2 DEF ExtShape, OnDomain
  <2>4. ext' = ExpectedOf(c)
    <3>1. CASE state = "ENC_WRITE_SS" /\ EncWrites(c)
      <4> DEFINE e == crypto_kem_enc(c.ext.pk, c.seed[1])
      <4>1. c.op = ENCAPS /\ mem.kbar = KBar(Msg(c), Hash(c)) /\ ext.ct = Ciphertext(c)
            /\ ext.pk = c.ext.pk /\ ext.sk = c.ext.sk
        BY <3>1 DEF EncWrites
      <4>2. Key(c) = c.ext.pk /\ Msg(c) = c.seed[1] /\ Hash(c) = H(c.ext.pk)
        BY <4>1 DEF Key, Msg, Hash, ENCAPS, DECAPS
      <4>3. ext.ct = e.ct /\ mem.kbar = e.ss
        BY <4>1, <4>2, CiphertextIsKem DEF crypto_kem_enc, CoinsOf
      <4>4. ExpectedOf(c) = [c.ext EXCEPT !.ct = e.ct, !.ss = e.ss]
        BY <4>1 DEF ExpectedOf, KEYGEN, ENCAPS, DECAPS
      <4> HIDE DEF e
      <4>5. OnDomain(ext', {"pk", "sk", "ct", "ss"})
            /\ OnDomain(ExpectedOf(c), {"pk", "sk", "ct", "ss"})
        BY <2>2, <2>3, <4>4 DEF ExtShape, OnDomain
      <4>6. \A x \in {"pk", "sk", "ct", "ss"} : ext'[x] = ExpectedOf(c)[x]
        BY <2>1, <2>2, <4>1, <4>3, <4>4 DEF ExtShape, OnDomain
      <4> QED
        BY <4>5, <4>6, SameFields
    <3>2. CASE state = "DEC_PACK" /\ DecCompares(c)
      <4>1. /\ c.op = DECAPS /\ ext = c.ext
            /\ mem.kbar = crypto_kem_dec(c.ext.ct, c.ext.sk)
        BY <3>2 DEF DecCompares
      <4> QED
        BY <2>1, <4>1 DEF ExpectedOf, KEYGEN, ENCAPS, DECAPS
    <3> QED
      BY <3>1, <3>2
  <2>5. Values(c)'
    BY <2>1, <2>4 DEF Values
  <2>6. Frame(c)'
    BY <2>1, <2>2, <2>3, ShapeStays DEF Frame
  <2> QED
    BY <2>5, <2>6 DEF DataOf
<1> QED
  BY <1>1, <1>2

LEMMA EncWriteSsData == ASSUME NEW c, Acts(c), EncWriteSs PROVE DataOf(c)'
<1>1. state = "ENC_WRITE_SS" /\ WriteSecret
  BY DEF EncWriteSs
<1>2. EncWrites(c)
  BY <1>1 DEF Acts, DataOf, Values
<1> QED
  BY <1>1, <1>2, WriteSecretData

LEMMA DecPackData == ASSUME NEW c, Acts(c), DecPack PROVE DataOf(c)'
<1>1. state = "DEC_PACK" /\ WriteSecret
  BY DEF DecPack
<1>2. DecCompares(c)
  BY <1>1 DEF Acts, DataOf, Values
<1> QED
  BY <1>1, <1>2, WriteSecretData

-----------------------------------------------------------------------------
(* Decapsulation *)

LEMMA DecReadData == ASSUME NEW c, Acts(c), DecRead PROVE DataOf(c)'
<1>0. state = "DEC_READ" /\ ext' = ext /\ done' = done
  BY DEF DecRead
<1>1. DecReads(c) /\ c.op = DECAPS /\ Reads(c) /\ ext = c.ext
  BY <1>0 DEF Acts, DataOf, Values, DecReads, Reads
<1>2. CASE ~ctl.sk_reload_done
  <2>1. /\ mem' = [mem EXCEPT !.slot[2] = ext.sk.s[0], !.slot[3] = ext.sk.s[1],
                              !.opnd = ext.sk.s]
        /\ Go(state, [ctl EXCEPT !.sk_reload_done = TRUE, !.pk_in_sk = TRUE])
    BY <1>2 DEF DecRead
  <2>2. /\ state' = "DEC_READ" /\ Kept({"sk_reload_done", "pk_in_sk"})
        /\ ctl'.pk_in_sk = TRUE
    BY <1>0, <2>1, CtlHas DEF Go, Latched, Kept, Fields, ResetCtl
  <2>3. /\ MemKept({"slot", "opnd"}) /\ mem'.opnd = ext.sk.s
        /\ mem'.slot = [[mem.slot EXCEPT ![2] = ext.sk.s[0]] EXCEPT ![3] = ext.sk.s[1]]
    BY <2>1 DEF Acts, DataOf, Frame, MemShape, MemKept, MemFields
  <2>4. MemShape'
    <3>1. OnDomain([mem.slot EXCEPT ![2] = ext.sk.s[0]], 0 .. 7)
      BY ExceptShape DEF Acts, DataOf, Frame, MemShape
    <3>2. OnDomain(mem'.slot, 0 .. 7)
      BY <2>3, <3>1, ExceptShape
    <3>3. OnDomain(mem'.opnd, Idx)
      BY <2>3 DEF Acts, DataOf, Frame, ExtShape, SkShape
    <3> QED
      BY <2>3, <3>2, <3>3 DEF Acts, DataOf, Frame, MemShape, MemKept, MemFields
  <2>5. Reads(c)'
    BY <1>0, <1>1, <2>2 DEF Reads, Encrypts, Kept, Fields, ResetCtl
  <2>6. DecReads(c)'
    BY <1>1, <2>2, <2>3, <2>5 DEF DecReads
  <2>7. Values(c)'
    BY <2>2, <2>6 DEF Values
  <2> QED
    BY <1>0, <2>4, <2>7, Ends
<1>3. CASE ctl.sk_reload_done
  <2>1. Go("ENC_READ_PK", [ctl EXCEPT !.sk_reload_done = FALSE]) /\ mem' = mem
    BY <1>3 DEF DecRead
  <2>2. /\ state' = "ENC_READ_PK" /\ Kept({"sk_reload_done"}) /\ ~ctl'.sk_reload_done
        /\ ctl'.pk_in_sk = ctl.pk_in_sk
    BY <2>1, CtlHas DEF Go, Latched, Kept, Fields, ResetCtl
  <2>3. Reads(c)'
    BY <1>0, <1>1, <2>2 DEF Reads, Encrypts, Kept, Fields, ResetCtl
  <2>4. EncReads(c)'
    BY <1>0, <1>1, <1>3, <2>1, <2>2, <2>3 DEF DecReads, EncReads
  <2>5. Values(c)'
    BY <2>2, <2>4 DEF Values
  <2> QED
    BY <1>0, <2>1, <2>5, ShapeStays, Ends
<1> QED
  BY <1>2, <1>3

LEMMA DecReadRestData == ASSUME NEW c, Acts(c), DecReadRest PROVE DataOf(c)'
<1>0. /\ state = "DEC_READ_REST" /\ state' = "DEC_READ_CT" /\ ext' = ext /\ done' = done
  BY DEF DecReadRest, Go
<1>1. DecReads(c) /\ c.op = DECAPS /\ Reads(c) /\ ext = c.ext
  BY <1>0 DEF Acts, DataOf, Values, DecReads, Reads
<1>2. Kept({"hash_sent"})
  BY CtlHas DEF DecReadRest, Go, Latched, Kept, Fields, ResetCtl
<1>3. MemKept({"hpk", "z"}) /\ mem'.hpk = ext.sk.h /\ mem'.z = ext.sk.z
  BY DEF DecReadRest, Acts, DataOf, Frame, MemShape, MemKept, MemFields
<1>4. mem'.hpk = Hash(c)
  BY <1>1, <1>3 DEF Hash
<1>5. Reads(c)'
  BY <1>0, <1>1, <1>2 DEF Reads, Encrypts, Kept, Fields, ResetCtl
<1>6. PublicIn(c)' /\ mem'.opnd = mem.opnd
  BY <1>0, <1>1, <1>3 DEF DecReads, PublicIn, MemKept, MemFields
<1>7. DecReads(c)'
  BY <1>0, <1>1, <1>3, <1>4, <1>5, <1>6 DEF DecReads
<1>8. Values(c)'
  BY <1>0, <1>7 DEF Values
<1> QED
  BY <1>0, <1>3, <1>8, ShapeKept, Ends

LEMMA DecReadCtData == ASSUME NEW c, Acts(c), DecReadCt PROVE DataOf(c)'
<1>0. state = "DEC_READ_CT" /\ ext' = ext /\ done' = done
  BY DEF DecReadCt
<1>1. DecReads(c) /\ c.op = DECAPS /\ Reads(c) /\ ext = c.ext
  BY <1>0 DEF Acts, DataOf, Values, DecReads, Reads
<1>2. CASE ~ctl.hash_sent
  <2>1. Go(state, [ctl EXCEPT !.hash_sent = TRUE]) /\ mem' = mem
    BY <1>2 DEF DecReadCt
  <2>2. state' = "DEC_READ_CT" /\ Kept({"hash_sent"})
    BY <1>0, <2>1, CtlHas DEF Go, Latched, Kept, Fields, ResetCtl
  <2>3. Reads(c)'
    BY <1>0, <1>1, <2>2 DEF Reads, Encrypts, Kept, Fields, ResetCtl
  <2>4. DecReads(c)'
    BY <1>0, <1>1, <2>1, <2>2, <2>3 DEF DecReads, PublicIn
  <2>5. Values(c)'
    BY <2>2, <2>4 DEF Values
  <2> QED
    BY <1>0, <2>1, <2>5, ShapeStays, Ends
<1>3. CASE ctl.hash_sent
  <2>1. /\ mem' = [mem EXCEPT !.ctram = ext.ct, !.m = Nowhere]
        /\ Go("DEC_DECOMP",
              [ctl EXCEPT !.hash_sent = FALSE, !.dec_j_idx = 0,
                          !.u0_loaded = FALSE, !.u0_started = FALSE,
                          !.u0_done = FALSE, !.unpack_done = FALSE,
                          !.dp_phase = 0, !.dp_enable = FALSE,
                          !.gm_source = FALSE])
    BY <1>3 DEF DecReadCt
  <2>2. /\ state' = "DEC_DECOMP" /\ ctl'.dp_phase = 0 /\ ctl'.bank = ctl.bank
        /\ ctl'.dec_reenc_mode = ctl.dec_reenc_mode
    BY <2>1, CtlHas DEF Go, Latched, Fields, ResetCtl
  <2>3. MemKept({"ctram", "m"}) /\ mem'.ctram = ext.ct
    BY <2>1 DEF Acts, DataOf, Frame, MemShape, MemKept, MemFields
  <2>4. MemShape'
    BY <2>3 DEF Acts, DataOf, Frame, ExtShape, MemShape, MemKept, MemFields
  <2>5. /\ PublicIn(c)' /\ mem'.opnd = c.ext.sk.s /\ mem'.hpk = Hash(c)
        /\ mem'.z = c.ext.sk.z
    BY <1>0, <1>1, <2>3 DEF DecReads, PublicIn, MemKept, MemFields
  <2>6. Reads(c)'
    BY <1>0, <1>1, <2>2 DEF Reads, Encrypts
  <2>7. DecDecrypts(c)'
    BY <1>1, <2>2, <2>3, <2>5, <2>6 DEF DecDecrypts, DecHolds, DecKeeps, DecUnpacks, DecRow
  <2>8. Values(c)'
    BY <2>2, <2>7 DEF Values
  <2> QED
    BY <1>0, <2>4, <2>8, Ends
<1> QED
  BY <1>2, <1>3

LEMMA DecCmpData == ASSUME NEW c, Acts(c), DecCmp PROVE DataOf(c)'
<1>0. state = "DEC_CMP" /\ mem' = mem /\ ext' = ext /\ done' = done
  BY DEF DecCmp, Quiet
<1>1. DecCompares(c)
  BY <1>0 DEF Acts, DataOf, Values
<1>2. CASE "cmp" \in pulse
  <2>1. state' = IF mem.diff THEN "DEC_RKPRF" ELSE "DEC_PACK"
    BY <1>2 DEF DecCmp, Go
  <2>2. CASE mem.diff
    <3>1. DecCompares(c)'
      BY <1>0, <1>1, <2>1, <2>2 DEF DecCompares, DecKeeps
    <3>2. Values(c)'
      BY <2>1, <2>2, <3>1 DEF Values
    <3> QED
      BY <1>0, <3>2, ShapeStays, Ends
  <2>3. CASE ~mem.diff
    <3>1. Ciphertext(c) = c.ext.ct /\ mem.kbar = KBar(Msg(c), Hash(c)) /\ c.op = DECAPS
      BY <1>0, <1>1, <2>3 DEF DecCompares
    <3>2. mem.kbar = crypto_kem_dec(c.ext.ct, c.ext.sk)
      BY <3>1, CiphertextIsKem DEF crypto_kem_dec, CoinsOf, Key, Msg, Hash
    <3>3. DecCompares(c)'
      BY <1>0, <1>1, <2>1, <2>3, <3>2 DEF DecCompares
    <3>4. Values(c)'
      BY <2>1, <2>3, <3>3 DEF Values
    <3> QED
      BY <1>0, <3>4, ShapeStays, Ends
  <2> QED
    BY <2>2, <2>3
<1>3. CASE "cmp" \notin pulse
  <2>1. state' = state
    BY <1>3 DEF DecCmp, Go
  <2>2. DecCompares(c)'
    BY <1>0, <1>1, <2>1 DEF DecCompares, DecKeeps
  <2>3. Values(c)'
    BY <1>0, <2>1, <2>2 DEF Values
  <2> QED
    BY <1>0, <2>3, ShapeStays, Ends
<1> QED
  BY <1>2, <1>3

LEMMA DecRkprfData == ASSUME NEW c, Acts(c), DecRkprf PROVE DataOf(c)'
<1>0. state = "DEC_RKPRF"
  BY DEF DecRkprf
<1>1. DecCompares(c)
  BY <1>0 DEF Acts, DataOf, Values
<1>2. CASE LaunchDigest
  BY <1>0, <1>2, DigestStarts DEF DigestStates
<1>3. CASE Await("hash_sent", "digest")
  BY <1>0, <1>3, DigestWaits DEF DigestStates
<1>4. CASE ~LaunchDigest /\ ~Await("hash_sent", "digest")
  <2>1. /\ state' = "DEC_PACK" /\ mem' = [mem EXCEPT !.kbar = J(mem.z, mem.ctram)]
        /\ ext' = ext /\ done' = done
    BY <1>4 DEF DecRkprf, Go
  <2>2. MemKept({"kbar"}) /\ mem'.kbar = J(mem.z, mem.ctram)
    BY <2>1 DEF Acts, DataOf, Frame, MemShape, MemKept, MemFields
  <2>3. /\ c.op = DECAPS /\ mem.z = c.ext.sk.z /\ mem.ctram = c.ext.ct
        /\ Ciphertext(c) # c.ext.ct
    BY <1>0, <1>1 DEF DecCompares, DecKeeps
  <2>4. mem'.kbar = crypto_kem_dec(c.ext.ct, c.ext.sk)
    BY <2>2, <2>3, CiphertextIsKem DEF crypto_kem_dec, CoinsOf, Key, Msg, Hash
  <2>5. DecCompares(c)'
    BY <1>1, <2>1, <2>4 DEF DecCompares
  <2>6. Values(c)'
    BY <2>1, <2>5 DEF Values
  <2> QED
    BY <2>1, <2>2, <2>6, ShapeKept, Ends
<1> QED
  BY <1>2, <1>3, <1>4

LEMMA HoldsKept ==
    ASSUME NEW c, DecHolds(c), MemKept({"ram", "acc", "slot", "m"}), ext' = ext,
           mem'.slot[0] = mem.slot[0], mem'.slot[1] = mem.slot[1],
           ctl'.bank = ctl.bank, ctl'.dec_reenc_mode = ctl.dec_reenc_mode
    PROVE  DecHolds(c)' /\ mem'.opnd = mem.opnd
BY DEF DecHolds, Reads, Encrypts, PublicIn, DecKeeps, MemKept, MemFields

\* A clock of DEC_DECOMP in which no bank but the NTT core's is written.
LEMMA DecompEnds ==
    ASSUME NEW c, Acts(c), state = "DEC_DECOMP", state' = "DEC_DECOMP",
           MemKept({"ram"}), ext' = ext, done' = done, ctl'.bank = ctl.bank,
           ctl'.dec_reenc_mode = ctl.dec_reenc_mode,
           ctl'.ntt_source = TRUE \/ (ctl.dp_phase # 0 /\ ctl'.ntt_source = ctl.ntt_source),
           DecUnpacks(c)', DecRow(c)'
    PROVE  DataOf(c)'
<1>1. DecHolds(c) /\ mem.opnd = c.ext.sk.s /\ (ctl.dp_phase # 0 => ctl.ntt_source)
  BY DEF Acts, DataOf, Values, DecDecrypts
<1>2. mem'.slot = mem.slot
  BY DEF MemKept, MemFields
<1>3. MemKept({"ram", "acc", "slot", "m"})
  BY DEF MemKept
<1>4. DecHolds(c)' /\ mem'.opnd = mem.opnd
  BY <1>1, <1>2, <1>3, HoldsKept
<1>5. DecDecrypts(c)'
  <2>1. ctl'.ntt_source
    BY <1>1
  <2> QED
    BY <1>1, <1>4, <2>1 DEF DecDecrypts
<1>6. Values(c)'
  BY <1>5 DEF Values
<1> QED
  BY <1>6, ShapeKept, Ends

LEMMA DecUnpackData ==
    ASSUME NEW c, Acts(c), DecUnpack, state = "DEC_DECOMP", ctl.dp_phase = 1
    PROVE  DataOf(c)'
<1> DEFINE ntt_now == ctl.u0_done \/ (ctl.u0_started /\ "ntt" \in pulse)
           unpack_now == ctl.unpack_done \/ "unpack" \in pulse
           start == ctl.u0_loaded /\ ~ctl.u0_started
           d == [ctl EXCEPT !.intt = IF start THEN FALSE ELSE @,
                            !.u0_started = @ \/ start,
                            !.u0_done = ntt_now, !.unpack_done = unpack_now]
<1>1. /\ Go(state, IF ntt_now /\ unpack_now
                   THEN [d EXCEPT !.dec_j_idx = 0, !.dp_phase = 2] ELSE d)
      /\ StartUnits(IF start THEN {"ntt"} ELSE {})
      /\ mem' = mem /\ ext' = ext /\ done' = done
  BY DEF DecUnpack, Quiet
<1>2. /\ DecUnpacks(c) /\ DecHolds(c)
      /\ "ntt" \in pulse => ctl.u0_started /\ ~ctl.u0_done
      /\ ~ctl.pwma_sent
  BY UnitsWait DEF Acts, DataOf, Values, DecDecrypts, CoreInv, PwmaWaits, PwmaTurn, UnitsAt
<1>3. Cleared /\ out'["unpack"] = out["unpack"]
  BY <1>1, Clears DEF StartUnits, Acts, CoreInv, CoreTypes
<1>4. MemKept({"ram"})
  BY <1>1 DEF Acts, DataOf, Frame, MemShape, MemKept
<1>5. CASE ~(ntt_now /\ unpack_now)
  <2>1. /\ state' = state /\ ctl'.u0_done = ntt_now /\ ctl'.unpack_done = unpack_now
        /\ ctl'.u0_started = (ctl.u0_started \/ start)
        /\ ctl'.intt = IF start THEN FALSE ELSE ctl.intt
        /\ ctl'.u0_loaded = ctl.u0_loaded /\ ctl'.dp_phase = 1
        /\ ctl'.bank = ctl.bank /\ ctl'.dec_reenc_mode = ctl.dec_reenc_mode
        /\ ctl'.ntt_source = ctl.ntt_source
    <3> HIDE DEF ntt_now, unpack_now, start
    <3> QED
      BY <1>1, <1>5, CtlHas DEF Go, Latched, Fields, ResetCtl
  <2>2. DecUnpacks(c)'
    BY <1>1, <1>2, <1>3, <2>1 DEF DecUnpacks, Cleared, Watched
  <2>3. DecRow(c)'
    BY <2>1 DEF DecRow
  <2> QED
    BY <1>1, <1>4, <2>1, <2>2, <2>3, DecompEnds
<1>6. CASE ntt_now /\ unpack_now
  <2>1. /\ state' = state /\ ctl'.dec_j_idx = 0 /\ ctl'.dp_phase = 2
        /\ ctl'.bank = ctl.bank /\ ctl'.dec_reenc_mode = ctl.dec_reenc_mode
        /\ ctl'.ntt_source = ctl.ntt_source /\ ctl'.pwma_sent = ctl.pwma_sent
    <3> HIDE DEF ntt_now, unpack_now, start
    <3> QED
      BY <1>1, <1>6, CtlHas DEF Go, Latched, Fields, ResetCtl
  <2>2. out["unpack"] = 3 /\ mem.ram = Ntt(UPart(c, 0))
    BY <1>2, <1>6 DEF DecUnpacks
  <2>3. mem.slot[5] = UPart(c, 1) /\ mem.slot[6] = Unpack(c.ext.ct.v)
    <3>1. /\ mem.slot[4 + 1] = Unpack(Part(c.ext.ct, 1))
          /\ mem.slot[4 + 2] = Unpack(Part(c.ext.ct, 2))
      BY <1>2, <2>2 DEF DecUnpacks
    <3> QED
      BY <3>1 DEF Part, UPart, K
  <2>4. DecRow(c)'
    BY <1>1, <1>2, <1>3, <2>1, <2>2, <2>3 DEF DecRow, Cleared, Watched
  <2>5. DecUnpacks(c)'
    BY <2>1 DEF DecUnpacks
  <2> QED
    BY <1>1, <1>4, <2>1, <2>4, <2>5, DecompEnds
<1> QED
  BY <1>5, <1>6

\* The product of the secret with the ciphertext decodes to the message.
LEMMA SumIsKem ==
    ASSUME NEW c, c.op = DECAPS
    PROVE  Decode(Unpack(c.ext.ct.v), Intt(SSum(c, K))) = Msg(c)
<1>1. Below(SRow(c), K)
        = {Mul(c.ext.sk.s[j], Ntt(Unpack(c.ext.ct.u[j])), FALSE) : j \in Idx}
  BY DEF Below, SRow, UPart, Idx, K
<1>2. Intt(SSum(c, K)) = SecretTimesU(c.ext.sk.s, c.ext.ct.u)
  BY <1>1 DEF SSum, SecretTimesU
<1> QED
  BY <1>2 DEF Msg, indcpa_dec

LEMMA DecDecompData == ASSUME NEW c, Acts(c), DecDecomp PROVE DataOf(c)'
<1>0. state = "DEC_DECOMP"
  BY DEF DecDecomp
<1>1. /\ DecDecrypts(c) /\ DecHolds(c) /\ DecRow(c) /\ ctl.bank = 0 /\ c.op = DECAPS
      /\ mem.opnd = c.ext.sk.s /\ ctl.dec_j_idx \in Idx
  BY <1>0, UnitsWait DEF Acts, DataOf, Values, DecDecrypts, DecHolds, Reads, Encrypts
<1>2. CASE ctl.dp_phase = 0
  <2>1. /\ Go(state, [ctl EXCEPT !.ntt_source = TRUE, !.gm_source = FALSE,
                                 !.dp_enable = TRUE, !.unpack_done = FALSE,
                                 !.u0_loaded = FALSE, !.u0_started = FALSE,
                                 !.u0_done = FALSE, !.dec_j_idx = 0,
                                 !.dp_phase = 1])
        /\ StartUnits({"unpack"}) /\ mem' = mem /\ ext' = ext /\ done' = done
    BY <1>2 DEF DecDecomp, Quiet
  <2>2. /\ state' = "DEC_DECOMP" /\ ctl'.ntt_source = TRUE /\ ctl'.dp_phase = 1
        /\ ctl'.unpack_done = FALSE /\ ctl'.u0_loaded = FALSE /\ ctl'.u0_started = FALSE
        /\ ctl'.u0_done = FALSE /\ ctl'.bank = ctl.bank
        /\ ctl'.dec_reenc_mode = ctl.dec_reenc_mode
    BY <1>0, <2>1, CtlHas DEF Go, Latched, Fields, ResetCtl
  <2>3. "unpack" \notin run
    BY <1>0, <1>2 DEF Acts, CoreInv, PackWaits, Job, Off
  <2>4. out'["unpack"] = 0 /\ Cleared
    BY <2>1, <2>3, Clears DEF StartUnits, Acts, CoreInv, CoreTypes
  <2>5. DecUnpacks(c)' /\ DecRow(c)'
    BY <2>2, <2>4 DEF DecUnpacks, DecRow, Cleared, Watched
  <2>6. MemKept({"ram"})
    BY <2>1 DEF Acts, DataOf, Frame, MemShape, MemKept
  <2> QED
    BY <1>0, <2>1, <2>2, <2>5, <2>6, DecompEnds
<1>3. CASE ctl.dp_phase = 1
  BY <1>0, <1>3, DecUnpackData DEF DecDecomp
<1>4. CASE ctl.dp_phase = 2
  <2>1. CASE Product(ctl.bank, ctl.dec_j_idx, ctl.dec_j_idx # 0, FALSE)
    <3>1. /\ state' = state /\ ctl'.operand_bank = ctl.dec_j_idx
          /\ ctl'.accumulate = (ctl.dec_j_idx # 0) /\ ctl'.use_tomont = FALSE
          /\ ctl'.dp_phase = 2 /\ ctl'.dec_j_idx = ctl.dec_j_idx /\ ctl'.bank = ctl.bank
          /\ ctl'.dec_reenc_mode = ctl.dec_reenc_mode /\ ctl'.ntt_source = ctl.ntt_source
      BY <1>4, <2>1, CtlHas DEF Product, Launch, Go, Latched, Fields, ResetCtl
    <3>2. mem' = mem /\ ext' = ext /\ done' = done /\ ~ctl.pwma_sent /\ Cleared
      BY <2>1, Clears DEF Product, Launch, Quiet
    <3>3. "pwma" \notin pulse
      BY <3>2, UnitsWait DEF Acts, UnitsAt
    <3>4. DecRow(c)' /\ DecUnpacks(c)'
      BY <1>1, <1>4, <3>1, <3>2, <3>3 DEF DecRow, DecUnpacks, Cleared, Watched
    <3>5. MemKept({"ram"})
      BY <3>2 DEF Acts, DataOf, Frame, MemShape, MemKept
    <3> QED
      BY <1>0, <1>1, <1>4, <3>1, <3>2, <3>4, <3>5, DecompEnds
  <2>2. CASE Await("pwma_sent", "pwma")
    <3>1. \A e \in Watched : e \notin pulse
      BY <1>0, <1>4, <2>2, UnitsWait DEF Acts, UnitsAt, Watched, Await
    <3> QED
      BY <1>0, <2>2, <3>1, DataWaits DEF Await
  <2>3. CASE /\ Finished("pwma_sent", "pwma")
             /\ Go(state, IF LastLoop(ctl.dec_j_idx)
                          THEN [ctl EXCEPT !.pwma_sent = FALSE, !.dp_phase = 6]
                          ELSE [ctl EXCEPT !.pwma_sent = FALSE, !.dp_phase = 4,
                                           !.dec_j_idx = @ + 1])
             /\ NoStart /\ Quiet
    <3>1. /\ state' = state /\ ctl'.bank = ctl.bank
          /\ ctl'.dec_reenc_mode = ctl.dec_reenc_mode /\ ctl'.ntt_source = ctl.ntt_source
          /\ \/ LastLoop(ctl.dec_j_idx) /\ ctl'.dp_phase = 6
             \/ /\ ~LastLoop(ctl.dec_j_idx) /\ ctl'.dp_phase = 4
                /\ ctl'.dec_j_idx = ctl.dec_j_idx + 1
      BY <2>3, CtlHas DEF Go, Latched, Fields, ResetCtl
    <3>2. mem' = mem /\ ext' = ext /\ done' = done /\ "pwma" \in pulse
      BY <2>3 DEF Finished, Quiet
    <3>3. mem.acc[0] = SSum(c, ctl.dec_j_idx + 1)
      BY <1>1, <1>4, <3>2 DEF DecRow
    <3>4. /\ LastLoop(ctl.dec_j_idx) => ctl.dec_j_idx + 1 = K
          /\ ~LastLoop(ctl.dec_j_idx) => ctl.dec_j_idx + 1 = 1
      BY <1>1 DEF LastLoop, Idx, K
    <3>5. DecRow(c)' /\ DecUnpacks(c)'
      <4>1. \/ ctl'.dp_phase = 6 /\ mem'.acc[0] = SSum(c, K)
            \/ ctl'.dp_phase = 4 /\ mem'.acc[0] = SSum(c, 1) /\ ctl'.dec_j_idx = 1
        BY <3>1, <3>2, <3>3, <3>4
      <4>2. mem'.slot[5] = UPart(c, 1) /\ mem'.slot[6] = Unpack(c.ext.ct.v)
        BY <1>1, <1>4, <3>2 DEF DecRow
      <4>3. CASE ctl'.dp_phase = 6
        BY <4>1, <4>2, <4>3 DEF DecRow, DecUnpacks
      <4>4. CASE ctl'.dp_phase = 4
        BY <4>1, <4>2, <4>4 DEF DecRow, DecUnpacks
      <4> QED
        BY <4>1, <4>3, <4>4
    <3>6. MemKept({"ram"})
      BY <3>2 DEF Acts, DataOf, Frame, MemShape, MemKept
    <3> QED
      BY <1>0, <1>1, <1>4, <3>1, <3>2, <3>5, <3>6, DecompEnds
  <2>4. \/ Product(ctl.bank, ctl.dec_j_idx, ctl.dec_j_idx # 0, FALSE)
        \/ Await("pwma_sent", "pwma")
        \/ /\ Finished("pwma_sent", "pwma")
           /\ Go(state, IF LastLoop(ctl.dec_j_idx)
                        THEN [ctl EXCEPT !.pwma_sent = FALSE, !.dp_phase = 6]
                        ELSE [ctl EXCEPT !.pwma_sent = FALSE, !.dp_phase = 4,
                                         !.dec_j_idx = @ + 1])
           /\ NoStart /\ Quiet
    <3>1. /\ ctl.dp_phase # 0 /\ ctl.dp_phase # 1 /\ ctl.dp_phase # 4
          /\ ctl.dp_phase # 6 /\ ctl.dp_phase # 8 /\ ctl.dp_phase \notin {5, 7}
      BY <1>4
    <3> QED
      BY <1>4, <3>1, Zenon DEF DecDecomp
  <2> QED
    BY <2>1, <2>2, <2>3, <2>4
<1>5. CASE ctl.dp_phase = 4
  <2>1. /\ mem' = [mem EXCEPT !.ram = mem.slot[4 + ctl.dec_j_idx]]
        /\ Go(state, [ctl EXCEPT !.ntt_sent = FALSE, !.dp_phase = 5])
        /\ NoStart /\ ext' = ext /\ done' = done
    BY <1>5 DEF DecDecomp
  <2>2. /\ state' = state /\ ctl'.bank = ctl.bank
        /\ ctl'.dec_reenc_mode = ctl.dec_reenc_mode /\ ctl'.ntt_source = ctl.ntt_source
        /\ ctl'.dp_phase = 5 /\ ctl'.dec_j_idx = ctl.dec_j_idx /\ ~ctl'.ntt_sent
    BY <2>1, CtlHas DEF Go, Latched, Fields, ResetCtl
  <2>3. MemKept({"ram"}) /\ mem'.ram = mem.slot[4 + ctl.dec_j_idx]
    BY <2>1 DEF Acts, DataOf, Frame, MemShape, MemKept, MemFields
  <2>4. mem'.ram = UPart(c, 1) /\ mem'.slot = mem.slot /\ mem'.acc = mem.acc
    BY <1>1, <1>5, <2>3 DEF DecRow, MemKept, MemFields
  <2>5. Cleared
    BY <2>1, ClearsNone
  <2>6. DecRow(c)' /\ DecUnpacks(c)'
    BY <1>1, <1>5, <2>2, <2>4, <2>5 DEF DecRow, DecUnpacks, Transforming, Cleared, Watched
  <2> QED
    BY <1>0, <1>1, <1>5, <2>1, <2>2, <2>3, <2>6, DecompEnds
<1>6. CASE ctl.dp_phase \in {5, 7}
  <2>0. ctl.dp_phase # 0
    BY <1>6
  <2>1. CASE Launch("ntt_sent", [ctl EXCEPT !.intt = (ctl.dp_phase = 7)], "ntt")
    <3>1. /\ state' = state
          /\ ctl.dp_phase = 5 => ctl'.intt = FALSE
          /\ ctl.dp_phase = 7 => ctl'.intt = TRUE
          /\ ctl'.dp_phase = ctl.dp_phase /\ ctl'.dec_j_idx = ctl.dec_j_idx
          /\ ctl'.bank = ctl.bank
          /\ ctl'.dec_reenc_mode = ctl.dec_reenc_mode /\ ctl'.ntt_source = ctl.ntt_source
      <4>1. ASSUME NEW inverse, Launch("ntt_sent", [ctl EXCEPT !.intt = inverse], "ntt")
            PROVE  /\ state' = state /\ ctl'.intt = inverse
                   /\ ctl'.dp_phase = ctl.dp_phase /\ ctl'.dec_j_idx = ctl.dec_j_idx
                   /\ ctl'.bank = ctl.bank /\ ctl'.dec_reenc_mode = ctl.dec_reenc_mode
                   /\ ctl'.ntt_source = ctl.ntt_source
        BY <4>1, CtlHas DEF Launch, Go, Latched, Fields, ResetCtl
      <4>2. \A inverse :
              Launch("ntt_sent", [ctl EXCEPT !.intt = inverse], "ntt") =>
                   /\ state' = state /\ ctl'.intt = inverse
                   /\ ctl'.dp_phase = ctl.dp_phase /\ ctl'.dec_j_idx = ctl.dec_j_idx
                   /\ ctl'.bank = ctl.bank /\ ctl'.dec_reenc_mode = ctl.dec_reenc_mode
                   /\ ctl'.ntt_source = ctl.ntt_source
        BY <4>1
      <4>3. /\ state' = state /\ ctl'.intt = (ctl.dp_phase = 7)
            /\ ctl'.dp_phase = ctl.dp_phase /\ ctl'.dec_j_idx = ctl.dec_j_idx
            /\ ctl'.bank = ctl.bank /\ ctl'.dec_reenc_mode = ctl.dec_reenc_mode
            /\ ctl'.ntt_source = ctl.ntt_source
        BY <2>1, <4>2, Zenon
      <4>4. CASE ctl.dp_phase = 5
        <5>1. ctl.dp_phase # 7
          BY <4>4
        <5>2. ctl'.intt = FALSE
          BY <4>3, <5>1, Zenon
        <5> QED
          BY <4>3, <4>4, <5>2
      <4>5. CASE ctl.dp_phase = 7
        <5>1. ctl'.intt = TRUE
          BY <4>3, <4>5, Zenon
        <5> QED
          BY <4>3, <4>5, <5>1
      <4> QED
        BY <1>6, <4>4, <4>5
    <3>2. /\ mem' = mem /\ ext' = ext /\ done' = done
          /\ "ntt" \notin pulse /\ "ntt" \notin pulse'
      BY <1>0, <1>6, <2>1, Clears, UnitsWait DEF Acts, Launch, Quiet, Cleared, Watched, UnitsAt
    <3>3. DecRow(c)' /\ DecUnpacks(c)'
      BY <1>1, <1>6, <3>1, <3>2 DEF DecRow, DecUnpacks, Transforming
    <3>4. MemKept({"ram"})
      BY <3>2 DEF Acts, DataOf, Frame, MemShape, MemKept
    <3> QED
      BY <1>0, <2>0, <3>1, <3>2, <3>3, <3>4, DecompEnds
  <2>2. CASE Await("ntt_sent", "ntt")
    <3>1. \A e \in Watched : e \notin pulse
      BY <1>0, <1>6, <2>2, UnitsWait DEF Acts, UnitsAt, Watched, Await
    <3> QED
      BY <1>0, <2>2, <3>1, DataWaits DEF Await
  <2>3. CASE /\ Finished("ntt_sent", "ntt")
             /\ Go(state, [ctl EXCEPT !.ntt_sent = FALSE,
                                      !.dp_phase = IF @ = 5 THEN 2 ELSE 8])
             /\ NoStart /\ Quiet
    <3>1. /\ state' = state /\ ctl'.dp_phase = (IF ctl.dp_phase = 5 THEN 2 ELSE 8)
          /\ ctl'.dec_j_idx = ctl.dec_j_idx /\ ctl'.bank = ctl.bank
          /\ ctl'.dec_reenc_mode = ctl.dec_reenc_mode /\ ctl'.ntt_source = ctl.ntt_source
          /\ ctl'.pwma_sent = ctl.pwma_sent
      BY <2>3, CtlHas DEF Go, Latched, Fields, ResetCtl
    <3>2. mem' = mem /\ ext' = ext /\ done' = done /\ "ntt" \in pulse /\ Cleared
      BY <2>3, ClearsNone DEF Finished, Quiet
    <3>3. ~ctl.pwma_sent
      BY <1>0, <1>6 DEF Acts, CoreInv, PwmaWaits, PwmaTurn
    <3>4. DecRow(c)' /\ DecUnpacks(c)'
      BY <1>1, <1>6, <3>1, <3>2, <3>3 DEF DecRow, DecUnpacks, Transforming, Cleared, Watched
    <3>5. MemKept({"ram"})
      BY <3>2 DEF Acts, DataOf, Frame, MemShape, MemKept
    <3> QED
      BY <1>0, <2>0, <3>1, <3>2, <3>4, <3>5, DecompEnds
  <2>4. \/ Launch("ntt_sent", [ctl EXCEPT !.intt = (ctl.dp_phase = 7)], "ntt")
        \/ Await("ntt_sent", "ntt")
        \/ /\ Finished("ntt_sent", "ntt")
           /\ Go(state, [ctl EXCEPT !.ntt_sent = FALSE,
                                    !.dp_phase = IF @ = 5 THEN 2 ELSE 8])
           /\ NoStart /\ Quiet
    <3>1. /\ ctl.dp_phase # 0 /\ ctl.dp_phase # 1 /\ ctl.dp_phase # 2
          /\ ctl.dp_phase # 4 /\ ctl.dp_phase # 6 /\ ctl.dp_phase # 8
      BY <1>6
    <3> QED
      BY <1>6, <3>1, Zenon DEF DecDecomp
  <2> QED
    BY <2>1, <2>2, <2>3, <2>4
<1>7. CASE ctl.dp_phase = 6
  <2>1. TransferAcc(state, [ctl EXCEPT !.dp_phase = 7])
    BY <1>7 DEF DecDecomp
  <2>2. /\ state' = state /\ ctl'.bank = ctl.bank
        /\ ctl'.dec_reenc_mode = ctl.dec_reenc_mode /\ ctl'.ntt_source = ctl.ntt_source
        /\ ctl'.dp_phase = 7 /\ ~ctl'.ntt_sent
    BY <2>1, CtlHas DEF TransferAcc, Go, Latched, Fields, ResetCtl
  <2>3. MemKept({"ram"}) /\ mem'.ram = mem.acc[0]
    BY <1>1, <2>1 DEF TransferAcc, Acts, DataOf, Frame, MemShape, MemKept, MemFields
  <2>4. mem'.ram = SSum(c, K) /\ mem'.slot = mem.slot
    BY <1>1, <1>7, <2>3 DEF DecRow, MemKept, MemFields
  <2>5. ext' = ext /\ done' = done /\ Cleared
    BY <2>1, ClearsNone DEF TransferAcc
  <2>6. DecRow(c)' /\ DecUnpacks(c)'
    BY <1>1, <1>7, <2>2, <2>4, <2>5 DEF DecRow, DecUnpacks, Transforming, Cleared, Watched
  <2> QED
    BY <1>0, <1>1, <1>7, <2>2, <2>3, <2>5, <2>6, DecompEnds
<1>8. CASE ctl.dp_phase = 8
  <2>1. /\ mem' = [mem EXCEPT !.m = Decode(mem.slot[6], mem.ram)]
        /\ Go("DEC_NTT_U", [ctl EXCEPT !.dp_enable = FALSE, !.dp_phase = 0,
                                       !.hash_sent = FALSE])
        /\ ext' = ext /\ done' = done
    BY <1>8 DEF DecDecomp
  <2>2. /\ state' = "DEC_NTT_U" /\ ctl'.bank = ctl.bank
        /\ ctl'.dec_reenc_mode = ctl.dec_reenc_mode
    BY <2>1, CtlHas DEF Go, Latched, Fields, ResetCtl
  <2>3. MemKept({"m"}) /\ mem'.m = Decode(mem.slot[6], mem.ram)
    BY <2>1 DEF Acts, DataOf, Frame, MemShape, MemKept, MemFields
  <2>4. mem'.m = Msg(c)
    BY <1>1, <1>8, <2>3, SumIsKem DEF DecRow
  <2>5. MemKept({"ram", "acc", "slot", "m"}) /\ mem'.slot = mem.slot
    BY <2>3 DEF MemKept, MemFields
  <2>6. DecHolds(c)'
    BY <1>1, <2>1, <2>2, <2>5, HoldsKept
  <2>7. DecDecrypts(c)'
    BY <2>2, <2>4, <2>6 DEF DecDecrypts
  <2>8. Values(c)'
    BY <2>2, <2>7 DEF Values
  <2> QED
    BY <2>1, <2>3, <2>8, ShapeKept, Ends
<1>9. ctl.dp_phase \in {0, 1, 2, 4, 5, 6, 7, 8}
  BY <1>0 DEF Acts, CoreInv, StreamCount
<1> QED
  BY <1>2, <1>3, <1>4, <1>5, <1>6, <1>7, <1>8, <1>9

-----------------------------------------------------------------------------
(* The units *)

LEMMA IdleData == ASSUME NEW c, DataOf(c), Idle PROVE DataOf(c)'
<1>1. state' = "IDLE" /\ done' = FALSE /\ mem' = mem /\ ext' = ext
  BY DEF Idle, Go
<1>2. Frame(c)'
  BY <1>1 DEF DataOf, Frame, MemShape
<1>3. Values(c)'
  BY <1>1 DEF Values
<1> QED
  BY <1>2, <1>3 DEF DataOf

\* No unit takes a step between the operations.
LEMMA UnitsActInOperations ==
    ASSUME CoreInv, Unit
    PROVE  state # "IDLE"
<1> USE DEF CoreInv, DigestStates, MatrixStates, PackedStates, Job, Off, Busy, Over
<1> SUFFICES ASSUME state = "IDLE" PROVE FALSE
  OBVIOUS
<1>1. sponge = "idle"
  BY DEF SpongeWaits
<1>2. "gm" \notin run /\ ~ctl.kg_a_cache_active
  BY DEF MatrixWaits
<1>3. /\ "cbd" \notin run /\ "ntt" \notin run /\ "pwma" \notin run
      /\ "kgpack" \notin run /\ "ctpack" \notin run /\ "unpack" \notin run
      /\ "cmp" \notin run
  BY DEF CbdWaits, NttWaits, NttTurn, PwmaWaits, PwmaTurn, PackWaits
<1> QED
  BY <1>1, <1>2, <1>3 DEF Unit, DigestDone, PrfReady, CbdDone, NttDone, GmOpen, GmDone,
     CacheTake, PwmaDone, KgPackDone, CtPackWord, CtPackDone, UnpackPart, UnpackDone,
     CmpDone

\* The sponge, and the units no value waits for.
LEMMA QuietUnits ==
    ASSUME NEW c, Acts(c),
           DigestDone \/ PrfReady \/ GmOpen \/ GmDone \/ CtPackDone \/ CmpDone
    PROVE  DataOf(c)'
<1>1. /\ state' = state /\ ctl' = ctl /\ mem' = mem /\ ext' = ext /\ out' = out
      /\ done' = done
  BY DEF DigestDone, PrfReady, GmOpen, GmDone, CtPackDone, CmpDone
<1>2. \A e \in Watched : e \in pulse' <=> e \in pulse
  BY DEF DigestDone, PrfReady, GmOpen, GmDone, CtPackDone, CmpDone, Raise, Watched
<1>3. Kept({})
  BY <1>1, CtlHas DEF Kept, Fields, ResetCtl
<1>4. Values(c)'
  BY <1>1, <1>2, <1>3, Stays DEF Acts, DataOf, Untouched
<1> QED
  BY <1>1, <1>4, ShapeStays, Ends

\* The noise arrives where the state wants it.
LEMMA CbdDoneData == ASSUME NEW c, Acts(c), CbdDone PROVE DataOf(c)'
<1> DEFINE kind == ctl.enc_noise_kind
           enc  == state = "ENC_CBD_R"
           bank == CASE kind = 0 -> 2 + ctl.loop_j
                     [] kind = 1 -> 4 + ctl.loop_j
                     [] OTHER -> 6
<1>0. /\ state' = state /\ ctl' = ctl /\ ext' = ext /\ done' = done
      /\ "cbd" \in run /\ pulse' = pulse \cup {"cbd"}
      /\ mem' = [mem EXCEPT !.ram = IF enc => kind = 0 THEN mem.noise ELSE @,
                            !.slot = IF enc THEN [@ EXCEPT ![bank] = mem.noise] ELSE @]
  BY DEF CbdDone, Raise
<1>1. /\ state \in {"KG_CBD_E", "KG_CBD_S", "ENC_CBD_R"}
      /\ ctl.loop_j \in Idx
  BY <1>0, UnitsWait DEF Acts, UnitsAt
<1>2. /\ MemKept({"ram", "slot"})
      /\ mem'.slot = IF enc THEN [mem.slot EXCEPT ![bank] = mem.noise] ELSE mem.slot
      /\ mem'.ram = IF enc => kind = 0 THEN mem.noise ELSE mem.ram
  <2> HIDE DEF bank, enc, kind
  <2> QED
    BY <1>0 DEF Acts, DataOf, Frame, MemShape, MemKept, MemFields
<1>3. MemShape'
  <2> HIDE DEF bank, enc, kind
  <2>1. OnDomain(mem'.slot, 0 .. 7)
    BY <1>2, ExceptShape DEF Acts, DataOf, Frame, MemShape
  <2> QED
    BY <1>2, <2>1 DEF Acts, DataOf, Frame, MemShape, MemKept, MemFields
<1>4. CASE state = "KG_CBD_E"
  <2>1. KgErrors(c)
    BY <1>4 DEF Acts, DataOf, Values
  <2>2. MemKept({"ram"}) /\ mem'.ram = mem.noise
    BY <1>2, <1>4 DEF MemKept, MemFields
  <2>3. KgErrors(c)'
    BY <1>0, <1>4, <2>1, <2>2 DEF KgErrors, KgSampled, KgSeeded, MemKept, MemFields
  <2>4. Values(c)'
    BY <1>0, <1>4, <2>3 DEF Values
  <2> QED
    BY <1>0, <1>3, <2>4, Ends
<1>5. CASE state = "KG_CBD_S"
  <2>1. KgSecrets(c)
    BY <1>5 DEF Acts, DataOf, Values
  <2>2. MemKept({"ram"}) /\ mem'.ram = mem.noise
    BY <1>2, <1>5 DEF MemKept, MemFields
  <2>3. KgSecrets(c)'
    BY <1>0, <1>5, <2>1, <2>2 DEF KgSecrets, KgSampled, KgSeeded, ErrorsIn, MatrixIn,
       SecretsTo, MemKept, MemFields
  <2>4. Values(c)'
    BY <1>0, <1>5, <2>3 DEF Values
  <2> QED
    BY <1>0, <1>3, <2>4, Ends
<1>6. CASE state = "ENC_CBD_R"
  <2>1. /\ EncSamples(c) /\ Encrypting(c) /\ ext = c.ext /\ kind \in 0 .. 2
        /\ ctl.hash_sent
    <3>1. ctl.cbd_sent
      BY <1>0, <1>6, UnitsWait DEF Acts, UnitsAt
    <3>2. ctl.hash_sent
      BY <1>6, <3>1 DEF Acts, CoreInv, SpongeWaits, DigestStates, MatrixStates
    <3> QED
      BY <1>6, <3>2 DEF Acts, DataOf, Values, EncSamples
  <2>2. /\ mem'.slot = [mem.slot EXCEPT ![bank] = mem.noise]
        /\ (kind = 0 => mem'.ram = mem.noise)
        /\ mem'.opnd = mem.opnd
    BY <1>2, <1>6 DEF MemKept, MemFields
  <2>3. /\ kind = 0 => bank = 2 + ctl.loop_j
        /\ kind = 1 => bank = 4 + ctl.loop_j
        /\ kind = 2 => bank = 6
    OBVIOUS
  <2> HIDE DEF bank
  <2>4. /\ bank \in 2 .. 6
        /\ \A n \in 0 .. 7 : n # bank => mem'.slot[n] = mem.slot[n]
        /\ mem'.slot[bank] = mem.noise
    BY <1>1, <2>1, <2>2, <2>3 DEF Acts, DataOf, Frame, MemShape, OnDomain, Idx, K
  <2>5. mem'.slot[0] = mem.slot[0] /\ mem'.slot[1] = mem.slot[1]
    BY <2>4
  <2>6. Encrypting(c)'
    BY <1>0, <1>2, <2>1, <2>5, EncryptingKept
  <2>7. EncSamples(c)'
    <3>1. CASE kind = 0
      BY <1>0, <2>1, <2>2, <2>6, <3>1 DEF EncSamples, OpndTo, MemKept, MemFields
    <3>2. CASE kind = 1
      <4>1. mem.noise = UNoise(c, ctl.loop_j) /\ bank = 4 + ctl.loop_j
        BY <2>1, <2>3, <3>2 DEF EncSamples
      <4>2. \A i \in Idx : i < ctl.loop_j => mem'.slot[4 + i] = UNoise(c, i)
        BY <1>1, <2>1, <2>4, <3>2, <4>1 DEF EncSamples, Idx, K
      <4>3. mem'.noise = mem.noise /\ mem'.slot[4 + ctl.loop_j] = UNoise(c, ctl.loop_j)
        BY <1>2, <2>4, <4>1 DEF MemKept, MemFields
      <4>4. OpndTo(c, K)'
        BY <2>1, <2>2, <3>2 DEF EncSamples, OpndTo
      <4> QED
        BY <1>0, <2>1, <2>6, <3>2, <4>1, <4>2, <4>3, <4>4 DEF EncSamples
    <3>3. CASE kind = 2
      <4>1. mem.noise = VNoise(c) /\ bank = 6
        BY <2>1, <2>3, <3>3 DEF EncSamples
      <4>2. UNoiseFrom(c, 0)'
        BY <2>1, <2>4, <3>3, <4>1 DEF EncSamples, UNoiseFrom, Idx, K
      <4>3. mem'.noise = mem.noise /\ mem'.slot[6] = VNoise(c)
        BY <1>2, <2>4, <4>1 DEF MemKept, MemFields
      <4>4. OpndTo(c, K)'
        BY <2>1, <2>2, <3>3 DEF EncSamples, OpndTo
      <4> QED
        BY <1>0, <2>1, <2>6, <3>3, <4>1, <4>2, <4>3, <4>4 DEF EncSamples
    <3> QED
      BY <2>1, <3>1, <3>2, <3>3
  <2>8. Values(c)'
    BY <1>0, <1>6, <2>7 DEF Values
  <2> QED
    BY <1>0, <1>3, <2>8, Ends
<1> QED
  BY <1>1, <1>4, <1>5, <1>6

LEMMA NttDoneData == ASSUME NEW c, Acts(c), NttDone PROVE DataOf(c)'
<1>0. /\ state' = state /\ ctl' = ctl /\ ext' = ext /\ out' = out /\ done' = done
      /\ "ntt" \in run /\ pulse' = pulse \cup {"ntt"}
      /\ mem' = [mem EXCEPT !.ram = IF ctl.intt THEN Intt(@) ELSE Ntt(@)]
  BY DEF NttDone, Raise
<1>1. MemKept({"ram"}) /\ mem'.ram = IF ctl.intt THEN Intt(mem.ram) ELSE Ntt(mem.ram)
  BY <1>0 DEF Acts, DataOf, Frame, MemShape, MemKept, MemFields
<1>2. /\ "ntt" \notin pulse /\ "ntt" \in pulse' /\ UnitsAt(run)
      /\ "pwma" \in pulse' <=> "pwma" \in pulse
      /\ "unpack" \in pulse' <=> "unpack" \in pulse
      /\ "cbd" \in pulse' <=> "cbd" \in pulse
  BY <1>0, UnitsWait DEF Acts, Watched
<1> SUFFICES Values(c)'
  BY <1>0, <1>1, ShapeKept, Ends
<1>3. CASE state = "KG_NTT_E" /\ ctl.ntt_sent
  <2>1. KgErrors(c) /\ KgCache(c)
    BY <1>3 DEF Acts, DataOf, Values
  <2> DEFINE p == Sigma3(c, ctl.loop_i + K)
  <2>2. Transforming(p, Ntt(p), FALSE)
    BY <1>3, <2>1 DEF KgErrors, KgSampled
  <2>3. Transforming(p, Ntt(p), FALSE)'
    BY <1>0, <1>1, <1>2, <1>3, <2>2 DEF Transforming
  <2>4. KgErrors(c)'
    BY <1>0, <1>1, <1>3, <2>1, <2>3 DEF KgErrors, KgSampled, KgSeeded, MemKept, MemFields
  <2>5. KgCache(c)'
    BY <1>0, <1>1, <2>1 DEF KgCache, MatrixIn, MemKept, MemFields
  <2> QED
    BY <1>0, <1>3, <2>4, <2>5 DEF Values
<1>4. CASE state = "KG_NTT_S" /\ ctl.ntt_sent
  <2>1. KgSecrets(c)
    BY <1>4 DEF Acts, DataOf, Values
  <2> DEFINE p == Sigma3(c, ctl.loop_j)
  <2>2. Transforming(p, Ntt(p), FALSE)
    BY <1>4, <2>1 DEF KgSecrets, KgSampled
  <2>3. Transforming(p, Ntt(p), FALSE)'
    BY <1>0, <1>1, <1>2, <1>4, <2>2 DEF Transforming
  <2>4. KgSecrets(c)'
    BY <1>0, <1>1, <1>4, <2>1, <2>3 DEF KgSecrets, KgSampled, KgSeeded, ErrorsIn, MatrixIn,
       SecretsTo, MemKept, MemFields
  <2> QED
    BY <1>0, <1>4, <2>4 DEF Values
<1>5. CASE state = "ENC_NTT_R" /\ ctl.enc_ntt_phase = 1 /\ ctl.ntt_sent
  <2>1. EncTransforms(c) /\ Encrypting(c)
    BY <1>5 DEF Acts, DataOf, Values, EncTransforms
  <2> DEFINE p == RNoise(c, ctl.loop_j)
  <2>2. Transforming(p, Ntt(p), FALSE)
    BY <1>5, <2>1 DEF EncTransforms
  <2>3. Transforming(p, Ntt(p), FALSE)'
    BY <1>0, <1>1, <1>2, <1>5, <2>2 DEF Transforming
  <2>4. mem'.slot = mem.slot /\ mem'.opnd = mem.opnd
    BY <1>1 DEF MemKept, MemFields
  <2>5. Encrypting(c)'
    BY <1>0, <1>1, <2>1, <2>4, EncryptingKept
  <2>6. EncTransforms(c)'
    BY <1>0, <1>5, <2>1, <2>3, <2>4, <2>5 DEF EncTransforms, OpndTo, Transforming
  <2> QED
    BY <1>0, <1>5, <2>6 DEF Values
<1>6. CASE state = "ENC_INTT_U" /\ ctl.enc_ntt_phase = 1 /\ ctl.ntt_sent
  <2>1. EncRowU(c) /\ URowBase(c)
    BY <1>6 DEF Acts, DataOf, Values, EncRowU
  <2> DEFINE p == USum(c, ctl.loop_i, K)
  <2>2. Transforming(p, Intt(p), TRUE)
    BY <1>6, <2>1 DEF EncRowU
  <2>3. Transforming(p, Intt(p), TRUE)'
    BY <1>0, <1>1, <1>2, <1>6, <2>2 DEF Transforming
  <2>4. URowBase(c)'
    <3>1. MemKept({"ram", "acc"})
      BY <1>1 DEF MemKept
    <3> QED
      BY <1>0, <2>1, <3>1, URowKept
  <2>5. EncRowU(c)'
    BY <1>0, <1>6, <2>1, <2>3, <2>4 DEF EncRowU, Transforming
  <2> QED
    BY <1>0, <1>6, <2>5 DEF Values
<1>7. CASE state = "ENC_INTT_V" /\ ctl.enc_ntt_phase = 1 /\ ctl.ntt_sent
  <2>1. EncRowV(c) /\ VRowBase(c)
    BY <1>7 DEF Acts, DataOf, Values, EncRowV
  <2> DEFINE p == VSum(c, K)
  <2>2. Transforming(p, Intt(p), TRUE)
    BY <1>7, <2>1 DEF EncRowV
  <2>3. Transforming(p, Intt(p), TRUE)'
    BY <1>0, <1>1, <1>2, <1>7, <2>2 DEF Transforming
  <2>4. VRowBase(c)'
    <3>1. MemKept({"ram", "acc"})
      BY <1>1 DEF MemKept
    <3> QED
      BY <1>0, <2>1, <3>1, VRowKept
  <2>5. EncRowV(c)'
    BY <1>0, <1>7, <2>1, <2>3, <2>4 DEF EncRowV, Transforming
  <2> QED
    BY <1>0, <1>7, <2>5 DEF Values
<1>8. CASE /\ state = "DEC_DECOMP"
           /\ \/ ctl.dp_phase \in {5, 7} /\ ctl.ntt_sent
              \/ ctl.dp_phase = 1 /\ ctl.u0_started /\ ~ctl.u0_done
  <2>1. DecDecrypts(c) /\ DecHolds(c) /\ DecRow(c) /\ DecUnpacks(c)
    BY <1>8 DEF Acts, DataOf, Values, DecDecrypts
  <2>2. mem'.slot = mem.slot /\ mem'.acc = mem.acc /\ mem'.opnd = mem.opnd
    BY <1>1 DEF MemKept, MemFields
  <2>3. DecHolds(c)'
    <3>1. MemKept({"ram", "acc", "slot", "m"})
      BY <1>1 DEF MemKept
    <3> QED
      BY <1>0, <2>1, <2>2, <3>1, HoldsKept
  <2>4. DecRow(c)' /\ DecUnpacks(c)'
    <3>1. CASE ctl.dp_phase = 5 /\ ctl.ntt_sent
      <4> DEFINE p == UPart(c, 1)
      <4>1. Transforming(p, Ntt(p), FALSE)
        BY <2>1, <3>1 DEF DecRow
      <4>2. Transforming(p, Ntt(p), FALSE)'
        BY <1>0, <1>1, <1>2, <3>1, <4>1 DEF Transforming
      <4> QED
        BY <1>0, <2>1, <2>2, <3>1, <4>2 DEF DecRow, DecUnpacks, Transforming
    <3>2. CASE ctl.dp_phase = 7 /\ ctl.ntt_sent
      <4> DEFINE p == SSum(c, K)
      <4>1. Transforming(p, Intt(p), TRUE)
        BY <2>1, <3>2 DEF DecRow
      <4>2. Transforming(p, Intt(p), TRUE)'
        BY <1>0, <1>1, <1>2, <3>2, <4>1 DEF Transforming
      <4> QED
        BY <1>0, <2>1, <2>2, <3>2, <4>2 DEF DecRow, DecUnpacks, Transforming
    <3>3. CASE ctl.dp_phase = 1 /\ ctl.u0_started /\ ~ctl.u0_done
      <4>1. mem'.ram = Ntt(UPart(c, 0))
        BY <1>1, <1>2, <2>1, <3>3 DEF DecUnpacks
      <4> QED
        BY <1>0, <1>2, <2>1, <2>2, <3>3, <4>1 DEF DecRow, DecUnpacks
    <3> QED
      BY <1>8, <3>1, <3>2, <3>3
  <2>5. DecDecrypts(c)'
    BY <1>0, <1>8, <2>1, <2>2, <2>3, <2>4 DEF DecDecrypts
  <2> QED
    BY <1>0, <1>8, <2>5 DEF Values
<1> QED
  BY <1>0, <1>2, <1>3, <1>4, <1>5, <1>6, <1>7, <1>8 DEF UnitsAt

\* An entry of the matrix goes into its slot of the cache.
LEMMA CacheTakeData == ASSUME NEW c, Acts(c), CacheTake PROVE DataOf(c)'
<1> DEFINE n == ctl.kg_a_cache_count
<1>0. /\ ctl.kg_a_cache_active /\ state \notin Dma /\ state' = state /\ ext' = ext
      /\ done' = done /\ pulse' = pulse /\ run' = run
      /\ mem' = [mem EXCEPT !.slot[4 + n] = Entry(out["gm"])]
      /\ out' = [out EXCEPT !["gm"] = out["gm"] + 1]
      /\ ctl' = IF n = K * K - 1
                THEN [ctl EXCEPT !.kg_a_cache_active = FALSE, !.kg_a_cache_done = TRUE]
                ELSE [ctl EXCEPT !.kg_a_cache_count = n + 1]
  BY DEF CacheTake, gm_pair_ready, TakeEntry
<1>1. state \in {"KG_NTT_E", "KG_GEN_A"} /\ ctl.kg_gm_started
  BY <1>0 DEF Acts, CoreInv, MatrixWaits, Dma
<1>2. KgCache(c) /\ KgSeeded(c)
  BY <1>1 DEF Acts, DataOf, Values, KgErrors
<1>3. n \in 0 .. 3 /\ out["gm"] = n /\ ~ctl.gm_transposed
      /\ \A i \in 0 .. 3 : i < n => mem.slot[4 + i] = MatrixOf(c, i)
  BY <1>0, <1>1, <1>2 DEF KgCache
<1>4. Entry(out["gm"]) = MatrixOf(c, n)
  BY <1>2, <1>3 DEF Entry, MatrixOf, KgSeeded
<1>5. MemKept({"slot"}) /\ mem'.slot = [mem.slot EXCEPT ![4 + n] = MatrixOf(c, n)]
  BY <1>0, <1>4 DEF Acts, DataOf, Frame, MemShape, MemKept, MemFields
<1>6. MemShape'
  BY <1>5, ExceptShape DEF Acts, DataOf, Frame, MemShape, MemKept, MemFields
<1>7. \A i \in 0 .. 3 : i < n + 1 => mem'.slot[4 + i] = MatrixOf(c, i)
  BY <1>3, <1>5 DEF Acts, DataOf, Frame, MemShape, OnDomain
<1>8. /\ \/ /\ n = 3 /\ ~ctl'.kg_a_cache_active
         \/ /\ n # 3 /\ ctl'.kg_a_cache_active = ctl.kg_a_cache_active
            /\ ctl'.kg_a_cache_count = n + 1
      /\ \A f \in Fields \ {"kg_a_cache_active", "kg_a_cache_done", "kg_a_cache_count"} :
             ctl'[f] = ctl[f]
  <2> HIDE DEF n
  <2>1. n = K * K - 1 <=> n = 3
    BY DEF K
  <2>2. CASE n = 3
    BY <1>0, <2>1, <2>2, CtlHas DEF Fields, ResetCtl
  <2>3. CASE n # 3
    BY <1>0, <2>1, <2>3, CtlHas DEF Fields, ResetCtl
  <2> QED
    BY <2>2, <2>3
<1>9. /\ ctl'.kg_gm_started = ctl.kg_gm_started /\ ctl'.gm_transposed = ctl.gm_transposed
      /\ ctl'.ntt_source = ctl.ntt_source /\ ctl'.dp_enable = ctl.dp_enable
      /\ ctl'.loop_i = ctl.loop_i /\ ctl'.ntt_sent = ctl.ntt_sent /\ ctl'.intt = ctl.intt
  BY <1>8 DEF Fields, ResetCtl
<1>10. out'["gm"] = n + 1
  BY <1>0, <1>3 DEF Acts, CoreInv, CoreTypes
<1>11. KgCache(c)'
  <2> HIDE DEF n
  <2>1. CASE n = 3 /\ ~ctl'.kg_a_cache_active
    <3>1. MatrixIn(c)'
      BY <1>7, <2>1 DEF MatrixIn
    <3> QED
      BY <1>3, <1>9, <2>1, <3>1 DEF KgCache
  <2>2. CASE /\ n # 3 /\ ctl'.kg_a_cache_active = ctl.kg_a_cache_active
             /\ ctl'.kg_a_cache_count = n + 1
    <3>1. ctl'.kg_a_cache_active /\ ~ctl'.gm_transposed
      BY <1>0, <1>3, <1>9, <2>2
    <3>2. /\ ctl'.kg_a_cache_count \in 0 .. 3 /\ out'["gm"] = ctl'.kg_a_cache_count
          /\ \A i \in 0 .. 3 : i < ctl'.kg_a_cache_count
                                   => mem'.slot[4 + i] = MatrixOf(c, i)
      BY <1>3, <1>7, <1>10, <2>2
    <3> QED
      BY <3>1, <3>2 DEF KgCache
  <2> QED
    BY <1>8, <2>1, <2>2
<1>12. KgSeeded(c)'
  BY <1>2, <1>5, <1>9 DEF KgSeeded, MemKept, MemFields
<1>13. Values(c)'
  <2>1. CASE state = "KG_NTT_E"
    <3>1. KgErrors(c)
      BY <2>1 DEF Acts, DataOf, Values
    <3>2. KgErrors(c)'
      BY <1>0, <1>5, <1>9, <1>12, <2>1, <3>1
         DEF KgErrors, KgSampled, Transforming, MemKept, MemFields
    <3> QED
      BY <1>0, <1>11, <2>1, <3>2 DEF Values
  <2>2. CASE state = "KG_GEN_A"
    <3>1. ext = c.ext /\ ErrorsIn(c)
      BY <2>2 DEF Acts, DataOf, Values
    <3>2. ErrorsIn(c)'
      BY <1>5, <3>1 DEF ErrorsIn, MemKept, MemFields
    <3> QED
      BY <1>0, <1>11, <1>12, <2>2, <3>1, <3>2 DEF Values
  <2> QED
    BY <1>1, <2>1, <2>2
<1> QED
  BY <1>0, <1>6, <1>13, Ends

\* t comes from the accumulators, s from its banks.
LEMMA KgPackDoneData == ASSUME NEW c, Acts(c), KgPackDone PROVE DataOf(c)'
<1>0. /\ "kgpack" \in run /\ state' = state /\ ctl' = ctl /\ mem' = mem /\ done' = done
      /\ ext' = [ext EXCEPT !.pk = [t |-> mem.acc, rho |-> mem.rho],
                            !.sk.s = [j \in Idx |-> mem.slot[2 + j]]]
  BY DEF KgPackDone
<1>1. state = "KG_PACK" /\ KgPacking(c) /\ KgSeeded(c)
      /\ \A i \in Idx : mem.acc[i] = TSum(c, i, K)
      /\ SecretsTo(c, K)
  BY <1>0, UnitsWait DEF Acts, DataOf, Values, UnitsAt, KgPacking
<1>2. ExtShape(ext) /\ OnDomain(mem.acc, Idx)
  BY DEF Acts, DataOf, Frame, MemShape
<1>3. /\ ext'.pk = [t |-> mem.acc, rho |-> mem.rho]
      /\ ext'.sk = [ext.sk EXCEPT !.s = [j \in Idx |-> mem.slot[2 + j]]]
      /\ ext'.ct = ext.ct /\ ext'.ss = ext.ss
      /\ OnDomain(ext', {"pk", "sk", "ct", "ss"})
  BY <1>0, <1>2 DEF ExtShape, OnDomain
<1>4. ext'.sk.s = [j \in Idx |-> mem.slot[2 + j]]
  BY <1>2, <1>3 DEF ExtShape, SkShape, OnDomain
<1>5. SkShape(ext'.sk)
  <2>1. OnDomain(ext'.sk, {"s", "pk", "h", "z"})
    BY <1>2, <1>3 DEF ExtShape, SkShape, OnDomain
  <2>2. OnDomain(ext'.sk.s, Idx)
    BY <1>4 DEF OnDomain
  <2> QED
    BY <2>1, <2>2 DEF SkShape
<1>6. ExtShape(ext')
  BY <1>2, <1>3, <1>5 DEF ExtShape
<1>7. ext'.pk = indcpa_keypair_pk(c.seed[1])
  <2> DEFINE t == indcpa_keypair_pk(c.seed[1]).t
  <2>1. \A i \in Idx : mem.acc[i] = t[i]
    BY <1>1, KeyIsKem
  <2>2. OnDomain(t, Idx)
    BY DEF indcpa_keypair_pk, OnDomain
  <2>3. mem.acc = t
    <3> HIDE DEF t
    <3> QED
      BY <1>2, <2>1, <2>2, SameFields
  <2>4. mem.rho = Rho(c.seed[1])
    BY <1>1 DEF KgSeeded
  <2> QED
    BY <1>3, <2>3, <2>4 DEF indcpa_keypair_pk
<1>8. ext'.sk.s = [j \in Idx |-> Secret(c.seed[1], j)]
  <2>1. \A j \in Idx : mem.slot[2 + j] = Secret(c.seed[1], j)
    BY <1>1 DEF SecretsTo, SecretOf, Sigma3, Secret, Idx, K
  <2> QED
    BY <1>4, <2>1
<1>9. KgPacking(c)'
  BY <1>0, <1>1, <1>3, <1>7, <1>8 DEF KgPacking, KgOutput, KgSeeded, SecretsTo
<1>10. Values(c)'
  BY <1>0, <1>1, <1>9 DEF Values
<1> QED
  BY <1>0, <1>6, <1>10, ShapeStays, Ends

\* A part of the ciphertext is set, and the others stay.
LEMMA SetPartShape ==
    ASSUME NEW ct, CtShape(ct), NEW n \in Parts, NEW w
    PROVE  /\ CtShape(SetPart(ct, n, w)) /\ Part(SetPart(ct, n, w), n) = w
           /\ \A i \in Parts \ {n} : Part(SetPart(ct, n, w), i) = Part(ct, i)
<1> USE DEF CtShape, OnDomain, Part, SetPart, Parts, Idx, K
<1>1. CASE n < K
  <2>1. n \in Idx /\ SetPart(ct, n, w) = [ct EXCEPT !.u[n] = w]
    BY <1>1
  <2>2. DOMAIN ct = {"u", "v"} /\ DOMAIN ct.u = Idx
    OBVIOUS
  <2>3. /\ SetPart(ct, n, w).u = [ct.u EXCEPT ![n] = w]
        /\ SetPart(ct, n, w).v = ct.v
        /\ OnDomain(SetPart(ct, n, w), {"u", "v"})
    BY <2>1, <2>2
  <2>4. OnDomain(SetPart(ct, n, w).u, Idx)
    BY <2>3, ExceptShape
  <2>5. /\ SetPart(ct, n, w).u[n] = w
        /\ \A i \in Idx \ {n} : SetPart(ct, n, w).u[i] = ct.u[i]
    BY <2>1, <2>2, <2>3
  <2> HIDE DEF SetPart
  <2> QED
    BY <1>1, <2>3, <2>4, <2>5
<1>2. CASE ~(n < K)
  <2>1. n = 2 /\ SetPart(ct, n, w) = [ct EXCEPT !.v = w]
    BY <1>2
  <2>2. /\ SetPart(ct, n, w).u = ct.u /\ SetPart(ct, n, w).v = w
        /\ OnDomain(SetPart(ct, n, w), {"u", "v"})
    BY <2>1
  <2> HIDE DEF SetPart
  <2> QED
    BY <2>1, <2>2
<1> QED
  BY <1>1, <1>2

\* The next part of the ciphertext goes out, or is compared with the copy.
LEMMA CtPackWordData == ASSUME NEW c, Acts(c), CtPackWord PROVE DataOf(c)'
<1> DEFINE n == out["ctpack"]
           w == IF n < K THEN PackU(mem.slot[4 + n]) ELSE PackV(mem.slot[6])
           i == ctl.ct_cap_idx
<1>0. /\ "ctpack" \in run /\ n \in Parts /\ state' = state /\ done' = done
      /\ out' = [out EXCEPT !["ctpack"] = n + 1]
  BY DEF CtPackWord
<1>1. state = "ENC_PACK" /\ ctl.ct_pack_sent
  BY <1>0 DEF Acts, CoreInv, PackWaits
<1>2. /\ EncPacks(c) /\ Encrypting(c) /\ n = i
      /\ (ctl.dec_reenc_mode <=> c.op = DECAPS) /\ c.op \in {ENCAPS, DECAPS}
      /\ UPolyTo(c, K) /\ mem.slot[6] = VPoly(c) /\ ctl.ct_cap_idx \in 0 .. 3
      /\ ext.pk = c.ext.pk /\ ext.sk = c.ext.sk /\ ext.ss = c.ext.ss
      /\ (c.op = DECAPS => ext = c.ext)
  BY <1>1 DEF Acts, DataOf, Values, EncPacks, Encrypting, Encrypts
<1>3. /\ ctl' = [ctl EXCEPT !.ct_cap_idx = i + 1]
      /\ mem' = IF ctl.dec_reenc_mode
                THEN [mem EXCEPT !.diff = @ \/ w # Part(mem.ctram, i)]
                ELSE [mem EXCEPT !.ctram = SetPart(@, i, w)]
      /\ ext' = IF ~ctl.dec_reenc_mode THEN [ext EXCEPT !.ct = SetPart(@, n, w)] ELSE ext
  BY <1>0, <1>1, <1>2 DEF CtPackWord
<1>4. w = Part(Ciphertext(c), n)
  BY <1>0, <1>2 DEF Part, Ciphertext, UPolyTo, Parts, Idx, K
<1> HIDE DEF w
<1>5. /\ ctl'.ct_cap_idx = i + 1 /\ ctl'.bank = ctl.bank /\ ctl'.ct_pack_sent
      /\ ctl'.dec_reenc_mode = ctl.dec_reenc_mode
  BY <1>1, <1>3, CtlHas DEF Fields, ResetCtl
<1>6. out'["ctpack"] = i + 1 /\ i + 1 \in 0 .. 3 /\ i \in Parts
  BY <1>0, <1>2 DEF Acts, CoreInv, CoreTypes, Parts, K
<1>7. CtShape(mem.ctram) /\ CtShape(ext.ct) /\ ExtShape(ext)
  BY DEF Acts, DataOf, Frame, MemShape, ExtShape
<1>8. CASE c.op = ENCAPS
  <2>1. ~ctl.dec_reenc_mode
    BY <1>2, <1>8 DEF ENCAPS, DECAPS
  <2>2. MemKept({"ctram"}) /\ mem'.ctram = SetPart(mem.ctram, i, w)
    BY <1>3, <2>1 DEF Acts, DataOf, Frame, MemShape, MemKept, MemFields
  <2>3. MemShape'
    <3>1. CtShape(mem'.ctram)
      BY <1>6, <1>7, <2>2, SetPartShape
    <3> QED
      BY <2>2, <3>1 DEF Acts, DataOf, Frame, MemShape, MemKept, MemFields
  <2>4. /\ ext'.ct = SetPart(ext.ct, i, w) /\ ext'.pk = ext.pk /\ ext'.sk = ext.sk
        /\ ext'.ss = ext.ss /\ OnDomain(ext', {"pk", "sk", "ct", "ss"})
    BY <1>2, <1>3, <1>7, <2>1 DEF ExtShape, OnDomain
  <2>5. ExtShape(ext')
    <3>1. CtShape(ext'.ct)
      BY <1>6, <1>7, <2>4, SetPartShape
    <3> QED
      BY <1>7, <2>4, <3>1 DEF ExtShape
  <2>6. \A j \in Parts : j < i + 1 => Part(ext'.ct, j) = Part(Ciphertext(c), j)
    <3>1. \A j \in Parts : j < i => Part(ext.ct, j) = Part(Ciphertext(c), j)
      BY <1>1, <1>2, <1>8 DEF EncPacks
    <3>2. Part(ext'.ct, i) = Part(Ciphertext(c), i)
      BY <1>2, <1>4, <1>6, <1>7, <2>4, SetPartShape
    <3>3. \A j \in Parts \ {i} : Part(ext'.ct, j) = Part(ext.ct, j)
      BY <1>6, <1>7, <2>4, SetPartShape
    <3> QED
      BY <1>6, <3>1, <3>2, <3>3 DEF Parts, K
  <2>7. mem'.slot = mem.slot
    BY <2>2 DEF MemKept, MemFields
  <2>8. Encrypting(c)'
    <3>1. MemKept({"ctram", "diff"})
      BY <2>2 DEF MemKept
    <3> QED
      BY <1>2, <1>5, <1>8, <2>2, <2>7
         DEF Encrypting, Encrypts, PublicIn, MemKept, MemFields, ENCAPS, DECAPS
  <2>9. EncPacks(c)'
    BY <1>2, <1>5, <1>6, <1>8, <2>4, <2>6, <2>7, <2>8
       DEF EncPacks, UPolyTo, ENCAPS, DECAPS
  <2>10. Values(c)'
    BY <1>0, <1>1, <2>9 DEF Values
  <2> QED
    BY <1>0, <2>3, <2>5, <2>10, Ends
<1>9. CASE c.op = DECAPS
  <2>1. ctl.dec_reenc_mode
    BY <1>2, <1>9
  <2>2. ext' = ext /\ mem' = [mem EXCEPT !.diff = mem.diff \/ w # Part(mem.ctram, i)]
    BY <1>3, <2>1
  <2>3. MemKept({"diff"}) /\ (mem'.diff <=> mem.diff \/ w # Part(mem.ctram, i))
    BY <2>2 DEF Acts, DataOf, Frame, MemShape, MemKept, MemFields
  <2>4. mem'.slot = mem.slot /\ mem.ctram = c.ext.ct
    BY <1>2, <1>9, <2>3 DEF MemKept, MemFields, Encrypting, DecKeeps
  <2>5. Encrypting(c)'
    BY <1>2, <1>5, <2>3, <2>4, EncryptingKept
  <2>6. mem.diff <=> \E j \in Parts : j < i /\ Part(Ciphertext(c), j) # Part(c.ext.ct, j)
    BY <1>1, <1>2, <1>9 DEF EncPacks
  <2>7. mem'.diff <=> \E j \in Parts :
                          j < i + 1 /\ Part(Ciphertext(c), j) # Part(c.ext.ct, j)
    BY <1>2, <1>4, <1>6, <2>3, <2>4, <2>6 DEF Parts, K
  <2>8. EncPacks(c)'
    BY <1>2, <1>5, <1>6, <1>9, <2>2, <2>4, <2>5, <2>7
       DEF EncPacks, UPolyTo, ENCAPS, DECAPS
  <2>9. Values(c)'
    BY <1>0, <1>1, <2>8 DEF Values
  <2> QED
    BY <1>0, <2>2, <2>3, <2>9, ShapeKept, Ends
<1> QED
  BY <1>2, <1>8, <1>9

LEMMA UnpackPartData == ASSUME NEW c, Acts(c), UnpackPart PROVE DataOf(c)'
<1> DEFINE n == out["unpack"]
           p == Unpack(Part(mem.ctram, n))
<1>0. "unpack" \in run /\ n \in Parts
  BY DEF UnpackPart
<1>1. state = "DEC_DECOMP" /\ ctl.dp_phase = 1
  BY <1>0, UnitsWait DEF Acts, UnitsAt
<1>2. /\ DecDecrypts(c) /\ DecHolds(c) /\ DecUnpacks(c) /\ mem.opnd = c.ext.sk.s
      /\ ctl.ntt_source
  BY <1>1 DEF Acts, DataOf, Values, DecDecrypts
<1>3. /\ mem' = [mem EXCEPT !.slot[4 + n] = p, !.ram = IF n = 0 THEN p ELSE @]
      /\ ctl' = [ctl EXCEPT !.u0_loaded = ctl.u0_loaded \/ n = 0]
      /\ out' = [out EXCEPT !["unpack"] = n + 1]
      /\ state' = state /\ ext' = ext /\ pulse' = pulse /\ run' = run /\ done' = done
  BY <1>1 DEF UnpackPart
<1>4. p = Unpack(Part(c.ext.ct, n))
  BY <1>2 DEF DecHolds, DecKeeps
<1> HIDE DEF p
<1>5. /\ MemKept({"slot", "ram"}) /\ mem'.slot = [mem.slot EXCEPT ![4 + n] = p]
      /\ mem'.ram = IF n = 0 THEN p ELSE mem.ram
  BY <1>3 DEF Acts, DataOf, Frame, MemShape, MemKept, MemFields
<1>6. MemShape'
  BY <1>5, ExceptShape DEF Acts, DataOf, Frame, MemShape, MemKept, MemFields
<1>7. /\ ctl'.dp_phase = 1 /\ ctl'.bank = ctl.bank /\ ctl'.ntt_source = ctl.ntt_source
      /\ ctl'.dec_reenc_mode = ctl.dec_reenc_mode /\ ctl'.unpack_done = ctl.unpack_done
      /\ ctl'.u0_started = ctl.u0_started /\ ctl'.u0_done = ctl.u0_done
      /\ ctl'.intt = ctl.intt /\ (ctl'.u0_loaded <=> ctl.u0_loaded \/ n = 0)
  BY <1>1, <1>3, CtlHas DEF Fields, ResetCtl
<1>8. n \in 0 .. 2 /\ out'["unpack"] = n + 1
  BY <1>0, <1>3 DEF Acts, CoreInv, CoreTypes, Parts, K
<1>9. /\ mem'.slot[0] = mem.slot[0] /\ mem'.slot[1] = mem.slot[1]
      /\ mem'.slot[4 + n] = p
      /\ \A i \in 1 .. 2 : i # n => mem'.slot[4 + i] = mem.slot[4 + i]
  BY <1>5, <1>8 DEF Acts, DataOf, Frame, MemShape, OnDomain
<1>10. DecHolds(c)' /\ mem'.opnd = mem.opnd
  <2>1. MemKept({"ram", "acc", "slot", "m"})
    BY <1>5 DEF MemKept
  <2> QED
    BY <1>2, <1>3, <1>7, <1>9, <2>1, HoldsKept
<1>11. DecUnpacks(c)'
  <2>1. /\ ("unpack" \in pulse \/ ctl.unpack_done => n = 3)
        /\ (ctl.u0_loaded <=> n # 0)
        /\ (ctl.u0_started => ctl.u0_loaded /\ ctl.intt = FALSE)
        /\ \A i \in 1 .. 2 : i < n => mem.slot[4 + i] = Unpack(Part(c.ext.ct, i))
        /\ (ctl.u0_loaded /\ ~ctl.u0_done /\ "ntt" \notin pulse => mem.ram = UPart(c, 0))
        /\ (ctl.u0_done \/ "ntt" \in pulse => mem.ram = Ntt(UPart(c, 0)))
    BY <1>1, <1>2 DEF DecUnpacks
  <2>2. ~ctl.unpack_done /\ "unpack" \notin pulse
    BY <1>8, <2>1
  <2>3. \A i \in 1 .. 2 : i < n + 1 => mem'.slot[4 + i] = Unpack(Part(c.ext.ct, i))
    BY <1>4, <1>8, <1>9, <2>1
  <2>4. CASE n = 0
    <3>1. ~ctl.u0_loaded /\ ~ctl.u0_started
      BY <2>1, <2>4
    <3>2. "ntt" \notin pulse /\ ~ctl.u0_done
      BY <1>1, <3>1, UnitsWait DEF Acts, CoreInv, StreamCount, UnitsAt
    <3>3. mem'.ram = UPart(c, 0)
      BY <1>4, <1>5, <2>4 DEF Part, UPart, K
    <3> QED
      BY <1>3, <1>7, <1>8, <2>2, <2>3, <2>4, <3>1, <3>2, <3>3 DEF DecUnpacks
  <2>5. CASE n # 0
    <3>1. mem'.ram = mem.ram /\ ctl.u0_loaded
      BY <1>5, <2>1, <2>5
    <3> QED
      BY <1>3, <1>7, <1>8, <2>1, <2>2, <2>3, <2>5, <3>1 DEF DecUnpacks
  <2> QED
    BY <2>4, <2>5
<1>12. DecRow(c)'
  BY <1>7 DEF DecRow
<1>13. DecDecrypts(c)'
  <2>1. ctl'.ntt_source
    BY <1>2, <1>7
  <2> QED
    BY <1>1, <1>2, <1>3, <1>10, <1>11, <1>12, <2>1 DEF DecDecrypts
<1>14. Values(c)'
  BY <1>1, <1>3, <1>13 DEF Values
<1> QED
  BY <1>3, <1>6, <1>14, Ends

LEMMA UnpackDoneData == ASSUME NEW c, Acts(c), UnpackDone PROVE DataOf(c)'
<1>0. /\ "unpack" \in run /\ out["unpack"] \notin Parts /\ pulse' = pulse \cup {"unpack"}
      /\ state' = state /\ ctl' = ctl /\ mem' = mem /\ ext' = ext /\ out' = out
      /\ done' = done
  BY DEF UnpackDone, Raise
<1>1. state = "DEC_DECOMP" /\ ctl.dp_phase = 1
  BY <1>0, UnitsWait DEF Acts, UnitsAt
<1>2. DecDecrypts(c) /\ DecHolds(c) /\ DecUnpacks(c) /\ DecRow(c)
  BY <1>1 DEF Acts, DataOf, Values, DecDecrypts
<1>3. MemKept({"ram"}) /\ ctl'.ntt_source = ctl.ntt_source
  BY <1>0 DEF Acts, DataOf, Frame, MemShape, MemKept
<1>4. out["unpack"] = 3
  BY <1>0, <1>1, <1>2 DEF DecUnpacks, Parts, K
<1>5. DecUnpacks(c)'
  BY <1>0, <1>1, <1>2, <1>4 DEF DecUnpacks
<1>6. DecRow(c)'
  BY <1>0, <1>1 DEF DecRow
<1> QED
  BY <1>0, <1>1, <1>3, <1>5, <1>6, DecompEnds

\* A product is added to the sum of the row.
LEMMA NextSum ==
    ASSUME NEW row, NEW first, NEW n \in Idx
    PROVE  Sum(Sum(first \cup Below(row, n))[2] \cup {row[n]})
               = Sum(first \cup Below(row, n + 1))
<1>1. Sum(first \cup Below(row, n))[2] = first \cup Below(row, n)
  BY DEF Sum
<1>2. (first \cup Below(row, n)) \cup {row[n]} = first \cup Below(row, n + 1)
  BY NextProduct
<1> QED
  BY <1>1, <1>2

\* The sum of a row that begins with its first product.
LEMMA NextOfRow ==
    ASSUME NEW row, NEW n \in Idx, NEW acc, n # 0 => acc = Sum(Below(row, n))
    PROVE  Sum((IF n # 0 THEN acc[2] ELSE {}) \cup {row[n]}) = Sum(Below(row, n + 1))
<1>1. CASE n = 0
  <2>1. Below(row, n + 1) = {row[n]}
    BY <1>1, NextProduct, NoProducts
  <2> QED
    BY <1>1, <2>1
<1>2. CASE n # 0
  <2>1. acc[2] = Below(row, n)
    BY <1>2 DEF Sum
  <2> QED
    BY <1>2, <2>1, NextProduct
<1> QED
  BY <1>1, <1>2

\* What goes into a product beside its operand, and the sum it is added to.
Streamed ==
    CASE ctl.ntt_source -> mem.ram
      [] ctl.dp_enable /\ ctl.gm_source /\ ~ctl.ntt_source -> Entry(out["gm"])
      [] ctl.dp_enable /\ ~ctl.gm_source /\ ~ctl.ntt_source -> mem.slot[ctl.loop_j]
      [] OTHER -> mem.slot[4 + K * ctl.loop_i + ctl.loop_j]
Multiplied == Mul(Streamed, mem.opnd[ctl.operand_bank], ctl.use_tomont)
AddedTo(acc) == Sum((IF ctl.accumulate THEN acc[2] ELSE {}) \cup {Multiplied})

LEMMA PwmaAdds ==
    ASSUME NEW c, Acts(c), PwmaDone
    PROVE  /\ MemKept({"acc"}) /\ MemKept({"ram", "acc"}) /\ MemShape'
           /\ mem'.acc = [mem.acc EXCEPT ![ctl.bank] = AddedTo(mem.acc[ctl.bank])]
           /\ ctl.bank \in Idx => /\ mem'.acc[ctl.bank] = AddedTo(mem.acc[ctl.bank])
                                  /\ \A i \in Idx \ {ctl.bank} : mem'.acc[i] = mem.acc[i]
<1>1. mem' = [mem EXCEPT !.acc[ctl.bank] = AddedTo(mem.acc[ctl.bank])]
  BY DEF PwmaDone, AddedTo, Multiplied, Streamed
<1>2. /\ MemKept({"acc"})
      /\ mem'.acc = [mem.acc EXCEPT ![ctl.bank] = AddedTo(mem.acc[ctl.bank])]
  BY <1>1 DEF Acts, DataOf, Frame, MemShape, MemKept, MemFields
<1>3. MemShape'
  <2>1. OnDomain(mem'.acc, Idx)
    BY <1>2, ExceptShape DEF Acts, DataOf, Frame, MemShape
  <2> QED
    BY <1>2, <2>1 DEF Acts, DataOf, Frame, MemShape, MemKept, MemFields
<1>4. MemKept({"ram", "acc"})
  BY <1>2 DEF MemKept
<1>5. ctl.bank \in Idx => /\ mem'.acc[ctl.bank] = AddedTo(mem.acc[ctl.bank])
                          /\ \A i \in Idx \ {ctl.bank} : mem'.acc[i] = mem.acc[i]
  BY <1>2 DEF Acts, DataOf, Frame, MemShape, OnDomain
<1> QED
  BY <1>2, <1>3, <1>4, <1>5

LEMMA PwmaDoneData == ASSUME NEW c, Acts(c), PwmaDone PROVE DataOf(c)'
<1>0. /\ state' = state /\ ctl' = ctl /\ ext' = ext /\ done' = done
      /\ "pwma" \in run /\ pulse' = pulse \cup {"pwma"}
  BY DEF PwmaDone, Raise
<1>1. /\ "pwma" \notin pulse /\ "pwma" \in pulse' /\ UnitsAt(run)
      /\ "ntt" \in pulse' <=> "ntt" \in pulse
      /\ ctl.loop_i \in Idx /\ ctl.loop_j \in Idx /\ ctl.dec_j_idx \in Idx
      /\ ctl.pwma_sent
  BY <1>0, UnitsWait DEF Acts, Watched, UnitsAt
<1>2. /\ MemKept({"acc"}) /\ MemKept({"ram", "acc"}) /\ MemShape'
      /\ ctl.bank \in Idx => /\ mem'.acc[ctl.bank] = AddedTo(mem.acc[ctl.bank])
                             /\ \A i \in Idx \ {ctl.bank} : mem'.acc[i] = mem.acc[i]
  BY PwmaAdds
<1>3. /\ mem'.slot = mem.slot /\ mem'.opnd = mem.opnd /\ mem'.ram = mem.ram
  BY <1>2 DEF MemKept, MemFields
<1> SUFFICES Values(c)'
  BY <1>0, <1>2, Ends
<1>4. CASE state = "KG_PWMA_A_S" /\ ctl.kg_poly_phase = 3
  <2> DEFINE i == ctl.loop_i
             j == ctl.loop_j
  <2>1. /\ KgProducts(c) /\ KgSeeded(c) /\ MatrixIn(c) /\ SecretsTo(c, K)
        /\ mem.acc[i] = TSum(c, i, j)
        /\ ctl.bank = i /\ ctl.operand_bank = j /\ ctl.accumulate /\ ctl.use_tomont = TRUE
    BY <1>1, <1>4 DEF Acts, DataOf, Values, KgProducts
  <2>2. K * i + j \in 0 .. 3 /\ 4 + K * i + j = 4 + (K * i + j)
    BY <1>1 DEF Idx, K
  <2>3. Streamed = MatrixOf(c, K * i + j)
    <3>1. ~ctl.ntt_source /\ ~ctl.dp_enable
      BY <2>1 DEF KgSeeded
    <3>2. Streamed = mem.slot[4 + K * i + j]
      BY <3>1, Zenon DEF Streamed
    <3> QED
      BY <2>1, <2>2, <3>2 DEF MatrixIn
  <2>4. mem.opnd[j] = SecretOf(c, j)
    BY <1>1, <2>1 DEF SecretsTo, Idx, K
  <2>5. Multiplied = TRow(c, i)[j]
    BY <1>1, <2>1, <2>3, <2>4 DEF Multiplied, TRow
  <2>6. AddedTo(mem.acc[i]) = TSum(c, i, j + 1)
    <3>1. AddedTo(mem.acc[i]) = Sum(TSum(c, i, j)[2] \cup {TRow(c, i)[j]})
      BY <2>1, <2>5 DEF AddedTo
    <3> QED
      BY <1>1, <3>1, NextSum DEF TSum
  <2>7. mem'.acc[i] = TSum(c, i, j + 1) /\ \A n \in Idx : n # i => mem'.acc[n] = mem.acc[n]
    BY <1>1, <1>2, <2>1, <2>6
  <2>8. KgSeeded(c)' /\ MatrixIn(c)' /\ SecretsTo(c, K)'
    BY <1>0, <1>2, <1>3, <2>1 DEF KgSeeded, MatrixIn, SecretsTo, MemKept, MemFields
  <2>9. KgProducts(c)'
    <3>1. ctl'.pwma_sent => /\ ctl'.bank = ctl'.loop_i /\ ctl'.operand_bank = ctl'.loop_j
                            /\ ctl'.accumulate /\ ctl'.use_tomont = TRUE
      BY <1>0, <2>1
    <3>2. /\ \A n \in Idx : n < i => mem'.acc[n] = TSum(c, n, K)
          /\ \A n \in Idx : n > i => mem'.acc[n] = TSum(c, n, 0)
      BY <1>1, <2>1, <2>7 DEF KgProducts, Idx, K
    <3>3. ext' = c.ext
      BY <1>0, <2>1 DEF KgProducts
    <3> HIDE DEF Idx
    <3> QED
      BY <1>0, <1>1, <1>4, <2>7, <2>8, <3>1, <3>2, <3>3 DEF KgProducts
  <2> QED
    BY <1>0, <1>4, <2>9 DEF Values
<1>5. CASE state = "ENC_PWMA_U" /\ ctl.dp_phase = 3
  <2> DEFINE i == ctl.loop_i
             j == ctl.loop_j
  <2>1. /\ EncRowU(c) /\ URowBase(c) /\ Encrypting(c) /\ ctl.gm_transposed
        /\ j # 0 => mem.acc[0] = USum(c, i, j)
        /\ ctl.bank = 0 /\ ctl.operand_bank = j /\ ctl.accumulate = (j # 0)
        /\ ctl.use_tomont = FALSE
    BY <1>1, <1>5 DEF Acts, DataOf, Values, EncRowU, URowBase, Encrypting, Encrypts, RowRuns
  <2>2. /\ ctl.dp_enable /\ ctl.gm_source /\ ~ctl.ntt_source /\ out["gm"] = K * i + j
    <3>1. /\ ctl.dp_enable /\ ctl.gm_source /\ ~ctl.ntt_source
          /\ out["gm"] = K * i + j + (IF "pwma" \in pulse THEN 1 ELSE 0)
      BY <1>5 DEF Acts, CoreInv, StreamCount
    <3> QED
      BY <1>1, <3>1 DEF Idx, K
  <2>3. Streamed = A(Key(c).rho, j, i)
    <3>1. Streamed = Entry(K * i + j)
      BY <2>2 DEF Streamed
    <3>2. (K * i + j) % K = j /\ (K * i + j) \div K = i
      BY <1>1 DEF Idx, K
    <3> QED
      BY <2>1, <3>1, <3>2 DEF Entry, Encrypting, PublicIn
  <2>4. mem.opnd[j] = Ntt(RNoise(c, j))
    BY <1>1, <2>1 DEF URowBase, OpndTo, Idx, K
  <2>5. Multiplied = URow(c, i)[j]
    BY <1>1, <2>1, <2>3, <2>4 DEF Multiplied, URow
  <2>6. AddedTo(mem.acc[0]) = USum(c, i, j + 1)
    <3>1. AddedTo(mem.acc[0]) = Sum((IF j # 0 THEN mem.acc[0][2] ELSE {}) \cup {URow(c, i)[j]})
      BY <2>1, <2>5 DEF AddedTo
    <3> QED
      BY <1>1, <2>1, <3>1, NextOfRow DEF USum
  <2>7. mem'.acc[0] = USum(c, i, j + 1)
    BY <1>2, <2>1, <2>6 DEF Idx, K
  <2>8. URowBase(c)'
    BY <1>0, <1>2, <2>1, URowKept
  <2>9. EncRowU(c)'
    BY <1>0, <1>1, <1>5, <2>1, <2>7, <2>8 DEF EncRowU, RowRuns
  <2> QED
    BY <1>0, <1>5, <2>9 DEF Values
<1>6. CASE state = "ENC_PWMA_V" /\ ctl.dp_phase = 3
  <2> DEFINE j == ctl.loop_j
  <2>1. /\ EncRowV(c) /\ VRowBase(c) /\ Encrypting(c)
        /\ ctl.dp_enable /\ ~ctl.gm_source /\ ~ctl.ntt_source
        /\ j # 0 => mem.acc[0] = VSum(c, j)
        /\ ctl.bank = 0 /\ ctl.operand_bank = j /\ ctl.accumulate = (j # 0)
        /\ ctl.use_tomont = FALSE
    BY <1>1, <1>6 DEF Acts, DataOf, Values, EncRowV, VRowBase, Encrypting, Encrypts, RowRuns
  <2>2. Streamed = Key(c).t[j]
    <3>1. Streamed = mem.slot[j]
      BY <2>1 DEF Streamed
    <3> QED
      BY <1>1, <2>1, <3>1 DEF Encrypting, PublicIn, Idx, K
  <2>4. mem.opnd[j] = Ntt(RNoise(c, j))
    BY <1>1, <2>1 DEF VRowBase, OpndTo, Idx, K
  <2>5. Multiplied = VRow(c)[j]
    BY <1>1, <2>1, <2>2, <2>4 DEF Multiplied, VRow
  <2>6. AddedTo(mem.acc[0]) = VSum(c, j + 1)
    <3>1. AddedTo(mem.acc[0]) = Sum((IF j # 0 THEN mem.acc[0][2] ELSE {}) \cup {VRow(c)[j]})
      BY <2>1, <2>5 DEF AddedTo
    <3> QED
      BY <1>1, <2>1, <3>1, NextOfRow DEF VSum
  <2>7. mem'.acc[0] = VSum(c, j + 1)
    BY <1>2, <2>1, <2>6 DEF Idx, K
  <2>8. VRowBase(c)'
    BY <1>0, <1>2, <2>1, VRowKept
  <2>9. EncRowV(c)'
    BY <1>0, <1>1, <1>6, <2>1, <2>7, <2>8 DEF EncRowV, RowRuns
  <2> QED
    BY <1>0, <1>6, <2>9 DEF Values
<1>7. CASE state = "DEC_DECOMP" /\ ctl.dp_phase = 2
  <2> DEFINE j == ctl.dec_j_idx
  <2>1. /\ DecDecrypts(c) /\ DecHolds(c) /\ DecRow(c) /\ ctl.ntt_source
        /\ mem.opnd = c.ext.sk.s
        /\ mem.ram = Ntt(UPart(c, j))
        /\ j # 0 => mem.acc[0] = SSum(c, j)
        /\ ctl.bank = 0 /\ ctl.operand_bank = j /\ ctl.accumulate = (j # 0)
        /\ ctl.use_tomont = FALSE
    BY <1>1, <1>7 DEF Acts, DataOf, Values, DecDecrypts, DecHolds, Reads, Encrypts, DecRow
  <2>2. Streamed = Ntt(UPart(c, j))
    BY <2>1, Zenon DEF Streamed
  <2>5. Multiplied = SRow(c)[j]
    <3>1. Multiplied = Mul(Ntt(UPart(c, j)), c.ext.sk.s[j], FALSE)
      BY <2>1, <2>2 DEF Multiplied
    <3>2. {Ntt(UPart(c, j)), c.ext.sk.s[j]} = {c.ext.sk.s[j], Ntt(UPart(c, j))}
      OBVIOUS
    <3>3. Multiplied = Mul(c.ext.sk.s[j], Ntt(UPart(c, j)), FALSE)
      BY <3>1, <3>2 DEF Mul
    <3> QED
      BY <1>1, <3>3 DEF SRow
  <2>6. AddedTo(mem.acc[0]) = SSum(c, j + 1)
    <3>1. AddedTo(mem.acc[0]) = Sum((IF j # 0 THEN mem.acc[0][2] ELSE {}) \cup {SRow(c)[j]})
      BY <2>1, <2>5 DEF AddedTo
    <3> QED
      BY <1>1, <2>1, <3>1, NextOfRow DEF SSum
  <2>7. mem'.acc[0] = SSum(c, j + 1)
    BY <1>2, <2>1, <2>6 DEF Idx, K
  <2>8. DecHolds(c)'
    <3>1. MemKept({"ram", "acc", "slot", "m"})
      BY <1>2 DEF MemKept
    <3> QED
      BY <1>0, <1>3, <2>1, <3>1, HoldsKept
  <2>9. DecRow(c)' /\ DecUnpacks(c)'
    BY <1>0, <1>1, <1>3, <1>7, <2>1, <2>7 DEF DecRow, DecUnpacks
  <2>10. DecDecrypts(c)'
    BY <1>0, <1>3, <1>7, <2>1, <2>8, <2>9 DEF DecDecrypts
  <2> QED
    BY <1>0, <1>7, <2>10 DEF Values
<1> QED
  BY <1>0, <1>1, <1>4, <1>5, <1>6, <1>7 DEF UnitsAt

-----------------------------------------------------------------------------
(* The host *)

LEMMA StartData ==
    ASSUME NEW c, DataOf(c), NEW op \in {KEYGEN, ENCAPS, DECAPS}, NEW s, Start(op, s),
           NEW d, d = call'
    PROVE  DataOf(d)'
<1>1. /\ state = "IDLE" /\ opcode' = op /\ d.op = op /\ d.seed = seed' /\ d.ext = ext
      /\ state' = FirstState(op) /\ ctl' = OnStart(ctl) /\ done' = FALSE /\ NoStart
      /\ mem' = mem /\ ext' = ext
  BY DEF Start
<1>2. Frame(d)'
  BY <1>1 DEF DataOf, Frame, MemShape
<1>3. /\ ctl'.ntt_source = FALSE /\ ctl'.dp_enable = FALSE /\ ctl'.bank = 0
      /\ ctl'.dec_reenc_mode = FALSE /\ ctl'.pk_in_sk = FALSE
      /\ ctl'.sk_reload_done = FALSE
  BY <1>1 DEF OnStart, ResetCtl
<1>4. CASE op = KEYGEN
  <2>1. state' = "KG_LOAD_SEED"
    BY <1>1, <1>4 DEF FirstState, KEYGEN, ENCAPS, DECAPS
  <2>2. Values(d)'
    BY <1>1, <1>3, <1>4, <2>1 DEF Values
  <2> QED
    BY <1>2, <2>2 DEF DataOf
<1>5. CASE op = ENCAPS
  <2>1. state' = "ENC_READ_PK"
    BY <1>1, <1>5 DEF FirstState, KEYGEN, ENCAPS, DECAPS
  <2>2. EncReads(d)'
    BY <1>1, <1>3, <1>5 DEF EncReads, Reads, Encrypts, KEYGEN, ENCAPS, DECAPS
  <2>3. Values(d)'
    BY <2>1, <2>2 DEF Values
  <2> QED
    BY <1>2, <2>3 DEF DataOf
<1>6. CASE op = DECAPS
  <2>1. state' = "DEC_READ"
    BY <1>1, <1>6 DEF FirstState, KEYGEN, ENCAPS, DECAPS
  <2>2. DecReads(d)'
    BY <1>1, <1>3, <1>6, <2>1 DEF DecReads, Reads, Encrypts
  <2>3. Values(d)'
    BY <2>1, <2>2 DEF Values
  <2> QED
    BY <1>2, <2>3 DEF DataOf
<1> QED
  BY <1>4, <1>5, <1>6

LEMMA TamperData ==
    ASSUME NEW c, DataOf(c), NEW n \in Parts, Tamper(n)
    PROVE  DataOf(c)'
<1> DEFINE w == <<"bad", n>>
           ct == SetPart(ext.ct, n, w)
<1>1. /\ state = "IDLE" /\ ~done /\ state' = state /\ done' = done /\ mem' = mem
      /\ ext' = [ext EXCEPT !.ct = ct] /\ opcode' = opcode /\ seed' = seed
  BY DEF Tamper
<1>2. CtShape(ct)
  BY SetPartShape DEF DataOf, Frame, ExtShape
<1> HIDE DEF ct
<1>3. ExtShape(ext')
  BY <1>1, <1>2 DEF DataOf, Frame, ExtShape, OnDomain
<1>4. Frame(c)'
  BY <1>1, <1>3 DEF DataOf, Frame, MemShape
<1>5. Values(c)'
  BY <1>1 DEF Values
<1> QED
  BY <1>4, <1>5 DEF DataOf

LEMMA SoftResetData == ASSUME NEW c, DataOf(c), SoftReset PROVE DataOf(c)'
<1>1. /\ state' = "IDLE" /\ done' = FALSE /\ ext' = ext
      /\ mem' = [mem EXCEPT !.diff = FALSE]
  BY DEF SoftReset
<1>2. MemShape'
  BY <1>1 DEF DataOf, Frame, MemShape, MemFields, OnDomain
<1>3. Frame(c)'
  BY <1>1, <1>2 DEF DataOf, Frame
<1>4. Values(c)'
  BY <1>1 DEF Values
<1> QED
  BY <1>3, <1>4 DEF DataOf

LEMMA InitData == Init => DataInv
<1> SUFFICES ASSUME Init, NEW c, c = call PROVE DataOf(c)
  BY DEF DataInv
<1>1. state = "IDLE" /\ done = FALSE /\ c.op = KEYGEN /\ c.ext = ext
  BY DEF Init
<1>2. MemShape
  BY DEF Init, MemShape, MemFields, OnDomain, CtShape
<1>3. ExtShape(ext)
  BY DEF Init, ExtShape, OnDomain, SkShape, CtShape, crypto_kem_keypair, crypto_kem_enc,
         indcpa_enc
<1> QED
  BY <1>1, <1>2, <1>3 DEF DataOf, Frame, Values

-----------------------------------------------------------------------------
(* Every step *)

LEMMA FsmData == ASSUME NEW c, CoreInv, DataOf(c), Fsm PROVE DataOf(c)'
<1>1. CASE state = "IDLE"
  <2>1. Idle
    BY <1>1 DEF Fsm, KgLoadSeed, KgHashG, KgPrfE, KgCbdE, KgNttE, KgDmaE, KgGenA, KgPrfS,
       KgCbdS, KgNttS, KgDmaS, KgPwma, KgPack, KgHashPk, KgWriteRest, EncReadPk,
       EncLoadCoins, EncPrfR, EncCbdR, EncNttR, EncPwmaU, EncInttU, EncPwmaV, EncInttV,
       EncPack, EncWriteSs, DecRead, DecReadRest, DecReadCt, DecDecomp, DecNttU, DecCmp,
       DecRkprf, DecPack
  <2> QED
    BY <2>1, IdleData
<1>2. CASE state # "IDLE"
  <2>1. Acts(c)
    BY <1>2 DEF Acts, Fsm
  <2>2. ~Idle
    BY <1>2 DEF Idle
  <2> QED
    BY <2>1, <2>2, KgLoadSeedData, KgHashGData, KgPrfEData, KgCbdEData, KgNttEData,
       KgDmaEData, KgGenAData, KgPrfSData, KgCbdSData, KgNttSData, KgDmaSData, KgPwmaData,
       KgPackData, KgHashPkData, KgWriteRestData, EncReadPkData, EncLoadCoinsData,
       EncPrfRData, EncCbdRData, EncNttRData, EncPwmaUData, EncInttUData, EncPwmaVData,
       EncInttVData, EncPackData, EncWriteSsData, DecReadData, DecReadRestData,
       DecReadCtData, DecDecompData, DecNttUData, DecCmpData, DecRkprfData, DecPackData
       DEF Fsm
<1> QED
  BY <1>1, <1>2

LEMMA UnitData == ASSUME NEW c, CoreInv, DataOf(c), Unit PROVE DataOf(c)'
<1>1. Acts(c)
  BY UnitsActInOperations DEF Acts, Unit, hostVars
<1> QED
  BY <1>1, QuietUnits, CbdDoneData, NttDoneData, CacheTakeData, PwmaDoneData,
     KgPackDoneData, CtPackWordData, UnpackPartData, UnpackDoneData DEF Unit

LEMMA NextData == CoreInv /\ DataInv /\ [Next]_vars => DataInv'
<1> SUFFICES ASSUME CoreInv, DataInv, [Next]_vars PROVE DataInv'
  OBVIOUS
<1> SUFFICES ASSUME NEW d, d = call' PROVE DataOf(d)'
  BY DEF DataInv
<1>1. PICK c : c = call /\ DataOf(c)
  BY DEF DataInv
<1>2. CASE Fsm
  BY <1>1, <1>2, FsmData DEF Fsm
<1>3. CASE Unit
  BY <1>1, <1>3, UnitData DEF Unit, hostVars
<1>4. CASE Host
  <2>1. CASE \E op \in {KEYGEN, ENCAPS}, s \in Seeds : Start(op, s)
    BY <1>1, <2>1, StartData
  <2>2. CASE Start(DECAPS, D0)
    BY <1>1, <2>2, StartData
  <2>3. CASE \E n \in Parts : Tamper(n)
    <3>1. d = c
      BY <1>1, <2>3 DEF Tamper
    <3> QED
      BY <1>1, <2>3, <3>1, TamperData
  <2>4. CASE SoftReset
    BY <1>1, <2>4, SoftResetData DEF SoftReset
  <2> QED
    BY <1>4, <2>1, <2>2, <2>3, <2>4 DEF Host
<1>5. CASE UNCHANGED vars
  <2>1. /\ state' = state /\ ctl' = ctl /\ mem' = mem /\ ext' = ext /\ pulse' = pulse
        /\ out' = out /\ done' = done /\ opcode' = opcode /\ seed' = seed /\ d = c
    BY <1>1, <1>5 DEF vars, fsmVars, hostVars
  <2>2. Frame(c)'
    BY <1>1, <2>1 DEF DataOf, Frame, MemShape
  <2>3. CASE state = "IDLE"
    <3>1. Values(c)'
      BY <1>1, <2>1, <2>3 DEF DataOf, Values
    <3> QED
      BY <2>1, <2>2, <3>1 DEF DataOf
  <2>4. CASE state # "IDLE"
    <3>1. Untouched
      BY <2>1, UnitsWait DEF Untouched, Kept, Fields, ResetCtl
    <3>2. Values(c)'
      BY <1>1, <2>4, <3>1, Stays DEF DataOf
    <3> QED
      BY <2>1, <2>2, <3>2 DEF DataOf
  <2> QED
    BY <2>3, <2>4
<1> QED
  BY <1>2, <1>3, <1>4, <1>5 DEF Next

\* At every moment of an operation the banks and registers hold the values
\* that the reference computes at that point.
THEOREM DataInvariant == Spec => []DataInv
<1> QED
  BY InitData, NextData, CoreInvariant, PTL DEF Spec

\* An operation that reports done has written what the reference computes
\* from the inputs it was started with, and nothing else.
THEOREM ResultIsReference == Spec => []ResultIsKem
<1>1. DataInv => ResultIsKem
  <2> SUFFICES ASSUME DataInv, done PROVE ext = Expected
    BY DEF ResultIsKem
  <2>1. PICK c : c = call /\ DataOf(c)
    BY DEF DataInv
  <2>2. state = "IDLE" /\ ext = ExpectedOf(c) /\ c.op \in {KEYGEN, ENCAPS, DECAPS}
    BY <2>1 DEF DataOf, Frame, Values
  <2>3. ExpectedOf(c) = Expected
    BY <2>1, <2>2 DEF ExpectedOf, Expected, KEYGEN, ENCAPS, DECAPS
  <2> QED
    BY <2>2, <2>3
<1> QED
  BY <1>1, DataInvariant, PTL

-----------------------------------------------------------------------------
(* The agreement of two parties *)

\* The agreement on record is an encapsulation of the reference, of a message
\* that the host chose.
AgreedInv ==
    /\ seed[1] \in Seeds
    /\ agreed.ss # Nowhere =>
         \E m \in Seeds : /\ agreed.ct = crypto_kem_enc(agreed.pk, m).ct
                          /\ agreed.ss = crypto_kem_enc(agreed.pk, m).ss

LEMMA AgreementIsMade ==
    ASSUME NEW c, CoreInv, DataOf(c), c = call, Fsm, AgreedInv,
           state = "ENC_WRITE_SS", done'
    PROVE  AgreedInv'
<1>1. EncWriteSs
  BY DEF Fsm, Idle, KgLoadSeed, KgHashG, KgPrfE, KgCbdE, KgNttE, KgDmaE, KgGenA, KgPrfS,
     KgCbdS, KgNttS, KgDmaS, KgPwma, KgPack, KgHashPk, KgWriteRest, EncReadPk,
     EncLoadCoins, EncPrfR, EncCbdR, EncNttR, EncPwmaU, EncInttU, EncPwmaV, EncInttV,
     EncPack, EncWriteSs, DecRead, DecReadRest, DecReadCt, DecDecomp, DecNttU, DecCmp,
     DecRkprf, DecPack
<1>2. EncWrites(c) /\ seed = c.seed /\ ~done /\ ExtShape(ext)
  BY DEF DataOf, Frame, Values
<1>3. ext' = [ext EXCEPT !.ss = mem.kbar]
  BY <1>1, <1>2 DEF EncWriteSs, WriteSecret, Quiet
<1>4. ext'.ss = mem.kbar
  BY <1>2, <1>3 DEF ExtShape, OnDomain
<1>5. /\ agreed' = [pk |-> c.ext.pk, ct |-> ext.ct, ss |-> mem.kbar] /\ seed' = seed
  BY <1>4 DEF Fsm
<1>6. /\ Key(c) = c.ext.pk /\ Msg(c) = c.seed[1] /\ Hash(c) = H(c.ext.pk)
      /\ mem.kbar = KBar(Msg(c), Hash(c)) /\ ext.ct = Ciphertext(c)
  BY <1>2 DEF EncWrites, Key, Msg, Hash, ENCAPS, DECAPS
<1>7. /\ ext.ct = crypto_kem_enc(c.ext.pk, seed[1]).ct
      /\ mem.kbar = crypto_kem_enc(c.ext.pk, seed[1]).ss
  BY <1>2, <1>6, CiphertextIsKem DEF crypto_kem_enc, CoinsOf
<1> QED
  BY <1>5, <1>7 DEF AgreedInv

LEMMA NextAgreed == CoreInv /\ DataInv /\ AgreedInv /\ [Next]_vars => AgreedInv'
<1> SUFFICES ASSUME CoreInv, DataInv, AgreedInv, [Next]_vars PROVE AgreedInv'
  OBVIOUS
<1>1. PICK c : c = call /\ DataOf(c)
  BY DEF DataInv
<1>2. CASE Fsm /\ state = "ENC_WRITE_SS" /\ done'
  BY <1>1, <1>2, AgreementIsMade
<1>3. CASE Fsm /\ ~(state = "ENC_WRITE_SS" /\ done')
  <2>1. agreed' = agreed /\ seed' = seed
    BY <1>3 DEF Fsm
  <2> QED
    BY <2>1 DEF AgreedInv
<1>4. CASE \E op \in {KEYGEN, ENCAPS, DECAPS}, s \in Seeds : Start(op, s)
  <2>1. PICK op \in {KEYGEN, ENCAPS, DECAPS}, s \in Seeds : Start(op, s)
    BY <1>4
  <2>2. agreed' = agreed /\ seed' = SeedFor(op, s)
    BY <2>1 DEF Start
  <2>3. seed'[1] \in Seeds
    BY <2>1, <2>2 DEF SeedFor, AgreedInv, KEYGEN, ENCAPS, DECAPS
  <2> QED
    BY <2>2, <2>3 DEF AgreedInv
<1>5. CASE Unit \/ (\E n \in Parts : Tamper(n)) \/ SoftReset \/ UNCHANGED vars
  <2>1. agreed' = agreed /\ seed' = seed
    BY <1>5 DEF Unit, Tamper, SoftReset, vars, hostVars
  <2> QED
    BY <2>1 DEF AgreedInv
<1> QED
  BY <1>2, <1>3, <1>4, <1>5, SeedAssumption DEF Next, Host

LEMMA InitAgreed == Init => AgreedInv
BY SeedAssumption DEF Init, AgreedInv

\* A ciphertext of the reference tells the message in it.
LEMMA CiphertextTells ==
    ASSUME NEW pk1, NEW pk2, NEW m1, NEW m2, NEW r1, NEW r2,
           Unpack(indcpa_enc(pk1, m1, r1).v) = Unpack(indcpa_enc(pk2, m2, r2).v)
    PROVE  m1 = m2
<1> DEFINE w(pk, r) == Intt(Sum({Mul(pk.t[j], Ntt(Cbd(3, r, j)), FALSE) : j \in Idx}))
           e(r) == Cbd(2, r, 2 * K)
<1>1. \A pk, m, r : indcpa_enc(pk, m, r).v = PackV(AddMsg(w(pk, r), e(r), m))
  BY DEF indcpa_enc
<1> HIDE DEF w, e
<1>2. PackV(AddMsg(w(pk1, r1), e(r1), m1)) = PackV(AddMsg(w(pk2, r2), e(r2), m2))
  BY <1>1 DEF Unpack
<1>3. AddMsg(w(pk1, r1), e(r1), m1) = AddMsg(w(pk2, r2), e(r2), m2)
  BY <1>2 DEF PackV
<1> QED
  BY <1>3 DEF AddMsg

\* Decryption undoes encryption, under the key of the pair.
LEMMA Decrypts ==
    ASSUME NEW d \in Seeds, NEW m \in Seeds, NEW pk, pk = indcpa_keypair_pk(d),
           NEW s, s = [j \in Idx |-> Secret(d, j)]
    PROVE  indcpa_dec(indcpa_enc(pk, m, Coins(m, H(pk))), s) = m
<1> DEFINE ctOf(p, n) == indcpa_enc(p, n, Coins(n, H(p)))
           ct == ctOf(pk, m)
           v  == Unpack(ct.v)
           su == SecretTimesU(s, ct.u)
           honest(b, n) == /\ v = Unpack(ctOf(indcpa_keypair_pk(b), n).v)
                           /\ su = SecretTimesU([j \in Idx |-> Secret(b, j)],
                                                ctOf(indcpa_keypair_pk(b), n).u)
<1>1. honest(d, m)
  OBVIOUS
<1>2. \A b, n \in Seeds : honest(b, n) => n = m
  <2> SUFFICES ASSUME NEW b \in Seeds, NEW n \in Seeds, honest(b, n) PROVE n = m
    OBVIOUS
  <2> QED
    BY CiphertextTells
<1>3. Decode(v, su) = IF \E b, n \in Seeds : honest(b, n)
                      THEN CHOOSE n \in Seeds : \E b \in Seeds : honest(b, n)
                      ELSE <<"noise", v, su>>
  BY DEF Decode
<1> HIDE DEF honest
<1>4. Decode(v, su) = CHOOSE n \in Seeds : \E b \in Seeds : honest(b, n)
  BY <1>1, <1>3
<1>5. (CHOOSE n \in Seeds : \E b \in Seeds : honest(b, n)) = m
  BY <1>1, <1>2
<1> QED
  BY <1>4, <1>5 DEF indcpa_dec

\* A decapsulation gives the secret of the encapsulation exactly for its
\* ciphertext.
LEMMA Agrees ==
    ASSUME NEW d \in Seeds, NEW z, NEW m \in Seeds, NEW ct
    PROVE  crypto_kem_dec(ct, crypto_kem_keypair(d, z).sk)
               = crypto_kem_enc(crypto_kem_keypair(d, z).pk, m).ss
           <=> ct = crypto_kem_enc(crypto_kem_keypair(d, z).pk, m).ct
<1> DEFINE kp == crypto_kem_keypair(d, z)
           e  == crypto_kem_enc(kp.pk, m)
           pk == indcpa_keypair_pk(d)
           s  == [j \in Idx |-> Secret(d, j)]
           n  == indcpa_dec(ct, s)
<1> SUFFICES crypto_kem_dec(ct, kp.sk) = e.ss <=> ct = e.ct
  OBVIOUS
<1>1. /\ kp.pk = pk /\ kp.sk.s = s /\ kp.sk.pk = pk /\ kp.sk.h = H(pk) /\ kp.sk.z = z
  BY DEF crypto_kem_keypair
<1>2. e.ct = indcpa_enc(pk, m, Coins(m, H(pk))) /\ e.ss = KBar(m, H(pk))
  BY <1>1 DEF crypto_kem_enc
<1>3. crypto_kem_dec(ct, kp.sk)
        = IF indcpa_enc(pk, n, Coins(n, H(pk))) = ct THEN KBar(n, H(pk)) ELSE J(z, ct)
  BY <1>1 DEF crypto_kem_dec
<1>4. indcpa_dec(e.ct, s) = m
  BY <1>2, Decrypts
<1> HIDE DEF pk, s, kp, e
<1>5. CASE indcpa_enc(pk, n, Coins(n, H(pk))) = ct
  <2>1. KBar(n, H(pk)) = KBar(m, H(pk)) <=> n = m
    BY DEF KBar
  <2>2. n = m <=> ct = e.ct
    BY <1>2, <1>4, <1>5
  <2> QED
    BY <1>2, <1>3, <1>5, <2>1, <2>2
<1>6. CASE indcpa_enc(pk, n, Coins(n, H(pk))) # ct
  <2>1. J(z, ct) # KBar(m, H(pk))
    BY DEF J, KBar
  <2>2. ct # e.ct
    BY <1>2, <1>4, <1>6
  <2> QED
    BY <1>2, <1>3, <1>6, <2>1, <2>2
<1> QED
  BY <1>5, <1>6

\* Two parties agree on the secret exactly when the ciphertext arrived as it
\* was sent.
THEOREM PartiesAgree == Spec => []KeyAgreement
<1>1. Spec => []AgreedInv
  BY InitAgreed, NextAgreed, CoreInvariant, DataInvariant, PTL DEF Spec
<1>2. DataInv /\ AgreedInv => KeyAgreement
  <2> SUFFICES ASSUME DataInv, AgreedInv, done, call.op = DECAPS, agreed.ss # Nowhere,
                      NEW d \in Seeds, NEW kp, kp = crypto_kem_keypair(d, Z(d)),
                      call.ext.sk = kp.sk, agreed.pk = kp.pk
               PROVE  ext.ss = agreed.ss <=> call.ext.ct = agreed.ct
    BY DEF KeyAgreement
  <2>1. PICK c : c = call /\ DataOf(c)
    BY DEF DataInv
  <2>2. ext = ExpectedOf(c) /\ ExtShape(c.ext)
    BY <2>1 DEF DataOf, Frame, Values
  <2>3. ext.ss = crypto_kem_dec(c.ext.ct, c.ext.sk)
    BY <2>1, <2>2 DEF ExpectedOf, ExtShape, OnDomain, KEYGEN, ENCAPS, DECAPS
  <2>4. PICK m \in Seeds : /\ agreed.ct = crypto_kem_enc(agreed.pk, m).ct
                           /\ agreed.ss = crypto_kem_enc(agreed.pk, m).ss
    BY DEF AgreedInv
  <2>5. crypto_kem_dec(c.ext.ct, crypto_kem_keypair(d, Z(d)).sk)
            = crypto_kem_enc(crypto_kem_keypair(d, Z(d)).pk, m).ss
        <=> c.ext.ct = crypto_kem_enc(crypto_kem_keypair(d, Z(d)).pk, m).ct
    BY Agrees
  <2> QED
    BY <2>1, <2>3, <2>4, <2>5
<1> QED
  BY <1>1, <1>2, DataInvariant, PTL
=============================================================================
