----------------------------- MODULE KyberCore -----------------------------
(***************************************************************************)
(* The control FSM of the accelerator (rtl/kyber/kyber512_core_fsm.v) and  *)
(* the units it sequences: the Keccak sponge, the noise sampler, the NTT   *)
(* core, the matrix sampler, the multiply-accumulate unit, the packers,    *)
(* the unpacker and the ciphertext comparator.                             *)
(*                                                                         *)
(* Values are the terms of KyberTerms.  A step is one clock of the FSM,    *)
(* except that a loop of fixed length over the words of one object (a DMA, *)
(* a transfer, a copy) is one step.  A unit runs for an unknown time and   *)
(* then raises its done output for one clock; what the FSM does not latch  *)
(* in that clock is lost.  ciphertext offsets count the three packed       *)
(* polynomials u0, u1, v instead of bytes.                                 *)
(***************************************************************************)
EXTENDS KyberKem, FiniteSets, Sequences

CONSTANTS D0, M0,       \* seeds of the key pair and ciphertext loaded first
          MaxCalls,     \* bound on the operations the host starts
          MaxTampers,   \* bound on the ciphertext parts the host overwrites
          MaxResets     \* bound on the soft resets

VARIABLES
    state,      \* the FSM state
    ctl,        \* the FSM's control registers
    mem,        \* polynomial banks, data registers, local ciphertext RAM
    ext,        \* the external data memory: pk, sk, ct, ss
    sponge,     \* what the Keccak sponge is doing
    run,        \* the units that are running
    pulse,      \* the done outputs that are high
    out,        \* how many objects a streaming unit has delivered
    done,       \* the core's done output
    opcode,     \* the opcode input, held by the wrapper
    seed,       \* the seed_in input: <<d or m, z>>
    call,       \* history: the inputs of the operation in progress
    agreed,     \* history: inputs and outputs of the last completed Encaps
    calls, tampers, resets

fsmVars  == <<state, ctl, mem, ext, sponge, run, pulse, out, done>>
hostVars == <<opcode, seed, call, agreed, calls, tampers, resets>>
vars     == <<fsmVars, hostVars>>

KEYGEN == 1
ENCAPS == 2
DECAPS == 3

ASSUME SeedAssumption == D0 \in Seeds /\ M0 \in Seeds

Z(s) == <<"z", s>>      \* the second half of the 64 bytes whose first is s

Parts == 0 .. K             \* the packed polynomials u0, u1, v
Nowhere == <<"junk">>

Part(ct, n) == IF n < K THEN ct.u[n] ELSE ct.v
SetPart(ct, n, w) ==
    IF n < K THEN [ct EXCEPT !.u[n] = w] ELSE [ct EXCEPT !.v = w]

---------------------------------------------------------------------------
(* Registers *)

ResetCtl ==
    [loop_i |-> 0, loop_j |-> 0, hash_sent |-> FALSE, cbd_sent |-> FALSE,
     ntt_sent |-> FALSE, pwma_sent |-> FALSE, gm_sent |-> FALSE,
     kg_pack_sent |-> FALSE, ct_pack_sent |-> FALSE,
     kg_gm_started |-> FALSE, kg_a_cache_active |-> FALSE,
     kg_a_cache_done |-> FALSE, kg_a_source_done |-> FALSE,
     kg_a_cache_count |-> 0, gm_stream_mode |-> FALSE, gm_transposed |-> FALSE,
     intt |-> FALSE, bank |-> 0, operand_bank |-> 0, accumulate |-> FALSE,
     use_tomont |-> TRUE, kg_enable |-> FALSE, dp_enable |-> FALSE,
     gm_source |-> FALSE, ntt_source |-> FALSE, kg_poly_phase |-> 0,
     dp_phase |-> 0, enc_noise_kind |-> 0, enc_ntt_phase |-> 0,
     dec_reenc_mode |-> FALSE, ct_cap_idx |-> 0, dec_j_idx |-> 0,
     u0_loaded |-> FALSE, u0_started |-> FALSE, u0_done |-> FALSE,
     unpack_done |-> FALSE, sk_reload_done |-> FALSE, pk_in_sk |-> FALSE,
     ss_ready |-> FALSE]

\* The registers an accepted start leaves alone; it clears all the others.
OnStart(c) ==
    [ResetCtl EXCEPT
        !.gm_stream_mode = c.gm_stream_mode, !.gm_transposed = c.gm_transposed,
        !.intt = c.intt, !.accumulate = c.accumulate,
        !.use_tomont = c.use_tomont, !.enc_noise_kind = c.enc_noise_kind,
        !.enc_ntt_phase = c.enc_ntt_phase,
        !.ss_ready = c.ss_ready]

LastLoop(i) == i = K - 1

\* The FSM latches the matrix sampler's done in every state.
Latched(c) ==
    IF "gm" \in pulse /\ ctl.kg_gm_started
    THEN [c EXCEPT !.kg_a_source_done = TRUE] ELSE c

Go(s, c) == state' = s /\ ctl' = Latched(c)

\* Only the ciphertext packer holds its done output until the next start.
Held == pulse \cap {"ctpack"}

StartUnits(E) ==
    /\ run' = run \cup E
    /\ pulse' = Held \ E
    /\ out' = [e \in DOMAIN out |-> IF e \in E \ run THEN 0 ELSE out[e]]
    /\ UNCHANGED sponge

NoStart == StartUnits({})

\* The sponge takes a start only when it is idle; otherwise it is lost.
StartHash(kind) ==
    /\ sponge' = IF sponge = "idle" THEN kind ELSE sponge
    /\ pulse' = Held
    /\ UNCHANGED <<run, out>>

Quiet == UNCHANGED <<mem, ext, done>>

Launch(flag, c, e) ==
    /\ ~ctl[flag]
    /\ Go(state, [c EXCEPT ![flag] = TRUE])
    /\ StartUnits({e})
    /\ Quiet

LaunchDigest ==
    /\ ~ctl.hash_sent
    /\ Go(state, [ctl EXCEPT !.hash_sent = TRUE])
    /\ StartHash("digest")
    /\ Quiet

LaunchPrf(noise) ==
    /\ ~ctl.hash_sent
    /\ Go(state, [ctl EXCEPT !.hash_sent = TRUE])
    /\ StartHash("prf")
    /\ mem' = [mem EXCEPT !.noise = noise]
    /\ UNCHANGED <<ext, done>>

\* A state that has started a unit waits; a pulse of another unit passes.
Await(flag, e) == ctl[flag] /\ e \notin pulse /\ Go(state, ctl) /\ NoStart /\ Quiet

Finished(flag, e) == ctl[flag] /\ e \in pulse

Finish(c) ==
    /\ Go("IDLE", c)
    /\ done' = TRUE
    /\ NoStart

---------------------------------------------------------------------------
(* Idle and start *)

Idle ==
    /\ state = "IDLE"
    /\ done' = FALSE
    /\ Go("IDLE", ctl)
    /\ NoStart
    /\ UNCHANGED <<mem, ext>>

FirstState(op) ==
    CASE op = KEYGEN -> "KG_LOAD_SEED"
      [] op = ENCAPS -> "ENC_READ_PK"
      [] op = DECAPS -> "DEC_READ"

\* The seed memory keeps what the host does not write before a start: z is
\* written for a key generation only, nothing for a decapsulation.
SeedFor(op, s) ==
    CASE op = KEYGEN -> <<s, Z(s)>>
      [] op = ENCAPS -> <<s, seed[2]>>
      [] op = DECAPS -> seed

Start(op, s) ==
    /\ state = "IDLE"
    /\ calls < MaxCalls
    /\ calls' = calls + 1
    /\ opcode' = op
    /\ seed' = SeedFor(op, s)
    /\ call' = [op |-> op, seed |-> seed', ext |-> ext]
    /\ state' = FirstState(op)
    /\ ctl' = OnStart(ctl)
    /\ done' = FALSE
    /\ NoStart
    /\ UNCHANGED <<mem, ext, agreed, tampers, resets>>

---------------------------------------------------------------------------
(* Key generation *)

KgLoadSeed ==
    /\ state = "KG_LOAD_SEED"
    /\ Go("KG_HASH_G", [ctl EXCEPT !.hash_sent = FALSE])
    /\ mem' = [mem EXCEPT !.z = seed[2]]
    /\ NoStart
    /\ UNCHANGED <<ext, done>>

KgHashG ==
    /\ state = "KG_HASH_G"
    /\ \/ LaunchDigest
       \/ Await("hash_sent", "digest")
       \/ /\ Finished("hash_sent", "digest")
          /\ Go("KG_PRF_E", [ctl EXCEPT !.loop_i = 0, !.hash_sent = FALSE])
          /\ mem' = [mem EXCEPT !.rho = Rho(seed[1]), !.sigma = Sigma(seed[1])]
          /\ NoStart
          /\ UNCHANGED <<ext, done>>

\* The PRF states leave as soon as the sponge's first output word is there,
\* and the CBD states drain it.
Prf(noise, next) ==
    \/ LaunchPrf(noise)
    \/ /\ ctl.hash_sent
       /\ IF sponge = "words"
          THEN Go(next, [ctl EXCEPT !.cbd_sent = FALSE])
          ELSE Go(state, ctl)
       /\ NoStart
       /\ Quiet

Sample(next) ==
    \/ Launch("cbd_sent", ctl, "cbd")
    \/ Await("cbd_sent", "cbd")
    \/ /\ Finished("cbd_sent", "cbd")
       /\ Go(next, [ctl EXCEPT !.ntt_sent = FALSE])
       /\ NoStart
       /\ Quiet

KgPrfE == state = "KG_PRF_E" /\ Prf(Cbd(3, mem.sigma, ctl.loop_i + K), "KG_CBD_E")
KgCbdE == state = "KG_CBD_E" /\ Sample("KG_NTT_E")
KgPrfS == state = "KG_PRF_S" /\ Prf(Cbd(3, mem.sigma, ctl.loop_j), "KG_CBD_S")
KgCbdS == state = "KG_CBD_S" /\ Sample("KG_NTT_S")

StartCache(c) ==
    [c EXCEPT !.gm_transposed = FALSE, !.gm_stream_mode = TRUE, !.gm_sent = TRUE,
              !.kg_gm_started = TRUE, !.kg_a_cache_active = TRUE,
              !.kg_a_cache_done = FALSE, !.kg_a_source_done = FALSE,
              !.kg_a_cache_count = 0]

\* The last NTT of e runs beside the matrix sampler, started in its first
\* clock, which fills the cache in the background.
KgNttE ==
    /\ state = "KG_NTT_E"
    /\ \/ /\ ~ctl.ntt_sent
          /\ LET generate == LastLoop(ctl.loop_i) /\ ~ctl.kg_gm_started
                 c == IF generate THEN StartCache(ctl) ELSE ctl
             IN  /\ Go(state, [c EXCEPT !.ntt_sent = TRUE, !.intt = FALSE])
                 /\ StartUnits({"ntt"} \cup IF generate THEN {"gm"} ELSE {})
          /\ Quiet
       \/ Await("ntt_sent", "ntt")
       \/ Finished("ntt_sent", "ntt") /\ Go("KG_DMA_E", ctl) /\ NoStart /\ Quiet

KgNttS ==
    /\ state = "KG_NTT_S"
    /\ \/ Launch("ntt_sent", [ctl EXCEPT !.intt = FALSE], "ntt")
       \/ Await("ntt_sent", "ntt")
       \/ Finished("ntt_sent", "ntt") /\ Go("KG_DMA_S", ctl) /\ NoStart /\ Quiet

KgDmaE ==
    /\ state = "KG_DMA_E"
    /\ mem' = [mem EXCEPT !.slot[ctl.loop_i] = mem.ram,
                          !.acc[ctl.loop_i] = Sum({mem.ram})]
    /\ IF LastLoop(ctl.loop_i)
       THEN Go("KG_GEN_A", [ctl EXCEPT !.loop_i = 0, !.loop_j = 0])
       ELSE Go("KG_PRF_E", [ctl EXCEPT !.loop_i = @ + 1, !.hash_sent = FALSE])
    /\ NoStart
    /\ UNCHANGED <<ext, done>>

matrix_cached == ctl.kg_a_cache_done

\* The sponge is free for the next PRF only when the sampler is done too.
MatrixReady == ctl.kg_a_cache_done /\ ctl.kg_a_source_done

KgGenA ==
    /\ state = "KG_GEN_A"
    /\ IF ~ctl.kg_gm_started
       THEN Go(state, StartCache(ctl)) /\ StartUnits({"gm"})
       ELSE /\ IF MatrixReady
               THEN Go("KG_PRF_S", [ctl EXCEPT !.gm_sent = FALSE, !.loop_i = 0,
                                               !.gm_stream_mode = FALSE,
                                               !.loop_j = 0, !.hash_sent = FALSE])
               ELSE Go(state, ctl)
            /\ NoStart
    /\ Quiet

KgDmaS ==
    /\ state = "KG_DMA_S"
    /\ mem' = [mem EXCEPT !.slot[2 + ctl.loop_j] = mem.ram,
                          !.opnd[ctl.loop_j] = mem.ram]
    /\ IF LastLoop(ctl.loop_j)
       THEN Go("KG_PWMA_A_S",
               [ctl EXCEPT !.loop_i = 0, !.loop_j = 0, !.pwma_sent = FALSE,
                           !.gm_sent = FALSE, !.kg_poly_phase = 0,
                           !.kg_gm_started = FALSE, !.kg_enable = TRUE])
       ELSE Go("KG_PRF_S", [ctl EXCEPT !.loop_j = @ + 1, !.hash_sent = FALSE])
    /\ NoStart
    /\ UNCHANGED <<ext, done>>

\* The bank registers follow the loop counters while a product runs.
Product(bank, operand, accumulate, tomont) ==
    Launch("pwma_sent",
           [ctl EXCEPT !.bank = bank, !.operand_bank = operand,
                       !.accumulate = accumulate, !.use_tomont = tomont],
           "pwma")

KgPwma ==
    /\ state = "KG_PWMA_A_S"
    /\ \/ /\ ctl.kg_poly_phase = 0
          /\ Go(state, [ctl EXCEPT !.pwma_sent = FALSE, !.loop_j = 0,
                                   !.kg_poly_phase = 3])
          /\ NoStart /\ Quiet
       \/ /\ ctl.kg_poly_phase = 3
          /\ \/ Product(ctl.loop_i, ctl.loop_j, TRUE, TRUE)
             \/ Await("pwma_sent", "pwma")
             \/ /\ Finished("pwma_sent", "pwma")
                /\ LET c == [ctl EXCEPT !.pwma_sent = FALSE] IN
                   IF ~LastLoop(ctl.loop_j)
                   THEN Go(state, [c EXCEPT !.loop_j = @ + 1])
                   ELSE IF ~LastLoop(ctl.loop_i)
                   THEN Go(state, [c EXCEPT !.loop_i = @ + 1, !.loop_j = 0,
                                            !.kg_poly_phase = 0])
                   ELSE Go("KG_PACK", [c EXCEPT !.kg_enable = FALSE,
                                                !.kg_pack_sent = FALSE,
                                                !.kg_poly_phase = 0])
                /\ NoStart /\ Quiet

KgPack ==
    /\ state = "KG_PACK"
    /\ \/ Launch("kg_pack_sent", ctl, "kgpack")
       \/ Await("kg_pack_sent", "kgpack")
       \/ /\ Finished("kg_pack_sent", "kgpack")
          /\ Go("KG_HASH_PK", [ctl EXCEPT !.kg_pack_sent = FALSE, !.hash_sent = FALSE])
          /\ NoStart /\ Quiet

\* Key generation and encapsulation share this state and part on the opcode.
KgHashPk ==
    /\ state = "KG_HASH_PK"
    /\ \/ LaunchDigest
       \/ Await("hash_sent", "digest")
       \/ /\ Finished("hash_sent", "digest")
          /\ Go(IF opcode = ENCAPS THEN "ENC_LOAD_COINS" ELSE "KG_WRITE_REST",
                [ctl EXCEPT !.hash_sent = FALSE])
          /\ mem' = [mem EXCEPT !.hpk = H(ext.pk)]
          /\ NoStart
          /\ UNCHANGED <<ext, done>>

KgWriteRest ==
    /\ state = "KG_WRITE_REST"
    /\ ext' = [ext EXCEPT !.sk.pk = ext.pk, !.sk.h = mem.hpk, !.sk.z = mem.z]
    /\ Finish(ctl)
    /\ UNCHANGED mem

---------------------------------------------------------------------------
(* Encapsulation, and the re-encryption of a decapsulation *)

\* Decapsulation comes here too, with the public key inside the secret key.
EncReadPk ==
    /\ state = "ENC_READ_PK"
    /\ LET pk == IF ctl.pk_in_sk THEN ext.sk.pk ELSE ext.pk IN
       IF ~ctl.sk_reload_done
       THEN /\ mem' = [mem EXCEPT !.slot[0] = pk.t[0], !.slot[1] = pk.t[1]]
            /\ Go(state, [ctl EXCEPT !.sk_reload_done = TRUE])
       ELSE /\ mem' = [mem EXCEPT !.rho = pk.rho]
            /\ IF opcode = ENCAPS
               THEN Go("KG_HASH_PK", [ctl EXCEPT !.hash_sent = FALSE])
               ELSE Go("DEC_READ_REST", ctl)
    /\ NoStart
    /\ UNCHANGED <<ext, done>>

EncLoadCoins ==
    /\ state = "ENC_LOAD_COINS"
    /\ mem' = [mem EXCEPT !.m = seed[1]]
    /\ Go("ENC_PRF_R", [ctl EXCEPT !.hash_sent = FALSE])
    /\ NoStart
    /\ UNCHANGED <<ext, done>>

\* K and the coins from G(m || H(pk)), for the message chosen or decrypted.
HashMessage(c) ==
    \/ LaunchDigest
    \/ Await("hash_sent", "digest")
    \/ /\ Finished("hash_sent", "digest")
       /\ mem' = [mem EXCEPT !.kbar = KBar(mem.m, mem.hpk),
                             !.coins = Coins(mem.m, mem.hpk)]
       /\ Go("ENC_CBD_R",
             [c EXCEPT !.hash_sent = FALSE, !.cbd_sent = FALSE, !.ntt_sent = FALSE,
                       !.loop_j = 0, !.enc_noise_kind = 0])
       /\ NoStart
       /\ UNCHANGED <<ext, done>>

EncPrfR == state = "ENC_PRF_R" /\ HashMessage(ctl)

DecNttU ==
    /\ state = "DEC_NTT_U"
    /\ HashMessage([ctl EXCEPT !.dec_reenc_mode = TRUE, !.pwma_sent = FALSE,
                               !.enc_ntt_phase = 0])

\* r is sampled with eta1, e1 and e2 with eta2.
EncNoise ==
    LET kind == ctl.enc_noise_kind
        nonce == CASE kind = 0 -> ctl.loop_j
                   [] kind = 1 -> K + ctl.loop_j
                   [] OTHER -> 2 * K
    IN  Cbd(IF kind = 0 THEN 3 ELSE 2, mem.coins, nonce)

AfterNoise(c) ==
    CASE c.enc_noise_kind = 0 ->
           Go("ENC_NTT_R", [c EXCEPT !.enc_ntt_phase = 0, !.ntt_sent = FALSE])
      [] c.enc_noise_kind = 1 ->
           Go(state, IF LastLoop(c.loop_j)
                     THEN [c EXCEPT !.loop_j = 0, !.enc_noise_kind = 2]
                     ELSE [c EXCEPT !.loop_j = @ + 1])
      [] OTHER ->
           Go("ENC_PWMA_U",
              [c EXCEPT !.loop_i = 0, !.loop_j = 0, !.enc_ntt_phase = 0,
                        !.dp_phase = 0, !.dp_enable = FALSE, !.gm_source = TRUE,
                        !.gm_sent = FALSE])

EncCbdR ==
    /\ state = "ENC_CBD_R"
    /\ \/ LaunchPrf(EncNoise)
       \/ /\ ctl.hash_sent /\ ~ctl.cbd_sent
          /\ IF sponge = "words"
             THEN Go(state, [ctl EXCEPT !.cbd_sent = TRUE]) /\ StartUnits({"cbd"})
             ELSE Go(state, ctl) /\ NoStart
          /\ Quiet
       \/ ctl.hash_sent /\ Await("cbd_sent", "cbd")
       \/ /\ ctl.hash_sent /\ Finished("cbd_sent", "cbd")
          /\ AfterNoise([ctl EXCEPT !.hash_sent = FALSE, !.cbd_sent = FALSE])
          /\ NoStart /\ Quiet

EncNttR ==
    /\ state = "ENC_NTT_R"
    /\ CASE ctl.enc_ntt_phase = 0 ->
              Go(state, [ctl EXCEPT !.enc_ntt_phase = 1]) /\ NoStart /\ Quiet
         [] ctl.enc_ntt_phase = 1 ->
              \/ Launch("ntt_sent", [ctl EXCEPT !.intt = FALSE], "ntt")
              \/ Await("ntt_sent", "ntt")
              \/ /\ Finished("ntt_sent", "ntt")
                 /\ Go(state, [ctl EXCEPT !.ntt_sent = FALSE, !.enc_ntt_phase = 2])
                 /\ NoStart /\ Quiet
         [] OTHER ->
              /\ mem' = [mem EXCEPT !.slot[2 + ctl.loop_j] = mem.ram,
                                    !.opnd[ctl.loop_j] = mem.ram]
              /\ Go("ENC_CBD_R",
                    IF LastLoop(ctl.loop_j)
                    THEN [ctl EXCEPT !.loop_j = 0, !.enc_noise_kind = 1]
                    ELSE [ctl EXCEPT !.loop_j = @ + 1])
              /\ NoStart
              /\ UNCHANGED <<ext, done>>

\* The accumulator goes to the NTT core for the inverse transform.
TransferAcc(next, c) ==
    /\ mem' = [mem EXCEPT !.ram = mem.acc[ctl.bank]]
    /\ Go(next, [c EXCEPT !.ntt_sent = FALSE])
    /\ NoStart
    /\ UNCHANGED <<ext, done>>

\* One row of products over loop_j, for the u and for the v part.
Row(next) ==
    CASE ctl.dp_phase = 3 ->
           \/ Product(ctl.bank, ctl.loop_j, ctl.loop_j # 0, FALSE)
           \/ Await("pwma_sent", "pwma")
           \/ /\ Finished("pwma_sent", "pwma")
              /\ Go(state, IF LastLoop(ctl.loop_j)
                           THEN [ctl EXCEPT !.pwma_sent = FALSE, !.dp_phase = 4]
                           ELSE [ctl EXCEPT !.pwma_sent = FALSE, !.loop_j = @ + 1])
              /\ NoStart /\ Quiet
      [] ctl.dp_phase = 4 ->
           TransferAcc(next, [ctl EXCEPT !.dp_enable = FALSE, !.dp_phase = 0,
                                         !.enc_ntt_phase = 1])

\* The matrix sampler is started once, for both rows of the transpose.
EncPwmaU ==
    /\ state = "ENC_PWMA_U"
    /\ IF ctl.dp_phase = 0
       THEN /\ Go(state, [ctl EXCEPT !.gm_transposed = TRUE, !.gm_stream_mode = TRUE,
                                     !.gm_source = TRUE, !.ntt_source = FALSE,
                                     !.dp_enable = TRUE, !.loop_j = 0,
                                     !.pwma_sent = FALSE, !.gm_sent = TRUE,
                                     !.dp_phase = 3])
            /\ StartUnits(IF ctl.gm_sent THEN {} ELSE {"gm"})
            /\ Quiet
       ELSE Row("ENC_INTT_U")

\* Inverse transform, then the sum of the result with a noise polynomial.
Inverse(store, next) ==
    CASE ctl.enc_ntt_phase = 1 ->
           \/ Launch("ntt_sent", [ctl EXCEPT !.intt = TRUE], "ntt")
           \/ Await("ntt_sent", "ntt")
           \/ /\ Finished("ntt_sent", "ntt")
              /\ Go(state, [ctl EXCEPT !.ntt_sent = FALSE, !.enc_ntt_phase = 2])
              /\ NoStart /\ Quiet
      [] ctl.enc_ntt_phase = 2 ->
           store /\ next /\ NoStart /\ UNCHANGED <<ext, done>>

EndOfRow(c) == [c EXCEPT !.loop_i = 0, !.gm_transposed = FALSE, !.gm_sent = FALSE]

EndOfMatrix(c) ==
    [c EXCEPT !.loop_i = 0, !.gm_stream_mode = FALSE, !.gm_transposed = FALSE,
              !.gm_sent = FALSE]

EncInttU ==
    /\ state = "ENC_INTT_U"
    /\ LET c == [ctl EXCEPT !.enc_ntt_phase = 0, !.loop_j = 0, !.dp_phase = 0] IN
       Inverse(mem' = [mem EXCEPT !.slot[4 + ctl.loop_i] = Add(mem.ram, @)],
               IF LastLoop(ctl.loop_i)
               THEN Go("ENC_PWMA_V", EndOfMatrix(c))
               ELSE Go("ENC_PWMA_U", [c EXCEPT !.loop_i = @ + 1]))

EncPwmaV ==
    /\ state = "ENC_PWMA_V"
    /\ IF ctl.dp_phase = 0
       THEN /\ Go(state, [ctl EXCEPT !.gm_source = FALSE, !.ntt_source = FALSE,
                                     !.dp_enable = TRUE, !.loop_j = 0,
                                     !.pwma_sent = FALSE, !.dp_phase = 3])
            /\ NoStart /\ Quiet
       ELSE Row("ENC_INTT_V")

EncInttV ==
    /\ state = "ENC_INTT_V"
    /\ Inverse(mem' = [mem EXCEPT !.slot[6] = AddMsg(mem.ram, @, mem.m)],
               Go("ENC_PACK", [ctl EXCEPT !.enc_ntt_phase = 0,
                                          !.ct_pack_sent = FALSE]))

DiffKept(m) == m

\* Starting the comparison forgets the differences of the previous one.
ClearedDiff(m) == [m EXCEPT !.diff = FALSE]

\* The packer's done output is still high from the previous operation, so
\* the exit also waits for the whole ciphertext to have gone by.
EncPack ==
    /\ state = "ENC_PACK"
    /\ LET reenc    == ctl.dec_reenc_mode
           entering == ~ctl.ct_pack_sent
           leaving  == "ctpack" \in pulse /\ ctl.ct_cap_idx > K
           c == [ctl EXCEPT !.ct_pack_sent = ~leaving,
                            !.ct_cap_idx = IF entering THEN 0 ELSE @]
       IN  /\ IF leaving
              THEN Go(IF reenc THEN "DEC_CMP" ELSE "ENC_WRITE_SS",
                      [c EXCEPT !.hash_sent = FALSE,
                                !.ss_ready = IF reenc THEN @ ELSE FALSE])
              ELSE Go(state, c)
           /\ mem' = IF entering /\ reenc THEN ClearedDiff(mem) ELSE mem
           /\ StartUnits((IF entering THEN {"ctpack"} ELSE {}) \cup
                         (IF leaving /\ reenc THEN {"cmp"} ELSE {}))
    /\ UNCHANGED <<ext, done>>

WriteSecret ==
    IF ~ctl.ss_ready
    THEN /\ Go(state, [ctl EXCEPT !.hash_sent = FALSE, !.ss_ready = TRUE])
         /\ NoStart /\ Quiet
    ELSE /\ ext' = [ext EXCEPT !.ss = mem.kbar]
         /\ Finish([ctl EXCEPT !.ss_ready = FALSE])
         /\ UNCHANGED mem

EncWriteSs ==
    state = "ENC_WRITE_SS" /\ WriteSecret

---------------------------------------------------------------------------
(* Decapsulation *)

DecRead ==
    /\ state = "DEC_READ"
    /\ IF ~ctl.sk_reload_done
       THEN /\ mem' = [mem EXCEPT !.slot[2] = ext.sk.s[0], !.slot[3] = ext.sk.s[1],
                                  !.opnd = ext.sk.s]
            /\ Go(state, [ctl EXCEPT !.sk_reload_done = TRUE, !.pk_in_sk = TRUE])
       ELSE /\ Go("ENC_READ_PK", [ctl EXCEPT !.sk_reload_done = FALSE])
            /\ UNCHANGED mem
    /\ NoStart
    /\ UNCHANGED <<ext, done>>

DecReadRest ==
    /\ state = "DEC_READ_REST"
    /\ mem' = [mem EXCEPT !.hpk = ext.sk.h, !.z = ext.sk.z]
    /\ Go("DEC_READ_CT", [ctl EXCEPT !.hash_sent = FALSE])
    /\ NoStart
    /\ UNCHANGED <<ext, done>>

\* hash_sent marks here that the first read has been issued.
DecReadCt ==
    /\ state = "DEC_READ_CT"
    /\ IF ~ctl.hash_sent
       THEN Go(state, [ctl EXCEPT !.hash_sent = TRUE]) /\ UNCHANGED mem
       ELSE /\ mem' = [mem EXCEPT !.ctram = ext.ct, !.m = Nowhere]
            /\ Go("DEC_DECOMP",
                  [ctl EXCEPT !.hash_sent = FALSE, !.dec_j_idx = 0,
                              !.u0_loaded = FALSE, !.u0_started = FALSE,
                              !.u0_done = FALSE, !.unpack_done = FALSE,
                              !.dp_phase = 0, !.dp_enable = FALSE,
                              !.gm_source = FALSE])
    /\ NoStart
    /\ UNCHANGED <<ext, done>>

\* Unpacking and the transform of u0 run side by side; each latches its own
\* done, and the FSM goes on when it has both.
DecUnpack ==
    LET ntt_now == ctl.u0_done \/ (ctl.u0_started /\ "ntt" \in pulse)
        unpack_now == ctl.unpack_done \/ "unpack" \in pulse
        start == ctl.u0_loaded /\ ~ctl.u0_started
        c == [ctl EXCEPT !.intt = IF start THEN FALSE ELSE @,
                         !.u0_started = @ \/ start,
                         !.u0_done = ntt_now, !.unpack_done = unpack_now]
    IN  /\ Go(state, IF ntt_now /\ unpack_now
                     THEN [c EXCEPT !.dec_j_idx = 0, !.dp_phase = 2] ELSE c)
        /\ StartUnits(IF start THEN {"ntt"} ELSE {})
        /\ Quiet

DecDecomp ==
    /\ state = "DEC_DECOMP"
    /\ CASE ctl.dp_phase = 0 ->
              /\ Go(state, [ctl EXCEPT !.ntt_source = TRUE, !.gm_source = FALSE,
                                       !.dp_enable = TRUE, !.unpack_done = FALSE,
                                       !.u0_loaded = FALSE, !.u0_started = FALSE,
                                       !.u0_done = FALSE, !.dec_j_idx = 0,
                                       !.dp_phase = 1])
              /\ StartUnits({"unpack"})
              /\ Quiet
         [] ctl.dp_phase = 1 -> DecUnpack
         [] ctl.dp_phase = 2 ->
              \/ Product(ctl.bank, ctl.dec_j_idx, ctl.dec_j_idx # 0, FALSE)
              \/ Await("pwma_sent", "pwma")
              \/ /\ Finished("pwma_sent", "pwma")
                 /\ Go(state, IF LastLoop(ctl.dec_j_idx)
                              THEN [ctl EXCEPT !.pwma_sent = FALSE, !.dp_phase = 6]
                              ELSE [ctl EXCEPT !.pwma_sent = FALSE, !.dp_phase = 4,
                                               !.dec_j_idx = @ + 1])
                 /\ NoStart /\ Quiet
         [] ctl.dp_phase = 4 ->
              /\ mem' = [mem EXCEPT !.ram = mem.slot[4 + ctl.dec_j_idx]]
              /\ Go(state, [ctl EXCEPT !.ntt_sent = FALSE, !.dp_phase = 5])
              /\ NoStart
              /\ UNCHANGED <<ext, done>>
         [] ctl.dp_phase \in {5, 7} ->
              \/ Launch("ntt_sent", [ctl EXCEPT !.intt = (ctl.dp_phase = 7)], "ntt")
              \/ Await("ntt_sent", "ntt")
              \/ /\ Finished("ntt_sent", "ntt")
                 /\ Go(state, [ctl EXCEPT !.ntt_sent = FALSE,
                                          !.dp_phase = IF @ = 5 THEN 2 ELSE 8])
                 /\ NoStart /\ Quiet
         [] ctl.dp_phase = 6 -> TransferAcc(state, [ctl EXCEPT !.dp_phase = 7])
         [] ctl.dp_phase = 8 ->
              /\ mem' = [mem EXCEPT !.m = Decode(mem.slot[6], mem.ram)]
              /\ Go("DEC_NTT_U", [ctl EXCEPT !.dp_enable = FALSE, !.dp_phase = 0,
                                             !.hash_sent = FALSE])
              /\ NoStart
              /\ UNCHANGED <<ext, done>>

DecCmp ==
    /\ state = "DEC_CMP"
    /\ IF "cmp" \in pulse
       THEN Go(IF mem.diff THEN "DEC_RKPRF" ELSE "DEC_PACK",
               [ctl EXCEPT !.dec_reenc_mode = FALSE, !.hash_sent = FALSE])
       ELSE Go(state, ctl)
    /\ NoStart /\ Quiet

DecRkprf ==
    /\ state = "DEC_RKPRF"
    /\ \/ LaunchDigest
       \/ Await("hash_sent", "digest")
       \/ /\ Finished("hash_sent", "digest")
          /\ mem' = [mem EXCEPT !.kbar = J(mem.z, mem.ctram)]
          /\ Go("DEC_PACK", [ctl EXCEPT !.hash_sent = FALSE, !.ss_ready = FALSE])
          /\ NoStart
          /\ UNCHANGED <<ext, done>>

DecPack == state = "DEC_PACK" /\ WriteSecret

---------------------------------------------------------------------------
(* The units.  Each finishes on its own; Raise is its one-clock pulse. *)

Raise(e) == pulse' = pulse \cup {e} /\ run' = run \ {e}

DigestDone ==
    /\ sponge = "digest"
    /\ sponge' = "idle"
    /\ pulse' = pulse \cup {"digest"}
    /\ UNCHANGED <<state, ctl, mem, ext, run, out, done>>

PrfReady ==
    /\ sponge = "prf"
    /\ sponge' = "words"
    /\ UNCHANGED <<state, ctl, mem, ext, run, pulse, out, done>>

\* The sampler drains the sponge into the NTT core, a bank, or both.
CbdDone ==
    /\ "cbd" \in run /\ sponge = "words"
    /\ sponge' = "idle"
    /\ Raise("cbd")
    /\ LET enc == state = "ENC_CBD_R"
           kind == ctl.enc_noise_kind
           toRam == enc => kind = 0
           bank == CASE kind = 0 -> 2 + ctl.loop_j
                     [] kind = 1 -> 4 + ctl.loop_j
                     [] OTHER -> 6
       IN  mem' = [mem EXCEPT !.ram = IF toRam THEN mem.noise ELSE @,
                              !.slot = IF enc THEN [@ EXCEPT ![bank] = mem.noise]
                                              ELSE @]
    /\ UNCHANGED <<state, ctl, ext, out, done>>

\* In ENC_INTT_U the sampler, four clocks from its end once its last
\* coefficient is taken, is done long before the inverse transform.
NttDone ==
    /\ "ntt" \in run
    /\ ~(state = "ENC_INTT_U" /\ "gm" \in run /\ out["gm"] = K * K)
    /\ Raise("ntt")
    /\ mem' = [mem EXCEPT !.ram = IF ctl.intt THEN Intt(@) ELSE Ntt(@)]
    /\ UNCHANGED <<state, ctl, ext, sponge, out, done>>

\* The matrix sampler asks for the sponge and gets it when it is idle.
GmOpen ==
    /\ "gm" \in run /\ sponge = "idle"
    /\ sponge' = "xof"
    /\ UNCHANGED <<state, ctl, mem, ext, run, pulse, out, done>>

\* It is done as soon as its last polynomial fits in the stream FIFO.
GmDone ==
    /\ "gm" \in run /\ sponge = "xof" /\ out["gm"] >= K * K - 1
    /\ sponge' = "idle"
    /\ Raise("gm")
    /\ UNCHANGED <<state, ctl, mem, ext, out, done>>

\* The entries come row by row.
Entry(n) ==
    IF ctl.gm_transposed THEN A(mem.rho, n % K, n \div K)
                         ELSE A(mem.rho, n \div K, n % K)

Streaming ==
    /\ ctl.gm_stream_mode
    /\ out["gm"] < K * K
    /\ "gm" \in run => sponge = "xof"

TakeEntry == out' = [out EXCEPT !["gm"] = @ + 1]

\* The DMA states own the write port of the banks: what the cache writes
\* under them is lost, so the cache takes nothing from the stream there.
Dma == {"KG_DMA_E", "KG_DMA_S"}
pair_ready_ungated == TRUE
gm_pair_ready == state \notin Dma

CacheTake ==
    /\ ctl.kg_a_cache_active
    /\ Streaming
    /\ gm_pair_ready
    /\ TakeEntry
    /\ LET n == ctl.kg_a_cache_count IN
       /\ mem' = IF state \in Dma THEN mem
                 ELSE [mem EXCEPT !.slot[4 + n] = Entry(out["gm"])]
       /\ ctl' = IF n = K * K - 1
                 THEN [ctl EXCEPT !.kg_a_cache_active = FALSE,
                                  !.kg_a_cache_done = TRUE]
                 ELSE [ctl EXCEPT !.kg_a_cache_count = n + 1]
    /\ UNCHANGED <<state, ext, sponge, run, pulse, done>>

\* acc[bank] := [acc[bank] +] stream * operand, the stream coming from the
\* NTT core, the matrix sampler or a polynomial bank.
PwmaDone ==
    /\ "pwma" \in run
    /\ ctl.dp_enable \/ (ctl.kg_enable /\ state = "KG_PWMA_A_S")
    /\ LET fromGm == ctl.dp_enable /\ ctl.gm_source /\ ~ctl.ntt_source
           stream ==
             CASE ctl.ntt_source -> mem.ram
               [] fromGm -> Entry(out["gm"])
               [] ctl.dp_enable /\ ~ctl.gm_source /\ ~ctl.ntt_source ->
                    mem.slot[ctl.loop_j]
               [] OTHER -> mem.slot[4 + K * ctl.loop_i + ctl.loop_j]
           before == IF ctl.accumulate THEN mem.acc[ctl.bank][2] ELSE {}
           product == Mul(stream, mem.opnd[ctl.operand_bank], ctl.use_tomont)
       IN  /\ IF fromGm THEN Streaming /\ TakeEntry ELSE UNCHANGED out
           /\ mem' = [mem EXCEPT !.acc[ctl.bank] = Sum(before \cup {product})]
    /\ Raise("pwma")
    /\ UNCHANGED <<state, ctl, ext, sponge, done>>

\* t comes from the accumulators, s from its banks.
KgPackDone ==
    /\ "kgpack" \in run
    /\ Raise("kgpack")
    /\ ext' = [ext EXCEPT !.pk = [t |-> mem.acc, rho |-> mem.rho],
                          !.sk.s = [j \in Idx |-> mem.slot[2 + j]]]
    /\ UNCHANGED <<state, ctl, mem, sponge, out, done>>

\* A packed word is compared with the local copy of the ciphertext when
\* re-encrypting; otherwise it goes out, and into the local copy.
CtPackWord ==
    /\ "ctpack" \in run /\ out["ctpack"] \in Parts
    /\ out' = [out EXCEPT !["ctpack"] = @ + 1]
    /\ LET n == out["ctpack"]
           w == IF n < K THEN PackU(mem.slot[4 + n]) ELSE PackV(mem.slot[6])
           captured == state = "ENC_PACK" /\ ctl.ct_cap_idx \in Parts
           i == ctl.ct_cap_idx
       IN  /\ ctl' = IF captured THEN [ctl EXCEPT !.ct_cap_idx = @ + 1] ELSE ctl
           /\ mem' = CASE ~captured -> mem
                       [] captured /\ ctl.dec_reenc_mode ->
                            [mem EXCEPT !.diff = @ \/ w # Part(mem.ctram, i)]
                       [] OTHER -> [mem EXCEPT !.ctram = SetPart(@, i, w)]
           /\ ext' = IF state = "ENC_PACK" /\ ~ctl.dec_reenc_mode
                     THEN [ext EXCEPT !.ct = SetPart(@, n, w)] ELSE ext
    /\ UNCHANGED <<state, sponge, run, pulse, done>>

CtPackDone ==
    /\ "ctpack" \in run /\ out["ctpack"] \notin Parts
    /\ Raise("ctpack")
    /\ UNCHANGED <<state, ctl, mem, ext, sponge, out, done>>

\* u0 is loaded into the NTT core as it is unpacked.
UnpackPart ==
    /\ "unpack" \in run /\ out["unpack"] \in Parts
    /\ out' = [out EXCEPT !["unpack"] = @ + 1]
    /\ LET n == out["unpack"]
           p == Unpack(Part(mem.ctram, n))
       IN  IF state = "DEC_DECOMP" /\ ctl.dp_phase = 1
           THEN /\ mem' = [mem EXCEPT !.slot[4 + n] = p,
                                      !.ram = IF n = 0 THEN p ELSE @]
                /\ ctl' = [ctl EXCEPT !.u0_loaded = @ \/ n = 0]
           ELSE UNCHANGED <<mem, ctl>>
    /\ UNCHANGED <<state, ext, sponge, run, pulse, done>>

UnpackDone ==
    /\ "unpack" \in run /\ out["unpack"] \notin Parts
    /\ Raise("unpack")
    /\ UNCHANGED <<state, ctl, mem, ext, sponge, out, done>>

CmpDone ==
    /\ "cmp" \in run
    /\ Raise("cmp")
    /\ UNCHANGED <<state, ctl, mem, ext, sponge, out, done>>

---------------------------------------------------------------------------
(* The host, between operations, and its soft reset *)

Tamper(n) ==
    /\ state = "IDLE" /\ ~done
    /\ tampers < MaxTampers
    /\ tampers' = tampers + 1
    /\ ext' = [ext EXCEPT !.ct = SetPart(@, n, <<"bad", n>>)]
    /\ UNCHANGED <<state, ctl, mem, sponge, run, pulse, out, done, opcode, seed,
                   call, agreed, calls, resets>>

\* A soft reset clears the control registers; data registers and memories stay.
SoftReset ==
    /\ resets < MaxResets
    /\ resets' = resets + 1
    /\ state' = "IDLE"
    /\ ctl' = ResetCtl
    /\ sponge' = "idle" /\ run' = {} /\ pulse' = {} /\ done' = FALSE
    /\ out' = [gm |-> K * K, ctpack |-> K + 1, unpack |-> K + 1]
    /\ mem' = [mem EXCEPT !.diff = FALSE]
    /\ UNCHANGED <<ext, opcode, seed, call, agreed, calls, tampers>>

---------------------------------------------------------------------------
(* Specification *)

\* The banks start with anything; the host has loaded a key pair and a
\* ciphertext that the reference implementation made.
Init ==
    /\ state = "IDLE" /\ ctl = ResetCtl
    /\ mem = [slot |-> [s \in 0 .. 7 |-> Nowhere], acc |-> [i \in Idx |-> Sum({})],
              opnd |-> [j \in Idx |-> Nowhere], ram |-> Nowhere, noise |-> Nowhere,
              ctram |-> [u |-> [j \in Idx |-> Nowhere], v |-> Nowhere],
              diff |-> FALSE, rho |-> Nowhere, sigma |-> Nowhere, z |-> Nowhere,
              m |-> Nowhere, kbar |-> Nowhere, coins |-> Nowhere, hpk |-> Nowhere]
    /\ LET kp == crypto_kem_keypair(D0, Z(D0))
           e  == crypto_kem_enc(kp.pk, M0)
       IN  ext = [pk |-> kp.pk, sk |-> kp.sk, ct |-> e.ct, ss |-> Nowhere]
    /\ sponge = "idle" /\ run = {} /\ pulse = {} /\ done = FALSE
    /\ out = [gm |-> K * K, ctpack |-> K + 1, unpack |-> K + 1]
    /\ opcode = KEYGEN /\ seed = <<D0, Z(D0)>>
    /\ call = [op |-> KEYGEN, seed |-> seed, ext |-> ext]
    /\ agreed = [pk |-> ext.pk, ct |-> ext.ct, ss |-> Nowhere]
    /\ calls = 0 /\ tampers = 0 /\ resets = 0

Fsm ==
    /\ \/ Idle
       \/ KgLoadSeed \/ KgHashG \/ KgPrfE \/ KgCbdE \/ KgNttE \/ KgDmaE \/ KgGenA
       \/ KgPrfS \/ KgCbdS \/ KgNttS \/ KgDmaS \/ KgPwma \/ KgPack \/ KgHashPk
       \/ KgWriteRest
       \/ EncReadPk \/ EncLoadCoins \/ EncPrfR \/ EncCbdR \/ EncNttR \/ EncPwmaU
       \/ EncInttU \/ EncPwmaV \/ EncInttV \/ EncPack \/ EncWriteSs
       \/ DecRead \/ DecReadRest \/ DecReadCt \/ DecDecomp \/ DecNttU \/ DecCmp
       \/ DecRkprf \/ DecPack
    /\ agreed' = IF state = "ENC_WRITE_SS" /\ done'
                 THEN [pk |-> call.ext.pk, ct |-> ext.ct, ss |-> ext'.ss]
                 ELSE agreed
    /\ UNCHANGED <<opcode, seed, call, calls, tampers, resets>>

Unit ==
    /\ \/ DigestDone \/ PrfReady \/ CbdDone \/ NttDone \/ GmOpen \/ GmDone
       \/ CacheTake \/ PwmaDone \/ KgPackDone \/ CtPackWord \/ CtPackDone
       \/ UnpackPart \/ UnpackDone \/ CmpDone
    /\ UNCHANGED hostVars

Host ==
    \/ \E op \in {KEYGEN, ENCAPS}, s \in Seeds : Start(op, s)
    \/ Start(DECAPS, D0)
    \/ \E n \in Parts : Tamper(n)
    \/ SoftReset

Next == Fsm \/ Unit \/ Host

Spec == Init /\ [][Next]_vars

\* The clock runs, and while a unit is busy some unit gets on with its work.
\* Each has a bounded amount of it, so this is less than that every unit
\* finishes, which the hardware gives.  The host is under no obligation.
Fairness == WF_vars(Fsm) /\ WF_vars(Unit)

FairSpec == Spec /\ Fairness

---------------------------------------------------------------------------
(* Properties *)

\* An operation that reports done has written what the reference
\* implementation (kyber/ref/kem.c) computes from the inputs it was started
\* with, and has left the rest of the data memory as it was.  It fails when
\* any bank, register or flag of an earlier stage, operation or abandoned
\* operation leaks into a result.
Expected ==
    LET in == call.ext
        kp == crypto_kem_keypair(call.seed[1], call.seed[2])
        e  == crypto_kem_enc(in.pk, call.seed[1])
    IN  CASE call.op = KEYGEN -> [in EXCEPT !.pk = kp.pk, !.sk = kp.sk]
          [] call.op = ENCAPS -> [in EXCEPT !.ct = e.ct, !.ss = e.ss]
          [] call.op = DECAPS -> [in EXCEPT !.ss = crypto_kem_dec(in.ct, in.sk)]

ResultIsKem == done => ext = Expected

\* Two parties who use the accelerator agree: a decapsulation with the
\* secret key of the public key that the last encapsulation used gives that
\* encapsulation's secret if the ciphertext is the one it made, and another
\* value if any part of it was changed on the way.  The comparison of the
\* re-encrypted ciphertext must therefore forget an earlier mismatch.
KeyAgreement ==
    done /\ call.op = DECAPS /\ agreed.ss # Nowhere =>
        \A d \in Seeds :
            LET kp == crypto_kem_keypair(d, Z(d)) IN
            call.ext.sk = kp.sk /\ agreed.pk = kp.pk =>
                (ext.ss = agreed.ss <=> call.ext.ct = agreed.ct)

\* When the FSM is idle nothing it started is still running: the sponge is
\* free, so the next operation's hash start is not lost, and the coefficient
\* stream is off, so the next one starts from an empty FIFO.
QuiescentWhenIdle ==
    state = "IDLE" =>
        /\ run = {} /\ sponge = "idle" /\ pulse \subseteq {"ctpack"}
        /\ ~ctl.gm_stream_mode /\ ~ctl.kg_a_cache_active

\* An operation that has started reaches its end: no done pulse is missed,
\* no start is lost on a unit that is busy, nobody waits on everybody.
OperationEnds == (state # "IDLE") ~> (state = "IDLE")
=============================================================================
