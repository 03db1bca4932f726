------------------------------ MODULE DemoFlow ------------------------------
(***************************************************************************)
(* The key exchange of sw/apps/full_demo/main.c: run_keygen_demo,          *)
(* run_encaps_demo and run_decaps_demo on the events of the DIP switches,  *)
(* with what have_keypair and have_capsule remember between them.          *)
(*                                                                         *)
(* A call of the accelerator (KyberDriver) gives the reference's bytes     *)
(* when its inputs are the reference's, may give others, or fails and      *)
(* leaves the buffers as they are.                                         *)
(***************************************************************************)
EXTENDS Sequences

VARIABLES
    events,            \* DIP events still to be handled in this round
    calls,             \* calls the current event still has to make
    pk, sk, ct, ss_enc, ss_dec, ss_bad,    \* what the buffers hold
    have_keypair, have_capsule,
    pass,              \* the current run_decaps_demo has found no difference
    gpio               \* the mark shown on the LEDs
buffers == <<pk, sk, ct, ss_enc, ss_dec, ss_bad>>
demoVars == <<events, calls, buffers, have_keypair, have_capsule, pass, gpio>>

\* The reference's bytes, its ciphertext with a bit inverted and what that
\* decapsulates to, any other bytes.
Inverted(c) == CASE c = "ref" -> "inverted" [] c = "inverted" -> "ref" [] OTHER -> c
Shared(c, key) ==
    CASE c = "ref" /\ key = "ref" -> "ref"
      [] c = "inverted" /\ key = "ref" -> "rejected"
      [] OTHER -> "bad"

DemoInit ==
    /\ events = {} /\ calls = <<>>
    /\ pk = "none" /\ sk = "none" /\ ct = "none"
    /\ ss_enc = "none" /\ ss_dec = "none" /\ ss_bad = "none"
    /\ have_keypair = FALSE /\ have_capsule = FALSE /\ pass = FALSE
    /\ gpio = "BOOT"

\* The main loop takes what the handlers have left (InterruptPath).
TakeEvents ==
    /\ events = {} /\ calls = <<>>
    /\ events' \in SUBSET {"DIP3", "DIP4", "DIP5", "DIP6"} \ {{}}
    /\ UNCHANGED <<calls, buffers, have_keypair, have_capsule, pass, gpio>>

Keypair == IF have_keypair THEN <<>> ELSE <<"keygen">>
Capsule == IF have_capsule THEN <<>> ELSE Append(Keypair, "encaps")
Calls(e) == CASE e = "DIP4" -> <<"keygen">>
              [] e = "DIP5" -> Append(Keypair, "encaps")
              [] e = "DIP6" -> Capsule \o <<"decaps", "invert", "decaps_bad">>
\* process_events takes them in this order.
First(e) == \A d \in events : e = d \/ <<e, d>> \in
    {<<"DIP3", "DIP4">>, <<"DIP3", "DIP5">>, <<"DIP3", "DIP6">>,
     <<"DIP4", "DIP5">>, <<"DIP4", "DIP6">>, <<"DIP5", "DIP6">>}
ProcessEvent(e) ==
    /\ calls = <<>> /\ e \in events /\ First(e)
    /\ events' = events \ {e}
    /\ \/ /\ e = "DIP3"
          /\ have_keypair' = FALSE /\ have_capsule' = FALSE /\ gpio' = "0"
          /\ UNCHANGED calls
       \/ /\ e # "DIP3"
          /\ calls' = Calls(e)
          /\ UNCHANGED <<have_keypair, have_capsule, gpio>>
    /\ UNCHANGED <<buffers, pass>>

-----------------------------------------------------------------------------
(* One call each: ret = KYBER_OK, with the right bytes or with other ones in  *)
(* the first or the second buffer, or not KYBER_OK.                           *)

Outcomes == {"ok", "wrong 1", "wrong 2", "fails"}
At(c) == calls # <<>> /\ Head(calls) = c
\* A step that has not passed ends the event, prerequisites included.
Continue(ok) == calls' = IF ok THEN Tail(calls) ELSE <<>>
Gives(ret, wrong, bytes) == IF ret = wrong THEN "bad" ELSE bytes

run_keygen_demo(ret) ==
    /\ At("keygen")
    /\ \/ ret = "fails" /\ UNCHANGED <<pk, sk>>
       \/ /\ ret # "fails"
          /\ pk' = Gives(ret, "wrong 1", "ref") /\ sk' = Gives(ret, "wrong 2", "ref")
    /\ LET ok == ret # "fails" /\ pk' = "ref" /\ sk' = "ref"
       IN  /\ have_keypair' = ok
           /\ gpio' = CASE ret = "fails" -> "ERR_KEYGEN"
                        [] ok -> "KEYGEN"
                        [] OTHER -> "ERR_COMPARE"
           /\ Continue(ok)
    /\ UNCHANGED <<events, ct, ss_enc, ss_dec, ss_bad, have_capsule, pass>>

run_encaps_demo(ret) ==
    /\ At("encaps")
    /\ \/ ret = "fails" /\ UNCHANGED <<ct, ss_enc>>
       \/ /\ ret # "fails"
          /\ LET right == IF pk = "ref" THEN "ref" ELSE "bad"
             IN  ct' = Gives(ret, "wrong 1", right) /\ ss_enc' = Gives(ret, "wrong 2", right)
    /\ LET ok == ret # "fails" /\ ct' = "ref" /\ ss_enc' = "ref"
       IN  /\ have_capsule' = ok
           /\ gpio' = CASE ret = "fails" -> "ERR_ENCAPS"
                        [] ok -> "ENCAPS"
                        [] OTHER -> "ERR_COMPARE"
           /\ Continue(ok)
    /\ UNCHANGED <<events, pk, sk, ss_dec, ss_bad, have_keypair, pass>>

\* run_decaps_demo, up to the second call; a difference does not end it.
DecapsValid(ret) ==
    /\ At("decaps")
    /\ \/ /\ ret = "fails" /\ gpio' = "ERR_DECAPS" /\ UNCHANGED <<ss_dec, pass>>
       \/ /\ ret # "fails" /\ UNCHANGED gpio
          /\ ss_dec' = Gives(ret, "wrong 1", Shared(ct, sk))
          /\ pass' = (ss_dec' = "ref" /\ ss_enc = ss_dec')
    /\ Continue(ret # "fails")
    /\ UNCHANGED <<events, pk, sk, ct, ss_enc, ss_bad, have_keypair, have_capsule>>
InvertBit ==
    /\ At("invert") /\ ct' = Inverted(ct) /\ Continue(TRUE)
    /\ UNCHANGED <<events, pk, sk, ss_enc, ss_dec, ss_bad, have_keypair,
                   have_capsule, pass, gpio>>
\* Mutant: the bit is restored behind the early return.
RestoreLate(ret) == IF ret = "fails" THEN ct ELSE Inverted(ct)
Restore(ret) == Inverted(ct)
DecapsInvalid(ret) ==
    /\ At("decaps_bad")
    /\ ct' = Restore(ret)
    /\ \/ /\ ret = "fails" /\ gpio' = "ERR_REJECT" /\ UNCHANGED <<ss_bad, pass>>
       \/ /\ ret # "fails"
          /\ ss_bad' = Gives(ret, "wrong 1", Shared(ct, sk))
          /\ pass' = (pass /\ ss_bad' = "rejected" /\ ss_enc # ss_bad')
          /\ gpio' = IF pass' THEN "DECAPS" ELSE "ERR_COMPARE"
    /\ Continue(ret # "fails")
    /\ UNCHANGED <<events, pk, sk, ss_enc, ss_dec, have_keypair, have_capsule>>

DemoNext ==
    \/ TakeEvents
    \/ \E e \in events : ProcessEvent(e)
    \/ \E ret \in Outcomes :
          \/ run_keygen_demo(ret)
          \/ run_encaps_demo(ret)
          \/ DecapsValid(ret)
          \/ DecapsInvalid(ret)
    \/ InvertBit

-----------------------------------------------------------------------------
\* main.c:370, 424, 472: between events the flags tell the truth about the
\* buffers, whatever has failed in between and wherever it stopped: with
\* have_keypair the keys, with have_capsule the ciphertext and its secret are
\* the reference's; and the mark 0x33 on the LEDs is one of an exchange that
\* agreed and of a rejection.
FlagsTell ==
    calls = <<>> =>
        /\ have_keypair => pk = "ref" /\ sk = "ref"
        /\ have_capsule => ct = "ref" /\ ss_enc = "ref"
        /\ gpio = "DECAPS" => ss_dec = ss_enc /\ ss_bad = "rejected"
=============================================================================
