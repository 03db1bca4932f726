------------------------------ MODULE KyberRef ------------------------------
(***************************************************************************)
(* The arithmetic of Kyber in one system: a behaviour takes up one of four *)
(* tasks and the variables of the others rest.                             *)
(***************************************************************************)
EXTENDS KyberMul, KyberSweep, Shake, KyberKat

vars == <<mulVars, u, shakeVars, katVars>>

MulRests ==
    /\ keygen = FALSE /\ input = <<>> /\ pc = "rests" /\ layer = 0 /\ term = 0
    /\ p = <<>> /\ r = <<>> /\ hp = <<>> /\ hr = <<>>
SweepRests == u = -1
ShakeRests ==
    /\ rate = SHAKE128_RATE /\ stage = "rests" /\ calls = 0 /\ state = shake_init
    /\ absorbed = 0 /\ squeezed = 0 /\ stream = <<>> /\ got = <<>>
KatRests ==
    /\ k = 2 /\ call = "rests" /\ at = "rests" /\ w = NoLocals /\ flipped = FALSE
    /\ keys = <<>> /\ ct = <<>> /\ ss = <<>> /\ shared = <<>>

Init ==
    \/ MulInit /\ SweepRests /\ ShakeRests /\ KatRests
    \/ MulRests /\ SweepInit /\ ShakeRests /\ KatRests
    \/ MulRests /\ SweepRests /\ ShakeInit /\ KatRests
    \/ MulRests /\ SweepRests /\ ShakeRests /\ KatInit

Next ==
    \/ MulNext /\ UNCHANGED <<u, shakeVars, katVars>>
    \/ SweepNext /\ UNCHANGED <<mulVars, shakeVars, katVars>>
    \/ ShakeNext /\ UNCHANGED <<mulVars, u, katVars>>
    \/ KatNext /\ UNCHANGED <<mulVars, u, shakeVars>>

Spec == Init /\ [][Next]_vars
=============================================================================
