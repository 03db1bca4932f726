------------------------------- MODULE Keccak -------------------------------
(***************************************************************************)
(* The permutation Keccak-f[1600] twice: as the unrolled C code of         *)
(* fips202.c computes it and, round by round, as the accelerator's         *)
(* keccak_round_function.v does.  A 64-bit lane is the set of its bit      *)
(* positions that are 1, a state is a function from lane numbers 5*y+x to  *)
(* lanes.                                                                  *)
(***************************************************************************)
EXTENDS Integers, Sequences, EagerFunctions

Lanes == 0..24
NROUNDS == 24

Xor(a, b) == (a \ b) \cup (b \ a)
AndNot(a, b) == b \ a                          \* ~a & b
ROL(a, n) == {(k + n) % 64 : k \in a}

KeccakF_RoundConstants ==
    <<{0}, {1,7,15}, {1,3,7,15,63}, {15,31,63}, {0,1,3,7,15}, {0,31},
      {0,7,15,31,63}, {0,3,15,63}, {1,3,7}, {3,7}, {0,3,15,31}, {1,3,31},
      {0,1,3,7,15,31}, {0,1,3,7,63}, {0,3,7,15,63}, {0,1,15,63}, {1,15,63},
      {7,63}, {1,3,15}, {1,3,31,63}, {0,7,15,31,63}, {7,15,63}, {0,31},
      {3,15,31,63}>>

Parity(s, x) == Xor(s[x], Xor(s[x+5], Xor(s[x+10], Xor(s[x+15], s[x+20]))))
Spread(C) == Eager([x \in 0..4 |-> Xor(C[(x + 4) % 5], ROL(C[(x + 1) % 5], 1))])
Theta(s) ==
    LET D == Spread(Eager([x \in 0..4 |-> Parity(s, x)]))
    IN  Eager([l \in Lanes |-> Xor(s[l], D[l % 5])])
Chi(b, l) == LET row == l - (l % 5) IN
    Xor(b[l], AndNot(b[row + ((l + 1) % 5)], b[row + ((l + 2) % 5)]))

-----------------------------------------------------------------------------
\* The C code: lane BCa .. BCu of each group of five assignments, with the
\* lane it is taken from (ba = 0, be = 1, .. su = 24) and its rotation.
Gather ==
    << <<0,0>>,  <<6,44>>, <<12,43>>, <<18,21>>, <<24,14>>,
       <<3,28>>, <<9,20>>, <<10,3>>,  <<16,45>>, <<22,61>>,
       <<1,1>>,  <<7,6>>,  <<13,25>>, <<19,8>>,  <<20,18>>,
       <<4,27>>, <<5,36>>, <<11,10>>, <<17,15>>, <<23,56>>,
       <<2,62>>, <<8,55>>, <<14,39>>, <<15,41>>, <<21,2>> >>

UnrolledRound(s, round) ==
    LET A  == Theta(s)
        BC == Eager([l \in Lanes |-> ROL(A[Gather[l+1][1]], Gather[l+1][2])])
        E  == Eager([l \in Lanes |-> Chi(BC, l)])
    IN  [E EXCEPT ![0] = Xor(@, KeccakF_RoundConstants[round + 1])]

\* An iteration is two rounds; asking for the domain has s evaluated at once.
RECURSIVE PermuteFrom(_, _)
PermuteFrom(s, round) ==
    CASE DOMAIN s = Lanes /\ round = NROUNDS -> s
      [] DOMAIN s = Lanes /\ round < NROUNDS ->
            PermuteFrom(UnrolledRound(UnrolledRound(s, round), round + 1), round + 2)
KeccakF1600_StatePermute(s) == PermuteFrom(s, 0)

-----------------------------------------------------------------------------
\* The accelerator: rho_pi_state[x][y] by column x, from theta_state[x][y].
rho_pi_source ==
    << << <<0,0,0>>,  <<3,0,28>>, <<1,0,1>>,  <<4,0,27>>, <<2,0,62>> >>,
       << <<1,1,44>>, <<4,1,20>>, <<2,1,6>>,  <<0,1,36>>, <<3,1,55>> >>,
       << <<2,2,43>>, <<0,2,3>>,  <<3,2,25>>, <<1,2,10>>, <<4,2,39>> >>,
       << <<3,3,21>>, <<1,3,45>>, <<4,3,8>>,  <<2,3,15>>, <<0,3,41>> >>,
       << <<4,4,14>>, <<2,4,61>>, <<0,4,18>>, <<3,4,56>>, <<1,4,2>> >> >>

keccak_round_function(s, rc) ==
    LET theta_state == Theta(s)
        rho_pi_state == Eager([l \in Lanes |->
            LET src == rho_pi_source[(l % 5) + 1][(l \div 5) + 1]
            IN  ROL(theta_state[src[1] + 5 * src[2]], src[3])])
        chi_state == Eager([l \in Lanes |-> Chi(rho_pi_state, l)])
    IN  [chi_state EXCEPT ![0] = Xor(@, rc)]

=============================================================================
