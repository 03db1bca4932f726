----------------------------- MODULE MCKyberRef -----------------------------
(* KyberRef on two products of polynomials that are extreme (all q-1, signs  *)
(* alternating), single terms, also ones that wrap around X^256 = -1, and    *)
(* irregular.                                                                *)
EXTENDS KyberRef

Samples ==
    << [j \in Coeffs |-> KYBER_Q - 1],
       [j \in Coeffs |-> IF j % 2 = 0 THEN KYBER_Q - 1 ELSE -(KYBER_Q - 1)],
       [j \in Coeffs |-> IF j = 255 THEN -1 ELSE 0],
       [j \in Coeffs |-> (j * 1117 + 5) % KYBER_Q],
       [j \in Coeffs |-> ((j * j) % 5) - 2],
       [j \in Coeffs |-> IF j < 128 THEN -(KYBER_Q - 1) ELSE KYBER_Q - 1] >>
MCInputs ==
    {[s \in Slots |-> Samples[((step * (s + 1) + step \div 4) % 6) + 1]] : step \in 0..5}
    \cup {[s \in Slots |-> [j \in Coeffs |-> IF j = 0 THEN KYBER_Q - 1 ELSE 0]]}
=============================================================================
