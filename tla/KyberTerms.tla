---------------------------- MODULE KyberTerms ----------------------------
(***************************************************************************)
(* The values Kyber-512 computes, as terms.  A polynomial, a hash or a     *)
(* byte string is the expression that produced it, so two of them are      *)
(* equal exactly when they were produced the same way from the same        *)
(* inputs: the right polynomial in the wrong bank, a wrong nonce, a stale  *)
(* accumulator or a transposed matrix all give another term.  The          *)
(* arithmetic inside a term (butterflies, reductions, Keccak) is left out. *)
(***************************************************************************)
EXTENDS Integers

K == 2
Idx == 0 .. K - 1

\* Hashes: G(d || k), H, G(m || h), the rejection hash J.
Rho(d)      == <<"rho", d>>
Sigma(d)    == <<"sigma", d>>
H(pk)       == <<"H", pk>>
KBar(m, h)  == <<"kbar", m, h>>
Coins(m, h) == <<"coins", m, h>>
J(z, ct)    == <<"J", z, ct>>

\* Sampling: noise of PRF(seed, nonce) under eta, and the entry of row i and
\* column j of the matrix that rho expands to.
Cbd(eta, seed, nonce) == <<"cbd", eta, seed, nonce>>
A(rho, i, j)          == <<"A", rho, i, j>>

\* Polynomial arithmetic.  A product does not depend on the order of its
\* factors, nor a sum on the order of its terms.
Ntt(p)          == <<"ntt", p>>
Intt(p)         == <<"intt", p>>
Mul(p, q, mont) == <<"mul", {p, q}, mont>>
Sum(ps)         == <<"sum", ps>>
Add(p, q)       == <<"add", p, q>>
AddMsg(p, q, m) == <<"addmsg", p, q, m>>

\* Compression to ciphertext bytes and back.
PackU(p)  == <<"cu", p>>
PackV(p)  == <<"cv", p>>
Unpack(c) == <<"dq", c>>
===========================================================================
