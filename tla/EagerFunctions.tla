--------------------------- MODULE EagerFunctions ---------------------------
(***************************************************************************)
(* TLC evaluates [x \in S |-> e] again at every application.  Eager(f) is  *)
(* f itself, evaluated once: for functions that are applied many times.    *)
(***************************************************************************)
EXTENDS TLC
Eager(f) == f @@ <<>>
=============================================================================
