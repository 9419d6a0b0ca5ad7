------------------------------ MODULE Products ------------------------------
(***************************************************************************)
(* Products and powers as folds, which the lemmas of DataLemmas are about: *)
(* likelihoods and common denominators are made of them.                   *)
(***************************************************************************)
EXTENDS Naturals, Functions

\* The product of f over S, a subset of its domain.
Product(f, S) == FoldFunctionOnSet(LAMBDA a, b : a * b, 1, f, S)

\* b to the power of n.
Power(b, n) == Product([m \in 1 .. n |-> b], 1 .. n)
=============================================================================
