--------------------------- MODULE MCLoginLimiter ---------------------------
(* LoginLimiter for TLC: addresses are interchangeable.                    *)
EXTENDS LoginLimiter, TLC

Symmetry == Permutations(Sources)
=============================================================================
