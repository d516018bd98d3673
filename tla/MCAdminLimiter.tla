---------------------------- MODULE MCAdminLimiter ----------------------------
(***************************************************************************)
(* Model-checking companion of AdminLimiter.                               *)
(***************************************************************************)
EXTENDS AdminLimiter, TLC

CONSTANT
  MaxTime         \* bound on the clock

Symmetry == Permutations(Callers)

Bounded == now <= MaxTime
=============================================================================
