----------------------------- MODULE MCAdmission -----------------------------
(***************************************************************************)
(* Model-checking companion of Admission.                                  *)
(***************************************************************************)
EXTENDS Admission, TLC

\* No definition tells one seat, request or hash from another.
Symmetry == Permutations(Seats) \cup Permutations(Requests) \cup Permutations(Hashes)
=============================================================================
