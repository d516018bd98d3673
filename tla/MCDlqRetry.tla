------------------------------ MODULE MCDlqRetry ------------------------------
(***************************************************************************)
(* Model-checking companion of DlqRetry.                                   *)
(***************************************************************************)
EXTENDS DlqRetry, TLC

\* No definition tells one seat, worker or booking from another.
Symmetry == Permutations(Seats) \cup Permutations(Workers) \cup Permutations(Bookings)
=============================================================================
