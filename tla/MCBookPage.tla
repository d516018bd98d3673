------------------------------ MODULE MCBookPage ------------------------------
(***************************************************************************)
(* Model-checking companion of BookPage.                                   *)
(***************************************************************************)
EXTENDS BookPage, TLC
=============================================================================
