------------------------------- MODULE MCAuth -------------------------------
(***************************************************************************)
(* The instance of Auth for TLC.                                           *)
(***************************************************************************)
EXTENDS Auth, TLC

CONSTANTS c1, c2, c3, r1, r2

MCSymmetry == Permutations(Clients) \cup Permutations(Requests)
=============================================================================
