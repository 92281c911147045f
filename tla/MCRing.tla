------------------------------ MODULE MCRing ------------------------------
(***************************************************************************)
(* A small ring for TLC: eight bytes, of which a header takes two, so that *)
(* messages start at every residue and wrap inside the header and inside   *)
(* the payload.                                                            *)
(***************************************************************************)
EXTENDS Ring, TLC

Symmetry == Permutations(Contents)
=============================================================================
