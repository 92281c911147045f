--------------------------- MODULE MCChannelState ---------------------------
(***************************************************************************)
(* ChannelState with symmetric clients and server halves.                  *)
(***************************************************************************)
EXTENDS ChannelState, TLC

Symmetry == Permutations(Clients) \cup Permutations(ServerHalves)
=============================================================================
