----------------------------- MODULE MCListener -----------------------------
(* Listener for TLC: connection names and processes built from the others. *)
EXTENDS Listener

ConnNames == Listeners \X (0..(MaxAccepts - 1))
Processes == Servers \cup Clients
\* Listener 2 is bound by another process while that of 1 runs, or after it died.
OwnHost == [l \in Listeners |-> l]
\* On Unix the sync version does nothing that the tokio version may not do.
TokioUnix == {<<"unix", "tokio">>}
WindowsFlavours == {<<"windows", "sync">>, <<"windows", "tokio">>}
ThreeFlavours == TokioUnix \cup WindowsFlavours
=============================================================================
