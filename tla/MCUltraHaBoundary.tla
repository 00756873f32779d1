------------------------- MODULE MCUltraHaBoundary --------------------------
(* TLC instances of UltraHaBoundary.                                       *)
EXTENDS UltraHaBoundary, TLC

(* A request and a reload, which may overlap, and two commands.            *)
Limits == [governed |-> 1, command |-> 2, reload |-> 1]
=============================================================================
