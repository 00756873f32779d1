---------------------------- MODULE MCDispatcher ----------------------------
(* TLC instance of Dispatcher: what is behind the handle changes hands     *)
(* between a terminal, another terminal and no window at all.              *)
EXTENDS Dispatcher
=============================================================================
