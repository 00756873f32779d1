-------------------------- MODULE MCUltraLifecycle --------------------------
(* TLC instances of UltraLifecycle.                                        *)
EXTENDS UltraLifecycle, TLC
=============================================================================
