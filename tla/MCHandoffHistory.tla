-------------------------- MODULE MCHandoffHistory --------------------------
(* A small instance of HandoffHistory.                                     *)
EXTENDS HandoffHistory, MCHandoff

=============================================================================
