----------------------------- MODULE MCLoopMesh -----------------------------
(* A small mesh: a source, a loop of two that does not need it, and a way     *)
(* back to the source.                                                     *)
EXTENDS LoopMesh, TLC

CONSTANTS A, B, C, e1, e2

LoopAndBack == A :> {B} @@ B :> {C} @@ C :> {A, B}

OneSource == [e \in Events |-> A]

=============================================================================
