----------------------------- MODULE MCHandoff ------------------------------
(* Small instances of Handoff.                                             *)
EXTENDS Handoff

\* A hand that moves one pixel per event, either way.
UnitMotion == {-1, 1}

\* A hand that moves two pixels per event one way, and one the other.
UnevenMotion == {-2, 1}

\* A monitor left of the primary one gives the desktop a negative origin.
NegativeLeft == -3

=============================================================================
