------------------------------ MODULE MCMirror ------------------------------
(* A small instance of Mirror.                                             *)
EXTENDS Mirror

\* The right column of the screen, and one on a monitor plugged in since the
\* screen was read.
TwoHands == {2, 4}

\* 2 / 3 * 3 comes out just below 2.
OneShort == {2}
=============================================================================
