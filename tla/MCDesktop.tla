----------------------------- MODULE MCDesktop ------------------------------
(* Two apps that start at the same time, or one with two projections.      *)
EXTENDS Desktop

\* Bars at the sides with half a pixel left over, and bars above and below.
Elements == {[w |-> 7, h |-> 4], [w |-> 2, h |-> 5]}
Square == [w |-> 3, h |-> 3]
=============================================================================
