------------------------------ MODULE MCPortal ------------------------------
(* A small desktop for PortalSession.                                      *)
EXTENDS PortalSession

Monitor(left, top) == [x |-> left, y |-> top, width |-> 3, height |-> 2]

\* No monitor that may carry a barrier, then one, then a second beside it.
PluggedIn == <<<<>>, <<Monitor(0, 0)>>, <<Monitor(0, 0), Monitor(3, 0)>>>>

\* A KDE desktop, one without a pointer, one without portals.
Desktops ==
    {[screenCast |-> 7, remoteDesktop |-> 7, inputCapture |-> 3, cursor |-> 7],
     [screenCast |-> 1, remoteDesktop |-> 4, inputCapture |-> Absent, cursor |-> 2],
     [screenCast |-> 2, remoteDesktop |-> Absent, inputCapture |-> 1, cursor |-> 1]}
=============================================================================
