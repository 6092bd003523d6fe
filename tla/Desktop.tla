------------------------------ MODULE Desktop -------------------------------
(***************************************************************************)
(* A desktop app from its launch to its projections.  The picker's window  *)
(* is created when bootstrap is through, with an agent or without one.     *)
(***************************************************************************)
EXTENDS AgentLaunch, Streaming, Integers

CONSTANTS
    Here,    \* the app whose projections are followed
    Half,    \* see Coordinates
    Screens, \* the sizes of a proxy's video element, in pixels
    Source   \* the size of a captured window

Sizes == [w : Nat \ {0}, h : Nat \ {0}]

\* Neither a window with nothing to show nor an element with nothing to point
\* at is projected.
ASSUME DesktopAssumption ==
    Here \in Apps /\ Half \in Nat \ {0} /\ Screens \subseteq Sizes /\ Source \in Sizes

vars == <<launchVars, streamVars>>

Map == INSTANCE Coordinates

\* Bound: a projection starts in an app that is the only one, and no app
\* after that; launches and projections share nothing but the picker.
Launching == \A p \in Projections : source[p] = "idle"

Open == app[Here] \in UiStates /\ \A a \in Apps \ {Here} : app[a] = "off"

Init == LaunchInit /\ StreamInit

LaunchSteps(a) == Launch(a) \/ Bootstraps(a) \/ Serves(a)

Next ==
    \/ \E a \in Apps : (Launching \/ app[a] # "off") /\ LaunchSteps(a) /\ UNCHANGED streamVars
    \/ /\ \/ \E p \in Projections : (Open /\ Start(p)) \/ ProxyNext(p) \/ CloseProxy(p)
          \/ PickerNext
       /\ UNCHANGED launchVars

\* The event loops of the app and of its renderers run, and a capture that was
\* asked for is granted or refused.  Agents, users and pages promise nothing.
Spec ==
    /\ Init /\ [][Next]_vars
    /\ \A a \in Apps : WF_vars(Bootstraps(a) /\ UNCHANGED streamVars)
    /\ WF_vars(PickerNext /\ UNCHANGED launchVars)

-----------------------------------------------------------------------------
(* Properties                                                              *)

TypeOK == LaunchTypeOK /\ StreamTypeOK

\* videoWidth and videoHeight, 0 before the first frame.
VideoSize(p) == IF plays[p] = None THEN [w |-> 0, h |-> 0] ELSE Source

Reach(screen) == IF screen.w * Source.h <= screen.h * Source.w
                 THEN screen.w * Source.h ELSE screen.h * Source.w

Off(n) == IF n < 0 THEN -n ELSE n

\* A point no farther from the middle than the picture reaches.
OnPicture(pt, screen) ==
    /\ Off(2 * pt.x - screen.w) * Source.h <= Reach(screen)
    /\ Off(2 * pt.y - screen.h) * Source.w <= Reach(screen)

Points(screen) == [x : 0 .. screen.w, y : 0 .. screen.h]

\* A proxy shows its own window, and a pointer reaches the source exactly from
\* that picture: from no point before there is one, from no bar, and from all
\* of the picture with its border (topology/mapping.ts:54-56 "never sends a
\* bogus coordinate", docs/testing.md:44-47).
PictureIsTrue ==
    \A p \in Projections :
        /\ plays[p] \in {p, None}
        /\ \A screen \in Screens : \A pt \in Points(screen) :
              Map!MapProxyToSource(pt, screen, VideoSize(p)).x # Map!Nowhere
                  <=> plays[p] # None /\ OnPicture(pt, screen)
=============================================================================
