--------------------------- MODULE HandoffHistory ---------------------------
(***************************************************************************)
(* Handoff with two history variables: whether the driver has received     *)
(* motion away from the crossing edge since control last came back, and    *)
(* how often the local pointer has moved while motion was to be swallowed. *)
(***************************************************************************)
EXTENDS Handoff

VARIABLES leftEdge, strays

hvars == <<vars, leftEdge, strays>>

\* Steps of Next told apart by what they do to the machine and the queue.
ControlReleased == GrabActive(machine) /\ ~GrabActive(machine')

ControlTaken == ~GrabActive(machine) /\ GrabActive(machine')

OffEdgeReceived ==
    /\ pc = "drain" /\ queue # <<>>
    /\ queue' = Tail(queue)
    /\ ~Head(queue).injected /\ ~AtRightEdge(Head(queue).x)

\* The pointer goes somewhere else than the anchor although the flag is on.
PointerStrays == grab /\ cursor' # cursor /\ cursor' # Anchor

HInit == Init /\ leftEdge = TRUE /\ strays = 0

HNext ==
    /\ Next
    /\ leftEdge' = IF ControlReleased THEN FALSE ELSE leftEdge \/ OffEdgeReceived
    /\ strays' = IF ~grab' THEN 0 ELSE IF PointerStrays THEN strays + 1 ELSE strays

HSpec == HInit /\ [][HNext]_hvars /\ Fairness

\* "While control is on the peer, local motion must stop reaching this
\* machine" (platform-windows/src/hook.rs:3-6).  The hook's load of the flag,
\* its answer and the pointer's move are three steps, so the flag and the
\* first warp can come between them: one real event that was decided on before
\* the flag was set may still move the pointer, even off the anchor.  But one
\* is all: for the rest of the capture nothing but the driver's own warps, if
\* the OS grants them, moves the pointer (hook.rs:98-119, handoff.rs:119-129).
OneStrayMove == strays <= 1

\* "Crossing stays disarmed until the pointer leaves" (core/src/kvm.rs:13-16),
\* of the driver as a whole and whatever is queued when control comes back:
\* the driver's own warp does not count as leaving, and no capture follows a
\* release without a real event away from the edge in between.
CaptureFollowsLeaving == [][ControlTaken => leftEdge]_hvars

=============================================================================
