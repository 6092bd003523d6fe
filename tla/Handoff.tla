------------------------------ MODULE Handoff -------------------------------
(***************************************************************************)
(* The KVM handoff driver (crates/agent/src/handoff.rs) with the two       *)
(* threads that feed it: the low-level mouse hook (platform-windows/       *)
(* src/hook.rs) and the emergency hotkey (platform-windows/src/hotkey.rs). *)
(*                                                                         *)
(* Three processes run beside each other:                                  *)
(*   the driver    one sequential loop; pc names the point between two of  *)
(*                 its accesses to something another process also touches; *)
(*   the hook      runs on every mouse event, reads the grab flag, decides *)
(*                 whether the event is swallowed, queues it and returns;  *)
(*   the hotkey    queues a token per key press.                           *)
(* The environment is the operator's hand, the OS, which moves the pointer *)
(* once the hook has let an event through, the wall clock and the peer.    *)
(* The vertical axis behaves like the horizontal one and has no part in    *)
(* any decision, so positions are horizontal pixels.                       *)
(***************************************************************************)
EXTENDS Integers, Sequences, KvmMachine

CONSTANTS
    Left, Width,   \* the source's virtual screen, in pixels
    RemoteWidth,   \* the peer's screen width given on the command line
    Motion,        \* the deltas one mouse event can carry
    MaxBacklog,    \* bound: the operator moves only below this backlog
    MaxPresses,    \* bound: hotkey presses waiting in the channel
    WarpCanFail    \* whether SetCursorPos may be refused by the OS

ASSUME ScreenAssumption ==
    /\ Left \in Int
    /\ Width \in Nat \ {0}
    /\ RemoteWidth \in Nat \ {0}

ASSUME EnvironmentAssumption ==
    /\ Motion \subseteq Int
    /\ MaxBacklog \in Nat \ {0}
    /\ MaxPresses \in Nat \ {0}
    /\ WarpCanFail \in BOOLEAN

VARIABLES
    pc,       \* where the driver is
    machine,  \* the driver's KvmMachine
    grab,     \* the AtomicBool the hook reads
    cursor,   \* the local pointer
    queue,    \* hook_rx: events the hook sent and the driver has not received
    presses,  \* hotkey_rx: presses the driver has not received
    remote,   \* where the driver put the peer's pointer
    dx,       \* the delta being forwarded while a reply is awaited
    expired,  \* whether the deadline has passed
    moving,   \* whether the operator's hand may still move the mouse
    hand,     \* the real mouse event between the mouse and the pointer
    warp      \* the driver's SetCursorPos between its call and the pointer

vars == <<pc, machine, grab, cursor, queue, presses, remote, dx, expired, moving,
          hand, warp>>

Points == {"connect", "check", "hotkey", "drain", "grabOn", "warp", "await",
           "grabOff", "cleanup", "clearGrab", "done"}

\* HookedMouse, without `swallowed', which nothing reads.
MouseEvent == [x : Int, injected : BOOLEAN]

\* A real event: proposed by the OS, decided on by the hook but not sent yet,
\* or passed on by the hook and about to move the pointer.
HandEvent == [stage : {"none", "proposed", "decided", "passed"},
              x : Int, swallowed : BOOLEAN]

NoEvent == [stage |-> "none", x |-> 0, swallowed |-> FALSE]

\* The warp: asked for, or passed on by the hook and about to move the pointer.
WarpStages == {"none", "asked", "passed"}

Screen == Left .. Left + Width - 1

\* Mutant of Clamp: the lower bound is forgotten.
ClampAbove(v, lo, hi) == IF v > hi THEN hi ELSE v

Clamp(v, lo, hi) == IF v < lo THEN lo ELSE IF v > hi THEN hi ELSE v

-----------------------------------------------------------------------------
(* Geometry                                                                *)

EdgeSlop == 1

Anchor == Left + Width \div 2

AtRightEdge(x) == x >= Left + Width - 1 - EdgeSlop

-----------------------------------------------------------------------------
(* The hook and the hotkey thread                                          *)

\* Mutant of Swallow: the test of the injected flag is inverted.
SwallowInjected(injected) == injected /\ grab

\* Whether mouse_proc consumes an event.  Our own warp is never consumed.
Swallow(injected) == ~injected /\ grab

\* The operator's hand: the OS proposes a position relative to the pointer.
\* The next event waits until this one is through.
OperatorMoves ==
    /\ pc # "done" /\ moving /\ hand = NoEvent /\ Len(queue) < MaxBacklog
    /\ \E d \in Motion :
          hand' = [stage |-> "proposed", x |-> cursor + d, swallowed |-> FALSE]
    /\ UNCHANGED <<pc, machine, grab, cursor, queue, presses, remote, dx, expired,
                   moving, warp>>

\* mouse_proc on a real event, first half: the flag is loaded.
HookDecides ==
    /\ hand.stage = "proposed"
    /\ hand' = [hand EXCEPT !.stage = "decided", !.swallowed = Swallow(FALSE)]
    /\ UNCHANGED <<pc, machine, grab, cursor, queue, presses, remote, dx, expired,
                   moving, warp>>

\* Second half: the event is sent, swallowed or not, and the callback returns.
HookSends ==
    /\ hand.stage = "decided"
    /\ queue' = Append(queue, [x |-> hand.x, injected |-> FALSE])
    /\ hand' = IF hand.swallowed THEN NoEvent ELSE [hand EXCEPT !.stage = "passed"]
    /\ UNCHANGED <<pc, machine, grab, cursor, presses, remote, dx, expired, moving, warp>>

\* What the hook passed on moves the pointer, after the callback has returned.
PointerFollows ==
    /\ hand.stage = "passed"
    /\ cursor' = Clamp(hand.x, Left, Left + Width - 1)
    /\ hand' = NoEvent
    /\ UNCHANGED <<pc, machine, grab, queue, presses, remote, dx, expired, moving, warp>>

\* mouse_proc on the warp, which comes back through the hook as an injected
\* event.  Callbacks run on one thread, one after the other.
HookSeesWarp ==
    /\ warp = "asked" /\ hand.stage # "decided"
    /\ queue' = Append(queue, [x |-> Anchor, injected |-> TRUE])
    /\ warp' = IF Swallow(TRUE) THEN "none" ELSE "passed"
    /\ UNCHANGED <<pc, machine, grab, cursor, presses, remote, dx, expired, moving, hand>>

PointerWarped ==
    /\ warp = "passed"
    /\ cursor' = Anchor
    /\ warp' = "none"
    /\ UNCHANGED <<pc, machine, grab, queue, presses, remote, dx, expired, moving, hand>>

OperatorRests ==
    /\ moving /\ moving' = FALSE
    /\ UNCHANGED <<pc, machine, grab, cursor, queue, presses, remote, dx, expired, hand, warp>>

\* WM_HOTKEY arrives on the hotkey thread and is sent to the driver.
HotkeyPressed ==
    /\ pc # "done" /\ presses < MaxPresses
    /\ presses' = presses + 1
    /\ UNCHANGED <<pc, machine, grab, cursor, queue, remote, dx, expired, moving, hand, warp>>

DeadlinePasses ==
    /\ pc \notin {"connect", "done"} /\ ~expired /\ expired' = TRUE
    /\ UNCHANGED <<pc, machine, grab, cursor, queue, presses, remote, dx, moving, hand, warp>>

-----------------------------------------------------------------------------
(* The driver                                                              *)

\* SetCursorPos to the anchor, whose refusal the driver ignores.  Whether the
\* call returns before the pointer has moved is left open; the next call waits.
SetCursorPosition ==
    /\ warp = "none"
    /\ \/ warp' = "asked"
       \/ WarpCanFail /\ UNCHANGED warp

\* TcpStream::connect and the Hello exchange.  Both threads already run.
Connected ==
    /\ pc = "connect" /\ pc' = "check"
    /\ UNCHANGED <<machine, grab, cursor, queue, presses, remote, dx, expired, moving, hand, warp>>

\* `?' on any failure before the loop: run returns, nothing was grabbed.
ConnectFails ==
    /\ pc = "connect" /\ pc' = "done"
    /\ UNCHANGED <<machine, grab, cursor, queue, presses, remote, dx, expired, moving, hand, warp>>

\* Mutant of CheckDeadline: the deadline moves on with every pass.
DeadlineRenewed ==
    /\ pc = "check" /\ pc' = "hotkey"
    /\ UNCHANGED <<machine, grab, cursor, queue, presses, remote, dx, expired, moving, hand, warp>>

\* while Instant::now() < deadline
CheckDeadline ==
    /\ pc = "check" /\ pc' = IF expired THEN "cleanup" ELSE "hotkey"
    /\ UNCHANGED <<machine, grab, cursor, queue, presses, remote, dx, expired, moving, hand, warp>>

\* if hotkey_rx.try_recv().is_ok()
PollHotkey ==
    /\ pc = "hotkey"
    /\ IF presses > 0
       THEN /\ presses' = presses - 1
            /\ machine' = On(machine, "EmergencyRelease")
            /\ pc' = IF ReleasesControl(machine, "EmergencyRelease")
                     THEN "grabOff" ELSE "drain"
       ELSE /\ pc' = "drain"
            /\ UNCHANGED <<machine, presses, hand, warp>>
    /\ UNCHANGED <<grab, cursor, queue, remote, dx, expired, moving, hand, warp>>

\* hook_rx.try_recv() is empty: sleep 4ms and go round.
QueueDrained ==
    /\ pc = "drain" /\ queue = <<>> /\ pc' = "check"
    /\ UNCHANGED <<machine, grab, cursor, queue, presses, remote, dx, expired, moving, hand, warp>>

\* if ev.injected { continue }
SkipInjected ==
    /\ pc = "drain" /\ queue # <<>> /\ Head(queue).injected
    /\ queue' = Tail(queue)
    /\ UNCHANGED <<pc, machine, grab, cursor, presses, remote, dx, expired, moving, hand, warp>>

\* if !machine.grab_active(): only edge contact matters.
WatchEdge ==
    /\ pc = "drain" /\ queue # <<>> /\ ~Head(queue).injected /\ ~GrabActive(machine)
    /\ LET event == IF AtRightEdge(Head(queue).x) THEN "EdgeReached" ELSE "EdgeLeft" IN
       /\ machine' = On(machine, event)
       /\ IF Captures(machine, event)
          THEN pc' = "grabOn" /\ remote' = 0
          ELSE UNCHANGED <<pc, remote, hand, warp>>
    /\ queue' = Tail(queue)
    /\ UNCHANGED <<grab, cursor, presses, dx, expired, moving, hand, warp>>

\* grab.store(true)
GrabOn ==
    /\ pc = "grabOn" /\ pc' = "warp" /\ grab' = TRUE
    /\ UNCHANGED <<machine, cursor, queue, presses, remote, dx, expired, moving, hand, warp>>

\* The first set_cursor_position of a capture.
WarpToAnchor ==
    /\ pc = "warp" /\ pc' = "drain"
    /\ SetCursorPosition
    /\ UNCHANGED <<machine, grab, cursor, queue, presses, remote, dx, expired, moving, hand>>

\* Grabbed: the delta from the anchor moves the remote pointer, the local
\* one is warped back, the move is written and a reply is awaited.
Forward ==
    /\ pc = "drain" /\ queue # <<>> /\ ~Head(queue).injected /\ GrabActive(machine)
    /\ dx' = Head(queue).x - Anchor
    /\ remote' = Clamp(remote + dx', 0, RemoteWidth - 1)
    /\ queue' = Tail(queue)
    /\ SetCursorPosition
    /\ pc' = "await"
    /\ UNCHANGED <<machine, grab, cursor, presses, expired, moving, hand>>

\* read_line returns a line.  Walking off the peer's left edge releases.
PeerAnswers ==
    /\ pc = "await"
    /\ LET returns == remote <= 0 /\ dx < 0 IN
       /\ machine' = IF returns THEN On(machine, "ReturnedAcrossEdge") ELSE machine
       /\ pc' = IF returns /\ ReleasesControl(machine, "ReturnedAcrossEdge")
                THEN "grabOff" ELSE "drain"
    /\ dx' = 0
    /\ UNCHANGED <<grab, cursor, queue, presses, remote, expired, moving, hand, warp>>

\* The write or the read fails, or read_line returns 0 bytes.
PeerLost ==
    /\ pc = "await" /\ pc' = "cleanup" /\ dx' = 0
    /\ UNCHANGED <<machine, grab, cursor, queue, presses, remote, expired, moving, hand, warp>>

\* Mutant of GrabOff: the store after a release is missing.
GrabStaysOn ==
    /\ pc = "grabOff" /\ pc' = "drain"
    /\ UNCHANGED <<machine, grab, cursor, queue, presses, remote, dx, expired, moving, hand, warp>>

\* grab.store(false) after a release inside the loop.
GrabOff ==
    /\ pc = "grabOff" /\ pc' = "drain" /\ grab' = FALSE
    /\ UNCHANGED <<machine, cursor, queue, presses, remote, dx, expired, moving, hand, warp>>

\* The unconditional cleanup: the machine is told ...
Cleanup ==
    /\ pc = "cleanup" /\ pc' = "clearGrab"
    /\ machine' = On(machine, "PeerEnded")
    /\ UNCHANGED <<grab, cursor, queue, presses, remote, dx, expired, moving, hand, warp>>

\* Mutant of ClearGrab: only the machine is told that the session is over.
CleanupForgetsGrab ==
    /\ pc = "clearGrab" /\ pc' = "done"
    /\ UNCHANGED <<machine, grab, cursor, queue, presses, remote, dx, expired, moving, hand, warp>>

\* ... and the flag comes off.  The ReleaseAllInput that follows is best
\* effort and finds nothing held: the driver only ever sent pointer moves.
ClearGrab ==
    /\ pc = "clearGrab" /\ pc' = "done" /\ grab' = FALSE
    /\ UNCHANGED <<machine, cursor, queue, presses, remote, dx, expired, moving, hand, warp>>

Finished == pc = "done" /\ UNCHANGED vars

-----------------------------------------------------------------------------
(* Specifications                                                          *)

Init ==
    /\ pc = "connect"
    /\ machine = NewMachine
    /\ grab = FALSE
    /\ cursor \in Screen
    /\ queue = <<>>
    /\ presses = 0
    /\ remote = 0
    /\ dx = 0
    /\ expired = FALSE
    /\ moving = TRUE
    /\ hand = NoEvent
    /\ warp = "none"

\* Steps of the driver that wait for nobody but an earlier warp.
Driver ==
    \/ CheckDeadline \/ PollHotkey \/ QueueDrained \/ SkipInjected \/ WatchEdge
    \/ GrabOn \/ WarpToAnchor \/ Forward \/ GrabOff \/ Cleanup \/ ClearGrab

Peer == Connected \/ ConnectFails \/ PeerAnswers \/ PeerLost

Environment == OperatorMoves \/ OperatorRests \/ HotkeyPressed \/ DeadlinePasses

\* A warp on its way through the hook to the pointer, and a real event.
WarpStep == HookSeesWarp \/ PointerWarped

HandStep == HookDecides \/ HookSends \/ PointerFollows

Next == Driver \/ Peer \/ Environment \/ HandStep \/ WarpStep \/ Finished

\* The OS schedules the threads and carries out what the hook lets through;
\* the peer and the operator promise nothing.
Fairness == WF_vars(Driver) /\ WF_vars(HandStep) /\ WF_vars(WarpStep)

Spec == Init /\ [][Next]_vars /\ Fairness

\* The clock runs and the hand rests at some time; the peer may fall silent.
SilentPeerSpec == Spec /\ WF_vars(DeadlinePasses) /\ WF_vars(OperatorRests)

-----------------------------------------------------------------------------
(* Properties                                                              *)

TypeOK ==
    /\ pc \in Points
    /\ machine \in Machine
    /\ grab \in BOOLEAN
    /\ cursor \in Screen
    /\ queue \in Seq(MouseEvent)
    /\ presses \in Nat
    /\ remote \in 0 .. RemoteWidth - 1
    /\ dx \in Int
    /\ expired \in BOOLEAN
    /\ moving \in BOOLEAN
    /\ hand \in HandEvent
    /\ warp \in WarpStages

\* The grab flag never drifts from the machine (core/src/kvm.rs:96-100): it
\* is on without a capture only between a release and the store that follows
\* it, off with one only between the capture and its store, and a session
\* that has ended, on whatever path, swallows nothing.
GrabAgrees ==
    /\ grab /\ ~GrabActive(machine) => pc \in {"grabOff", "clearGrab"}
    /\ ~grab /\ GrabActive(machine) => pc = "grabOn"
    /\ pc = "done" => ~grab /\ ~GrabActive(machine)

\* GrabAgrees, strengthened to an inductive invariant: what the grab flag and
\* the machine are at each point of the driver's loop
\* (agent/src/handoff.rs:97-102, 110-124, 148-153, 162-165).
GrabPhases ==
    /\ GrabAgrees
    /\ pc = "connect" => ~grab /\ ~GrabActive(machine)
    /\ pc = "grabOn" => ~grab /\ GrabActive(machine)
    /\ pc \in {"warp", "await"} => grab /\ GrabActive(machine)
    /\ pc = "grabOff" => grab /\ ~GrabActive(machine)
    /\ pc = "clearGrab" => ~GrabActive(machine)

Control == INSTANCE InputControl WITH control <- machine.state

\* Driver, hook and machine together keep the promise of InputControl: the
\* flag follows the machine and always catches up, even if the peer never
\* answers again and the operator never rests.
ImplementsControl == Control!CSpec

\* The peer answers or its connection breaks, and the hand rests at some time.
Cooperation == WF_vars(Peer) /\ WF_vars(OperatorRests)

\* A press of the emergency hotkey is followed by a moment when the
\* operator's mouse is their own (agent/src/handoff.rs:10-14), with a peer
\* and a hand that cooperate and without the deadline's help.
HotkeyReleases == Cooperation => (presses > 0 ~> ~grab)

\* A session that was set up ends with the grab off (agent/src/handoff.rs:
\* 93-95, 162-165), given the clock and a peer and a hand that cooperate.
SessionEnds ==
    Cooperation /\ WF_vars(DeadlinePasses) => (pc = "check" ~> pc = "done" /\ ~grab)

\* "It fires even if this loop is wedged or blocked on a dead socket"
\* (agent/src/handoff.rs:13-14): whatever the peer does, a press of the hotkey
\* gives the mouse back.
HotkeyAlwaysReleases == presses > 0 ~> ~grab
=============================================================================
