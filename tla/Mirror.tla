------------------------------- MODULE Mirror -------------------------------
(***************************************************************************)
(* Driving a peer's pointer: the clients kvm_mirror and kvm_demo           *)
(* (crates/agent/src/tcp.rs) against the injector of the peer, which is    *)
(* the portal's (portal_injector.rs with platform-linux/src/pointer.rs) or *)
(* that of Windows (ipc.rs with platform-windows/src/inject.rs).           *)
(*                                                                         *)
(* Both clients may run against the same peer, each with one request under *)
(* way at a time; the peer serves each connection in a task of its own.    *)
(* The portal's injector knows only relative motion: it drives the pointer *)
(* into the corner once and from then on believes it is where it was last  *)
(* told to go.  Positions are horizontal; the vertical axis is the same.   *)
(***************************************************************************)
EXTENDS Coordinates, Sequences

CONSTANTS
    Width,        \* the source's screen, as kvm_mirror read it at the start
    RemoteWidth,  \* the peer's screen as the command line and kvm_demo have it
    PeerWidth,    \* the peer's screen
    Hands,        \* where the operator's hand may take the local pointer
    Short,        \* local positions whose product is rounded below a pixel
    Origin, Side, \* kvm_demo's square
    HomeDelta,    \* how far the homing motion goes
    Unknown       \* None: no position

ASSUME WidthAssumption ==
    /\ Width \in Nat \ {0} /\ RemoteWidth \in Nat \ {0} /\ PeerWidth \in Nat \ {0}
    /\ Hands \subseteq Int /\ Short \subseteq Int
    /\ Origin \in Nat /\ Side \in Nat /\ Unknown \notin Int

\* pointer.rs:20-22 "from anywhere on any plausible desktop"
ASSUME HomeAssumption == HomeDelta \in Nat /\ HomeDelta >= PeerWidth

VARIABLES
    at,       \* per client, where it is
    hand,     \* the local pointer, or Unknown when it cannot be read
    last,     \* kvm_mirror's last_sent
    walk,     \* the corners kvm_demo has yet to visit
    expired,  \* whether kvm_mirror's time is over
    target,   \* per client, the position of the request under way
    stage,    \* per client, what the peer has done about its request
    peer,     \* the peer's kind of injector
    belief,   \* VirtualCursor::position
    delta,    \* the motion the injector is about to send
    pointer,  \* where the peer's pointer is
    drifted   \* whether something has parted belief and pointer

clientVars == <<at, hand, last, walk, expired>>
peerVars == <<peer, belief, delta, pointer, drifted>>
vars == <<clientVars, target, stage, peerVars>>

Clients == {"mirror", "demo"}

Screen == 0 .. PeerWidth - 1

Locks == {"homing", "moving"}

\* The compositor keeps the pointer on the screen.
OnScreen(x) == Between(x, 0, PeerWidth - 1)

Mapped(x) == MapEdgeCrossing(x, Width, RemoteWidth, x \in Short)

Corners == <<Origin, Origin + Side, Origin + Side, Origin, Origin>>

Init ==
    /\ at = [c \in Clients |-> "connect"] /\ hand \in Hands /\ last = Unknown
    /\ walk = Corners /\ expired = FALSE
    /\ target = [c \in Clients |-> 0] /\ stage = [c \in Clients |-> "none"]
    /\ peer \in {"portal", "windows"} /\ belief = Unknown /\ delta = 0
    /\ pointer \in Screen /\ drifted = FALSE

-----------------------------------------------------------------------------
(* The clients                                                             *)

Connect(c) ==
    /\ at[c] = "connect" /\ at' = [at EXCEPT ![c] = "run"]
    /\ UNCHANGED <<hand, last, walk, expired, target, stage, peerVars>>

\* Every `?' and bail!: connection refused, handshake rejected, peer gone.
Lost(c) ==
    /\ at[c] # "done" /\ at' = [at EXCEPT ![c] = "done"]
    /\ UNCHANGED <<hand, last, walk, expired, target, stage, peerVars>>

Send(c, x) ==
    /\ at[c] = "run" /\ at' = [at EXCEPT ![c] = "await"]
    /\ target' = [target EXCEPT ![c] = x] /\ stage' = [stage EXCEPT ![c] = "asked"]
    /\ UNCHANGED <<hand, last, walk, expired, peerVars>>

\* Mutant of MirrorMoves: a position is sent only if none was sent before.
MirrorMovesOnce ==
    /\ ~expired /\ hand # Unknown /\ last = Unknown /\ Send("mirror", Mapped(hand))

\* One pass of the loop finds the pointer where the peer's is not yet.
MirrorMoves ==
    /\ ~expired /\ hand # Unknown /\ last # Mapped(hand) /\ Send("mirror", Mapped(hand))

\* while Instant::now() < deadline
MirrorStops ==
    /\ at["mirror"] = "run" /\ expired /\ at' = [at EXCEPT !["mirror"] = "done"]
    /\ UNCHANGED <<hand, last, walk, expired, target, stage, peerVars>>

DemoMoves == walk # <<>> /\ Send("demo", Head(walk))

\* ReleaseAllInput at the end: the demo has pressed nothing.
DemoEnds ==
    /\ at["demo"] = "run" /\ walk = <<>> /\ at' = [at EXCEPT !["demo"] = "done"]
    /\ UNCHANGED <<hand, last, walk, expired, target, stage, peerVars>>

\* The reply is read: Injected, or anything else, which ends the client.
Answer(c) ==
    /\ at[c] = "await" /\ stage[c] \in {"ok", "error"}
    /\ stage' = [stage EXCEPT ![c] = "none"]
    /\ at' = [at EXCEPT ![c] = IF stage[c] = "ok" THEN "run" ELSE "done"]
    /\ last' = IF c = "mirror" /\ stage[c] = "ok" THEN target[c] ELSE last
    /\ walk' = IF c = "demo" /\ stage[c] = "ok" THEN Tail(walk) ELSE walk
    /\ target' = [target EXCEPT ![c] = 0]
    /\ UNCHANGED <<hand, expired, peerVars>>

HandMoves ==
    /\ hand' \in Hands \cup {Unknown} /\ hand' # hand
    /\ UNCHANGED <<at, last, walk, expired, target, stage, peerVars>>

TimeOver ==
    /\ ~expired /\ expired' = TRUE
    /\ UNCHANGED <<at, hand, last, walk, target, stage, peerVars>>

-----------------------------------------------------------------------------
(* The peer                                                                *)

\* mouse_move takes the cursor's lock; delta_to makes the target the belief.
Lock(c) ==
    /\ peer = "portal" /\ stage[c] = "asked" /\ \A d \in Clients : stage[d] \notin Locks
    /\ IF belief = Unknown
       THEN stage' = [stage EXCEPT ![c] = "homing"] /\ UNCHANGED <<belief, delta>>
       ELSE /\ stage' = [stage EXCEPT ![c] = "moving"]
            /\ delta' = target[c] - belief /\ belief' = target[c]
    /\ UNCHANGED <<clientVars, target, peer, pointer, drifted>>

\* Mutant of Home: the corner is recorded although the motion failed.
HomeUnchecked(c) ==
    /\ stage[c] = "homing" /\ pointer' \in {pointer, OnScreen(pointer - HomeDelta)}
    /\ stage' = [stage EXCEPT ![c] = "moving"]
    /\ delta' = target[c] /\ belief' = target[c]
    /\ UNCHANGED <<clientVars, target, peer, drifted>>

\* The homing motion, then homed and delta_to from the origin the client sent,
\* which is 0.  A motion that fails may have been carried out.
Home(c) ==
    /\ stage[c] = "homing"
    /\ \/ /\ pointer' = OnScreen(pointer - HomeDelta)
          /\ stage' = [stage EXCEPT ![c] = "moving"]
          /\ delta' = target[c] /\ belief' = target[c]
       \/ /\ pointer' \in {pointer, OnScreen(pointer - HomeDelta)}
          /\ stage' = [stage EXCEPT ![c] = "error"] /\ UNCHANGED <<belief, delta>>
    /\ UNCHANGED <<clientVars, target, peer, drifted>>

\* The motion itself.  The belief was changed before, and a failure or a
\* target beyond the screen leaves it wrong.
Move(c) ==
    /\ stage[c] = "moving" /\ delta' = 0
    /\ \/ /\ pointer' = OnScreen(pointer + delta) /\ stage' = [stage EXCEPT ![c] = "ok"]
          /\ drifted' = (drifted \/ target[c] \notin Screen)
       \/ /\ pointer' \in {pointer, OnScreen(pointer + delta)}
          /\ stage' = [stage EXCEPT ![c] = "error"] /\ drifted' = TRUE
    /\ UNCHANGED <<clientVars, target, peer, belief>>

\* Where Windows puts the pointer (external): on a pixel next to the normalized
\* position.
NextTo(p, normalized) ==
    LET off == p * 65535 - normalized * (PeerWidth - 1) IN -65535 < off /\ off < 65535

Pixels(x) == {p \in Screen : NextTo(p, ToAbsoluteVirtual(x, 0, RemoteWidth))}

\* RealInjector::mouse_move.
Inject(c) ==
    /\ peer = "windows" /\ stage[c] = "asked"
    /\ \/ /\ pointer' \in Pixels(target[c])
          /\ stage' = [stage EXCEPT ![c] = "ok"]
       \/ UNCHANGED pointer /\ stage' = [stage EXCEPT ![c] = "error"]
    /\ UNCHANGED <<clientVars, target, peer, belief, delta, drifted>>

\* Someone at the peer moves its mouse: nothing tells the injector, which has
\* VirtualCursor::invalidate but never calls it.
PeerMoves ==
    /\ ~drifted /\ pointer' \in Screen \ {pointer}
    /\ drifted' = (peer = "windows" \/ belief # Unknown)
    /\ UNCHANGED <<clientVars, target, stage, peer, belief, delta>>

PeerSteps(c) == Lock(c) \/ Home(c) \/ Move(c) \/ Inject(c)

ClientSteps(c) ==
    \/ Connect(c) \/ Answer(c)
    \/ c = "mirror" /\ (MirrorMoves \/ MirrorStops)
    \/ c = "demo" /\ (DemoMoves \/ DemoEnds)

Next ==
    \/ \E c \in Clients : ClientSteps(c) \/ PeerSteps(c) \/ Lost(c)
    \/ HandMoves \/ TimeOver \/ PeerMoves

\* Both machines run and the peer answers; a motion need not work, and the
\* lock is fair.  Nothing is assumed of hands, of time or of the network.
Fairness == \A c \in Clients : SF_vars(Lock(c)) /\ WF_vars(PeerSteps(c)) /\ WF_vars(ClientSteps(c))

Spec == Init /\ [][Next]_vars /\ Fairness

-----------------------------------------------------------------------------
(* Properties                                                              *)

\* Types; what kvm_mirror asks for never lies beyond the peer's screen by more
\* than the one pixel that map_edge_crossing's closed range lets through.
TypeOK ==
    /\ at \in [Clients -> {"connect", "run", "await", "done"}]
    /\ hand \in Hands \cup {Unknown} /\ expired \in BOOLEAN
    /\ last \in 0 .. RemoteWidth \cup {Unknown}
    /\ walk \in Seq(Int) /\ target \in [Clients -> Int] /\ target["mirror"] \in 0 .. RemoteWidth
    /\ stage \in [Clients -> {"none", "asked", "ok", "error"} \cup Locks]
    /\ peer \in {"portal", "windows"} /\ delta \in Int
    /\ belief \in Int \cup {Unknown} /\ pointer \in Screen /\ drifted \in BOOLEAN

\* As long as no motion failed, nobody else moved the pointer and no target
\* lay off the screen, the injector knows where the pointer is, also with two
\* connections at once and after homing failed (pointer.rs:18 "After that,
\* every absolute move is exact").
BeliefIsTruth ==
    ~drifted /\ belief # Unknown =>
        pointer = IF \E c \in Clients : stage[c] = "moving" THEN belief - delta ELSE belief

\* Once the hand rests, the peer's pointer comes to its place, exactly through
\* the portal and to within a pixel on Windows, unless something parted belief
\* and pointer or the demo moved it too: what was sent once is not sent again,
\* so kvm_mirror does not correct what others do.
FollowsHand ==
    \A h \in Hands :
        <>[](/\ hand = h /\ at["mirror"] # "done" /\ ~drifted /\ ~expired
             /\ walk = Corners /\ stage["demo"] = "none")
            => <>[](pointer - Mapped(h) \in IF peer = "portal" THEN {0} ELSE {-1, 0, 1})
=============================================================================
