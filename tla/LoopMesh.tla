------------------------------ MODULE LoopMesh ------------------------------
(***************************************************************************)
(* Devices that share input, each behind its LoopGuard.  The guard has no  *)
(* caller in the repository yet; this is the setting its documentation     *)
(* gives (core/src/input_guard.rs:3-5): an event is captured where it      *)
(* originates and sent to the peers; a device that accepts it marks it     *)
(* right before it injects it and forwards it, stamped, to its own peers;  *)
(* and its hook captures what it injected and shows it to the guard again. *)
(***************************************************************************)
EXTENDS LoopGuard, FiniteSets

CONSTANTS
    Peers,         \* the devices each device forwards to
    Restarting,    \* the devices whose agent may restart
    MaxFaults,     \* bound: redeliveries by the network and restarts, together
    MaxInjections  \* bound: how far injections of an event at a device are counted

ASSUME MeshAssumption ==
    /\ Peers \in [Devices -> SUBSET Devices]
    /\ Restarting \subseteq Devices
    /\ MaxFaults \in Nat
    /\ MaxInjections \in Nat \ {0}

VARIABLES
    fresh,      \* events not captured yet
    wire,       \* messages under way
    captured,   \* per device: injections its hook has not shown yet
    guard,      \* per device: what the guard remembers
    run,        \* per device: the run of its agent
    faults,     \* redeliveries and restarts left
    injected    \* history: how often a device injected an event in this run

vars == <<fresh, wire, captured, guard, run, faults, injected>>

Message(from, to, h) == [from |-> from, to |-> to, header |-> h]

\* What the hook will see of an injection; `run' is history, the guard is shown
\* the header alone.
Echo(h, r) == [header |-> h, run |-> r]

Broadcast(d, hs) == {Message(d, p, h) : p \in Peers[d], h \in hs}

-----------------------------------------------------------------------------
\* A real event at its origin.
Capture(id) ==
    /\ id \in fresh
    /\ fresh' = fresh \ {id}
    /\ wire' = wire \cup Broadcast(OriginOf[id], {Header(id, 0, NoMarker)})
    /\ UNCHANGED <<captured, guard, run, faults, injected>>

\* Injections are counted up to the bound.
OneMore(n) == IF n < MaxInjections THEN n + 1 ELSE n

\* The guard is asked; what it accepts is marked, injected and forwarded.
Handle(d, h, rest, pendingHook) ==
    /\ guard' = [guard EXCEPT ![d] = Evaluated(d, run[d], @, h)]
    /\ IF Decision(d, run[d], guard[d], h) = "Accept"
       THEN /\ injected' = [injected EXCEPT ![d][h.id] = OneMore(@)]
            /\ captured' = [captured EXCEPT ![d] = pendingHook
                                \cup {Echo(Marked(d, run[d], h), run[d])}]
            /\ wire' = rest \cup Broadcast(d, Stamped(h))
       ELSE /\ captured' = [captured EXCEPT ![d] = pendingHook]
            /\ wire' = rest
            /\ UNCHANGED injected

\* A message arrives, in any order.
Deliver(m) ==
    /\ m \in wire
    /\ Handle(m.to, m.header, wire \ {m}, captured[m.to])
    /\ UNCHANGED <<fresh, run, faults>>

\* A message arrives and will arrive again.
Redeliver(m) ==
    /\ m \in wire /\ faults > 0
    /\ faults' = faults - 1
    /\ Handle(m.to, m.header, wire, captured[m.to])
    /\ UNCHANGED <<fresh, run>>

\* The hook shows an injected event to the guard, maybe of a later run.
Recapture(d, e) ==
    /\ e \in captured[d]
    /\ Handle(d, e.header, wire, captured[d] \ {e})
    /\ UNCHANGED <<fresh, run, faults>>

\* The agent comes up again with a new marker and an empty memory.
Restart(d) ==
    /\ d \in Restarting /\ faults > 0 /\ faults' = faults - 1
    /\ run' = [run EXCEPT ![d] = @ + 1]
    /\ guard' = [guard EXCEPT ![d] = Forgetful]
    /\ injected' = [injected EXCEPT ![d] = [id \in Events |-> 0]]
    /\ UNCHANGED <<fresh, wire, captured>>

Init ==
    /\ fresh = Events
    /\ wire = {}
    /\ captured = [d \in Devices |-> {}]
    /\ guard = [d \in Devices |-> Forgetful]
    /\ run = [d \in Devices |-> 1]
    /\ faults = MaxFaults
    /\ injected = [d \in Devices |-> [id \in Events |-> 0]]

Arrival == \E m \in wire : Deliver(m)

Hook == \E d \in Devices : \E e \in captured[d] : Recapture(d, e)

Next ==
    \/ \E id \in Events : Capture(id)
    \/ Arrival \/ Hook
    \/ \E m \in wire : Redeliver(m)
    \/ \E d \in Devices : Restart(d)

Spec == Init /\ [][Next]_vars

\* The network and the hooks eventually deliver.
FairSpec == Spec /\ WF_vars(Arrival) /\ WF_vars(Hook)

-----------------------------------------------------------------------------
(* Properties                                                              *)

Headers == [id : Events, hop : 0 .. MaxHops - 1,
            by : {NoMarker} \cup (Devices \X Nat)]

Echoes == [header : Headers, run : Nat]

Memory == [seen : SUBSET Events, order : Seq(Events)]

TypeOK ==
    /\ fresh \subseteq Events
    /\ wire \subseteq [from : Devices, to : Devices, header : Headers]
    /\ captured \in [Devices -> SUBSET Echoes]
    /\ guard \in [Devices -> Memory]
    /\ run \in [Devices -> Nat]
    /\ faults \in 0 .. MaxFaults
    /\ injected \in [Devices -> [Events -> 0 .. MaxInjections]]

\* "capacity caps the de-dup memory so a flood of unique ids cannot grow it
\* without limit" (input_guard.rs:62-63): the lookup set and the eviction
\* queue hold the same ids, each once, and no more than the capacity.
Bounded(g) ==
    /\ Len(g.order) <= Capacity
    /\ g.seen = {g.order[i] : i \in DOMAIN g.order}
    /\ \A i, j \in DOMAIN g.order : g.order[i] = g.order[j] => i = j

MemoryBounded == \A d \in Devices : Bounded(guard[d])

\* "an event whose origin_device_id is us has come back around; drop it"
\* (input_guard.rs:14-15): no path through the mesh, restart or redelivery
\* makes a device inject what it captured itself.
OwnNeverInjected == \A id \in Events : injected[OriginOf[id]][id] = 0

\* "drops replays and accidental re-delivery" (input_guard.rs:18-19): in a run
\* in which a device injects no more events than the memory holds, it injects
\* each at most once, over whatever paths and however often copies of it come.
Hits(d) == {id \in Events : injected[d][id] > 0}

AtMostOnce ==
    \A d \in Devices :
        Cardinality(Hits(d)) <= Capacity => \A id \in Events : injected[d][id] <= 1

\* "If our own low-level hook re-captures a tagged event, we drop it"
\* (input_guard.rs:11-13): what a device injected in the present run of its
\* agent is not injected again when its hook shows it, however late and though
\* the id may have been evicted.  Whether the header still says whose injection
\* it was is the code's part of it, from mark_injected to the check.  A copy
\* that comes back over the wire carries no marker, and an echo that outlives
\* the run that injected it carries a stale one: both may be injected again.
HookNeverInjects ==
    [][\A d \in Devices :
        \A e \in captured[d] :
            e.run = run[d] /\ Recapture(d, e) => injected' = injected]_vars

\* "kills ring loops even if identity/marker checks are somehow defeated"
\* (input_guard.rs:16-17): with ids evicted while they circulate, redelivery
\* and restarts, a finite number of captures is followed by silence.
FallsSilent == <>[](wire = {} /\ \A d \in Devices : captured[d] = {})
=============================================================================
