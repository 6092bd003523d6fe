----------------------------- MODULE LoopGuard ------------------------------
(***************************************************************************)
(* The layered guard against input loops: LoopGuard in                     *)
(* crates/core/src/input_guard.rs, one device's decisions about one event  *)
(* header and the memory they leave.                                       *)
(***************************************************************************)
EXTENDS Naturals, Sequences

CONSTANTS
    Devices,     \* DeviceId
    Events,      \* EventId
    OriginOf,    \* origin_device_id of an event
    MaxHops,     \* MAX_HOPS in core/src/protocol.rs
    Capacity     \* LoopGuard::capacity

ASSUME GuardAssumption ==
    /\ OriginOf \in [Events -> Devices]
    /\ MaxHops \in Nat \ {0}
    /\ Capacity \in Nat \ {0}

\* A marker is a device's nonce for one run of its agent.
Marker(d, run) == <<d, run>>

NoMarker == <<>>

\* InputHeader: origin_device_id is OriginOf of the id.
Header(id, hop, by) == [id |-> id, hop |-> hop, by |-> by]

\* What a guard remembers: `order` oldest first, `seen` for lookup.
Forgetful == [seen |-> {}, order |-> <<>>]

-----------------------------------------------------------------------------
\* Mutant of Remember: what leaves order stays in seen.
RememberForever(g, id) ==
    [seen  |-> g.seen \cup {id},
     order |-> IF Len(g.order) < Capacity
               THEN Append(g.order, id)
               ELSE Tail(Append(g.order, id))]

\* Mutant of Remember: one id too few is kept.
RememberOneLess(g, id) ==
    IF Len(g.order) + 1 < Capacity
    THEN [seen |-> g.seen \cup {id}, order |-> Append(g.order, id)]
    ELSE [seen  |-> (g.seen \cup {id}) \ {Head(Append(g.order, id))},
          order |-> Tail(Append(g.order, id))]

\* The oldest id makes room for the newest.  One push is followed by at most
\* one pop, since order never exceeds the capacity in between.
Remember(g, id) ==
    IF Len(g.order) < Capacity
    THEN [seen |-> g.seen \cup {id}, order |-> Append(g.order, id)]
    ELSE [seen  |-> (g.seen \cup {id}) \ {Head(g.order)},
          order |-> Append(Tail(g.order), id)]

\* Mutant of Decision: the origin is not looked at.
DecisionWithoutOrigin(d, run, g, h) ==
    IF h.by = Marker(d, run)     THEN "OwnInjection"
    ELSE IF h.hop >= MaxHops     THEN "HopLimit"
    ELSE IF h.id \in g.seen      THEN "Duplicate"
    ELSE "Accept"

\* evaluate's answer: the four checks, in their order.
Decision(d, run, g, h) ==
    IF h.by = Marker(d, run)     THEN "OwnInjection"
    ELSE IF OriginOf[h.id] = d   THEN "OwnOrigin"
    ELSE IF h.hop >= MaxHops     THEN "HopLimit"
    ELSE IF h.id \in g.seen      THEN "Duplicate"
    ELSE "Accept"

\* evaluate's effect: only what is accepted is remembered.
Evaluated(d, run, g, h) ==
    IF Decision(d, run, g, h) = "Accept" THEN Remember(g, h.id) ELSE g

\* Mutant of Stamped: the hop count is carried over.
StampedUnchanged(h) == IF h.hop + 1 >= MaxHops THEN {} ELSE {h}

\* Mutant of Stamped: the limit itself is let through.
StampedPastLimit(h) == IF h.hop >= MaxHops THEN {} ELSE {[h EXCEPT !.hop = @ + 1]}

\* stamp_for_forward: at most one header, one hop further.
Stamped(h) == IF h.hop + 1 >= MaxHops THEN {} ELSE {[h EXCEPT !.hop = @ + 1]}

\* Mutant of Marked: the header is injected as it came.
MarkedUnchanged(d, run, h) == h

\* mark_injected.
Marked(d, run, h) == [h EXCEPT !.by = Marker(d, run)]

=============================================================================
