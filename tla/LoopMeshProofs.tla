--------------------------- MODULE LoopMeshProofs ---------------------------
(***************************************************************************)
(* What the loop guards guarantee in any mesh, for any number of devices   *)
(* and events, any capacity and any hop limit.                             *)
(***************************************************************************)
EXTENDS LoopMesh, FiniteSetTheorems, TLAPS

(***************************************************************************)
(* Lemmas on the guard                                                     *)
(***************************************************************************)

LEMMA BoundsNat ==
    /\ MaxFaults \in Nat
    /\ MaxInjections \in Nat /\ MaxInjections > 0
    /\ MaxHops \in Nat /\ MaxHops > 0 /\ Capacity \in Nat /\ Capacity > 0
    /\ Peers \in [Devices -> SUBSET Devices] /\ OriginOf \in [Events -> Devices]
  BY MeshAssumption, GuardAssumption DEF MeshAssumption, GuardAssumption

\* remember keeps the memory a memory (input_guard.rs:123-131).
LEMMA RememberType ==
    ASSUME NEW g \in Memory, NEW id \in Events
    PROVE  Remember(g, id) \in Memory
  <1>1. CASE Len(g.order) < Capacity
    BY <1>1 DEF Remember, Memory
  <1>2. CASE ~(Len(g.order) < Capacity)
    <2>1. Len(g.order) \in Nat /\ g.order # <<>>
      BY <1>2, BoundsNat DEF Memory
    <2>2. Tail(g.order) \in Seq(Events)
      BY <2>1 DEF Memory
    <2>3. QED
      BY <1>2, <2>2 DEF Remember, Memory
  <1>3. QED
    BY <1>1, <1>2

\* Remembering a new id keeps the lookup set and the eviction queue in step
\* and within the capacity (input_guard.rs:123-131).
LEMMA RememberBounded ==
    ASSUME NEW g \in Memory, NEW id \in Events, Bounded(g), id \notin g.seen
    PROVE  Bounded(Remember(g, id))
  <1> DEFINE n == Len(g.order)
             r == Remember(g, id)
  <1>0. n \in Nat /\ g.order \in Seq(Events) /\ DOMAIN g.order = 1 .. n
    BY DEF Memory
  <1>1. CASE n < Capacity
    <2>1. r.order = Append(g.order, id) /\ r.seen = g.seen \cup {id}
      BY <1>1 DEF Remember
    <2>2. /\ DOMAIN r.order = 1 .. n + 1 /\ Len(r.order) = n + 1
          /\ r.order[n + 1] = id
          /\ \A i \in 1 .. n : r.order[i] = g.order[i]
      BY <1>0, <2>1
    <2>3. r.seen = {r.order[i] : i \in DOMAIN r.order}
      BY <1>0, <2>1, <2>2 DEF Bounded
    <2>4. \A i, j \in DOMAIN r.order : r.order[i] = r.order[j] => i = j
      BY <1>0, <2>2 DEF Bounded
    <2>5. Len(r.order) <= Capacity
      BY <1>0, <1>1, <2>2, BoundsNat
    <2>6. QED
      BY <2>3, <2>4, <2>5 DEF Bounded
  <1>2. CASE ~(n < Capacity)
    <2>1. n = Capacity /\ n > 0
      BY <1>0, <1>2, BoundsNat DEF Bounded
    <2>2. /\ r.order = Append(Tail(g.order), id)
          /\ r.seen = (g.seen \cup {id}) \ {Head(g.order)}
      BY <1>2 DEF Remember
    <2>3. /\ DOMAIN r.order = 1 .. n /\ Len(r.order) = n
          /\ r.order[n] = id
          /\ \A i \in 1 .. n - 1 : r.order[i] = g.order[i + 1]
      BY <1>0, <2>1, <2>2
    <2>4. Head(g.order) = g.order[1]
      BY <1>0, <2>1
    <2>5. \A i, j \in DOMAIN r.order : r.order[i] = r.order[j] => i = j
      <3> SUFFICES ASSUME NEW i \in 1 .. n, NEW j \in 1 .. n, r.order[i] = r.order[j]
                   PROVE  i = j
        BY <2>3
      <3>1. \A k \in 1 .. n : k # n => /\ r.order[k] = g.order[k + 1]
                                     /\ k + 1 \in DOMAIN g.order
        BY <1>0, <2>1, <2>3
      <3>2. \A k \in 1 .. n : k # n => r.order[k] # id
        BY <3>1 DEF Bounded
      <3>3. CASE i # n /\ j # n
        <4>1. g.order[i + 1] = g.order[j + 1]
          BY <3>1, <3>3
        <4>2. i + 1 = j + 1
          BY <3>1, <3>3, <4>1 DEF Bounded
        <4>3. QED
          BY <1>0, <4>2
      <3>4. QED
        BY <2>3, <3>2, <3>3
    <2>6. r.seen = {r.order[i] : i \in DOMAIN r.order}
      <3>1. ASSUME NEW e \in r.seen PROVE \E i \in 1 .. n : e = r.order[i]
        <4>1. CASE e = id
          BY <1>0, <2>1, <2>3, <4>1
        <4>2. CASE e # id
          <5>1. PICK k \in 1 .. n : e = g.order[k]
            BY <1>0, <2>2, <3>1, <4>2 DEF Bounded
          <5>2. k # 1
            BY <2>2, <2>4, <3>1, <5>1
          <5>3. k - 1 \in 1 .. n - 1 /\ r.order[k - 1] = e
            BY <1>0, <2>3, <5>1, <5>2
          <5>4. QED
            BY <1>0, <5>3
        <4>3. QED
          BY <4>1, <4>2
      <3>2. ASSUME NEW i \in 1 .. n PROVE r.order[i] \in r.seen
        <4>1. CASE i = n
          BY <1>0, <2>1, <2>2, <2>3, <2>4, <4>1 DEF Bounded
        <4>2. CASE i # n
          <5>1. r.order[i] = g.order[i + 1] /\ i + 1 \in 1 .. n /\ i + 1 # 1
            BY <1>0, <2>3, <3>2, <4>2
          <5>2. g.order[i + 1] \in g.seen /\ g.order[i + 1] # g.order[1]
            BY <1>0, <2>1, <5>1 DEF Bounded
          <5>3. QED
            BY <2>2, <2>4, <5>1, <5>2
        <4>3. QED
          BY <4>1, <4>2
      <3>3. QED
        BY <2>3, <3>1, <3>2
    <2>7. QED
      BY <1>0, <2>1, <2>3, <2>5, <2>6 DEF Bounded
  <1>3. QED
    BY <1>1, <1>2

(***************************************************************************)
(* Types                                                                   *)
(***************************************************************************)

LEMMA InitType == Init => TypeOK
  <1> SUFFICES ASSUME Init PROVE TypeOK
    OBVIOUS
  <1>1. run \in [Devices -> Nat] /\ faults \in 0 .. MaxFaults
    BY BoundsNat DEF Init
  <1>2. injected \in [Devices -> [Events -> 0 .. MaxInjections]]
    BY BoundsNat DEF Init
  <1>3. guard \in [Devices -> Memory]
    BY DEF Init, Forgetful, Memory
  <1>4. QED
    BY <1>1, <1>2, <1>3 DEF Init, TypeOK

\* One header on its way from d's hook or from the wire through d's guard.
LEMMA HandleType ==
    ASSUME TypeOK, NEW d \in Devices, NEW h \in Headers,
           NEW rest, rest \subseteq wire, NEW hook, hook \subseteq captured[d],
           Handle(d, h, rest, hook)
    PROVE  /\ wire' \subseteq [from : Devices, to : Devices, header : Headers]
           /\ captured' \in [Devices -> SUBSET Echoes]
           /\ guard' \in [Devices -> Memory]
           /\ injected' \in [Devices -> [Events -> 0 .. MaxInjections]]
  <1> USE DEF TypeOK
  <1>1. guard' \in [Devices -> Memory]
    BY RememberType DEF Handle, Evaluated, Headers
  <1>2. CASE Decision(d, run[d], guard[d], h) = "Accept"
    <2>1. injected' \in [Devices -> [Events -> 0 .. MaxInjections]]
      <3> DEFINE n == injected[d][h.id]
                 more == OneMore(n)
      <3>1. h.id \in Events /\ n \in 0 .. MaxInjections
        BY DEF Headers
      <3>2. more \in 0 .. MaxInjections
        BY <3>1, BoundsNat DEF OneMore
      <3>3. injected' = [injected EXCEPT ![d] = [injected[d] EXCEPT ![h.id] = more]]
        BY <1>2 DEF Handle
      <3>4. [injected[d] EXCEPT ![h.id] = more] \in [Events -> 0 .. MaxInjections]
        BY <3>2
      <3>5. QED
        BY <3>3, <3>4
    <2>2. Echo(Marked(d, run[d], h), run[d]) \in Echoes
      <3>1. Marker(d, run[d]) \in Devices \X Nat
        BY DEF Marker
      <3>2. Marked(d, run[d], h) \in Headers
        BY <3>1 DEF Marked, Headers
      <3>3. QED
        BY <3>2 DEF Echo, Echoes
    <2>3. captured' \in [Devices -> SUBSET Echoes]
      BY <1>2, <2>2 DEF Handle
    <2>4. Stamped(h) \subseteq Headers
      BY BoundsNat DEF Stamped, Headers
    <2>5. Broadcast(d, Stamped(h)) \subseteq [from : Devices, to : Devices, header : Headers]
      BY <2>4, BoundsNat DEF Broadcast, Message
    <2>6. QED
      BY <1>1, <1>2, <2>1, <2>3, <2>5 DEF Handle
  <1>3. CASE Decision(d, run[d], guard[d], h) # "Accept"
    BY <1>1, <1>3 DEF Handle
  <1>4. QED
    BY <1>2, <1>3

LEMMA StepType == TypeOK /\ [Next]_vars => TypeOK'
  <1> SUFFICES ASSUME TypeOK, [Next]_vars PROVE TypeOK'
    OBVIOUS
  <1>1. CASE UNCHANGED vars
    BY <1>1 DEF vars, TypeOK
  <1>2. ASSUME NEW id \in Events, Capture(id) PROVE TypeOK'
    <2>1. Header(id, 0, NoMarker) \in Headers /\ OriginOf[id] \in Devices
      BY BoundsNat DEF Header, Headers
    <2>2. Broadcast(OriginOf[id], {Header(id, 0, NoMarker)})
            \subseteq [from : Devices, to : Devices, header : Headers]
      BY <2>1, BoundsNat DEF Broadcast, Message
    <2>3. QED
      BY <1>2, <2>2 DEF Capture, TypeOK
  <1>3. ASSUME NEW m \in wire, Deliver(m) \/ Redeliver(m) PROVE TypeOK'
    <2>1. m.to \in Devices /\ m.header \in Headers
      BY DEF TypeOK
    <2>2. CASE Deliver(m)
      BY <2>1, <2>2, HandleType DEF Deliver, TypeOK
    <2>3. CASE Redeliver(m)
      <3>1. faults' \in 0 .. MaxFaults
        BY <2>3, BoundsNat DEF Redeliver, TypeOK
      <3>2. QED
        BY <2>1, <2>3, <3>1, HandleType DEF Redeliver, TypeOK
    <2>4. QED
      BY <1>3, <2>2, <2>3
  <1>4. ASSUME NEW d \in Devices, NEW e \in captured[d], Recapture(d, e) PROVE TypeOK'
    <2>1. e.header \in Headers /\ captured[d] \ {e} \subseteq captured[d]
      BY DEF TypeOK, Echoes
    <2>2. Handle(d, e.header, wire, captured[d] \ {e})
          /\ UNCHANGED <<fresh, run, faults>>
      BY <1>4 DEF Recapture
    <2>3. /\ wire' \subseteq [from : Devices, to : Devices, header : Headers]
          /\ captured' \in [Devices -> SUBSET Echoes]
          /\ guard' \in [Devices -> Memory]
          /\ injected' \in [Devices -> [Events -> 0 .. MaxInjections]]
      BY <2>1, <2>2, HandleType
    <2>4. QED
      BY <2>2, <2>3 DEF TypeOK
  <1>5. ASSUME NEW d \in Devices, Restart(d) PROVE TypeOK'
    <2>1. run' \in [Devices -> Nat] /\ faults' \in 0 .. MaxFaults
      BY <1>5, BoundsNat DEF Restart, TypeOK
    <2>a. injected' \in [Devices -> [Events -> 0 .. MaxInjections]]
      BY <1>5, BoundsNat DEF Restart, TypeOK
    <2>2. guard' \in [Devices -> Memory]
      BY <1>5 DEF Restart, TypeOK, Forgetful, Memory
    <2>3. QED
      BY <1>5, <2>1, <2>2, <2>a DEF Restart, TypeOK
  <1>6. QED
    BY <1>1, <1>2, <1>3, <1>4, <1>5 DEF Next, Arrival, Hook

\* Every header under way has a hop count below MAX_HOPS, whatever loops and
\* redeliveries the mesh has (input_guard.rs:104-113).
THEOREM TypeCorrect == Spec => []TypeOK
  BY InitType, StepType, PTL DEF Spec


(***************************************************************************)
(* The guards' memory                                                      *)
(***************************************************************************)

LEMMA EvaluatedBounded ==
    ASSUME NEW g \in Memory, NEW d, NEW r, NEW h \in Headers, Bounded(g)
    PROVE  Bounded(Evaluated(d, r, g, h))
  <1>1. CASE Decision(d, r, g, h) = "Accept"
    <2>1. h.id \notin g.seen /\ h.id \in Events
      BY <1>1 DEF Decision, Headers
    <2>2. QED
      BY <1>1, <2>1, RememberBounded DEF Evaluated
  <1>2. CASE Decision(d, r, g, h) # "Accept"
    BY <1>2 DEF Evaluated
  <1>3. QED
    BY <1>1, <1>2

LEMMA StepMemory == TypeOK /\ MemoryBounded /\ [Next]_vars => MemoryBounded'
  <1> SUFFICES ASSUME TypeOK, MemoryBounded, [Next]_vars, NEW e \in Devices
               PROVE  Bounded(guard'[e])
    BY DEF MemoryBounded
  <1>0. guard[e] \in Memory /\ Bounded(guard[e])
    BY DEF TypeOK, MemoryBounded
  <1>1. CASE guard' = guard
    BY <1>0, <1>1
  <1>2. ASSUME NEW d \in Devices, NEW h \in Headers,
               guard' = [guard EXCEPT ![d] = Evaluated(d, run[d], @, h)]
        PROVE  Bounded(guard'[e])
    BY <1>0, <1>2, EvaluatedBounded DEF TypeOK
  <1>3. ASSUME NEW d \in Devices, Restart(d) PROVE Bounded(guard'[e])
    <2>1. Bounded(Forgetful)
      BY BoundsNat DEF Bounded, Forgetful
    <2>2. QED
      BY <1>0, <1>3, <2>1 DEF Restart, TypeOK
  <1>4. ASSUME NEW m \in wire, Deliver(m) \/ Redeliver(m) PROVE Bounded(guard'[e])
    <2>1. m.to \in Devices /\ m.header \in Headers
      BY DEF TypeOK
    <2>2. QED
      BY <1>2, <1>4, <2>1 DEF Deliver, Redeliver, Handle
  <1>5. ASSUME NEW d \in Devices, NEW x \in captured[d], Recapture(d, x)
        PROVE  Bounded(guard'[e])
    <2>1. x.header \in Headers
      BY DEF TypeOK, Echoes
    <2>2. QED
      BY <1>2, <1>5, <2>1 DEF Recapture, Handle
  <1>6. QED
    BY <1>1, <1>3, <1>4, <1>5 DEF Next, Arrival, Hook, Capture, vars

\* "capacity caps the de-dup memory so a flood of unique ids cannot grow it
\* without limit" (input_guard.rs:62-63), for every capacity and every flood.
THEOREM MemoryCorrect == Spec => []MemoryBounded
  <1>0. Bounded(Forgetful)
    BY BoundsNat DEF Bounded, Forgetful
  <1>1. Init => MemoryBounded
    BY <1>0 DEF Init, MemoryBounded
  <1>2. QED
    BY <1>1, TypeCorrect, StepMemory, PTL DEF Spec

(***************************************************************************)
(* Whose events are injected                                               *)
(***************************************************************************)

LEMMA StepOwn == TypeOK /\ OwnNeverInjected /\ [Next]_vars => OwnNeverInjected'
  <1> SUFFICES ASSUME TypeOK, OwnNeverInjected, [Next]_vars, NEW e \in Events
               PROVE  injected'[OriginOf[e]][e] = 0
    BY DEF OwnNeverInjected
  <1>0. injected[OriginOf[e]][e] = 0 /\ OriginOf[e] \in Devices
    BY BoundsNat DEF OwnNeverInjected
  <1>1. CASE injected' = injected
    BY <1>0, <1>1
  <1>2. ASSUME NEW d \in Devices, NEW h \in Headers, NEW rest, NEW hook,
               Handle(d, h, rest, hook)
        PROVE  injected'[OriginOf[e]][e] = 0
    <2>1. CASE Decision(d, run[d], guard[d], h) = "Accept"
      <3>1. OriginOf[h.id] # d
        BY <2>1 DEF Decision
      <3>2. injected' = [injected EXCEPT ![d] = [injected[d] EXCEPT ![h.id] = OneMore(@)]]
        BY <1>2, <2>1 DEF Handle
      <3>3. d # OriginOf[e] \/ h.id # e
        BY <3>1
      <3>4. QED
        BY <1>0, <3>2, <3>3 DEF TypeOK
    <2>2. CASE Decision(d, run[d], guard[d], h) # "Accept"
      BY <1>0, <1>2, <2>2 DEF Handle
    <2>3. QED
      BY <2>1, <2>2
  <1>3. ASSUME NEW m \in wire, Deliver(m) \/ Redeliver(m)
        PROVE  injected'[OriginOf[e]][e] = 0
    <2>1. m.to \in Devices /\ m.header \in Headers
      BY DEF TypeOK
    <2>2. QED
      BY <1>2, <1>3, <2>1 DEF Deliver, Redeliver
  <1>4. ASSUME NEW d \in Devices, NEW x \in captured[d], Recapture(d, x)
        PROVE  injected'[OriginOf[e]][e] = 0
    <2>1. x.header \in Headers
      BY DEF TypeOK, Echoes
    <2>2. QED
      BY <1>2, <1>4, <2>1 DEF Recapture
  <1>5. ASSUME NEW d \in Devices, Restart(d) PROVE injected'[OriginOf[e]][e] = 0
    BY <1>0, <1>5 DEF Restart, TypeOK
  <1>6. QED
    BY <1>1, <1>3, <1>4, <1>5 DEF Next, Arrival, Hook, Capture, vars

\* No device injects what it captured itself (input_guard.rs:14-15), whatever
\* the mesh, the redeliveries and the restarts.
THEOREM OwnCorrect == Spec => []OwnNeverInjected
  <1>1. Init => OwnNeverInjected
    BY BoundsNat DEF Init, OwnNeverInjected
  <1>2. QED
    BY <1>1, TypeCorrect, StepOwn, PTL DEF Spec


(***************************************************************************)
(* What the hook shows                                                     *)
(***************************************************************************)

\* Every injection that a hook has still to show carries the marker of the run
\* that injected it: the inductive invariant behind HookNeverInjects.
EchoesMarked ==
    \A d \in Devices : \A e \in captured[d] : e.header.by = Marker(d, e.run)

\* A guard's decision adds marked echoes only.
LEMMA HandleMarked ==
    ASSUME TypeOK, EchoesMarked, NEW d \in Devices, NEW h \in Headers, NEW rest,
           NEW hook, hook \subseteq captured[d], Handle(d, h, rest, hook)
    PROVE  EchoesMarked'
  <1> DEFINE new == Echo(Marked(d, run[d], h), run[d])
  <1>1. new.header.by = Marker(d, new.run)
    BY DEF Echo, Marked, Headers
  <1>2. captured' = [captured EXCEPT ![d] = hook \cup {new}]
        \/ captured' = [captured EXCEPT ![d] = hook]
    BY DEF Handle
  <1> HIDE DEF new
  <1>3. ASSUME NEW c \in Devices, NEW e \in captured'[c]
        PROVE  e.header.by = Marker(c, e.run)
    <2>1. CASE e \in captured[c]
      BY <2>1 DEF EchoesMarked
    <2>2. CASE e \notin captured[c]
      <3>1. c = d /\ e = new
        BY <1>2, <1>3, <2>2 DEF TypeOK
      <3>2. QED
        BY <1>1, <3>1
    <2>3. QED
      BY <2>1, <2>2
  <1>4. QED
    BY <1>3 DEF EchoesMarked

LEMMA StepMarked == TypeOK /\ EchoesMarked /\ [Next]_vars => EchoesMarked'
  <1> SUFFICES ASSUME TypeOK, EchoesMarked, [Next]_vars PROVE EchoesMarked'
    OBVIOUS
  <1>1. CASE captured' = captured
    BY <1>1 DEF EchoesMarked
  <1>2. ASSUME NEW m \in wire, Deliver(m) \/ Redeliver(m) PROVE EchoesMarked'
    <2>1. m.to \in Devices /\ m.header \in Headers
      BY DEF TypeOK
    <2>2. QED
      BY <1>2, <2>1, HandleMarked DEF Deliver, Redeliver
  <1>3. ASSUME NEW d \in Devices, NEW e \in captured[d], Recapture(d, e)
        PROVE  EchoesMarked'
    <2>1. e.header \in Headers /\ captured[d] \ {e} \subseteq captured[d]
      BY DEF TypeOK, Echoes
    <2>2. QED
      BY <1>3, <2>1, HandleMarked DEF Recapture
  <1>4. QED
    BY <1>1, <1>2, <1>3 DEF Next, Arrival, Hook, Capture, Restart, vars

\* Through any eviction, redelivery, restart or delay, what the hook shows of
\* an injection of the present run carries the present marker and is dropped
\* (input_guard.rs:11-13, 86-88, 116-121).
THEOREM HookCorrect == Spec => HookNeverInjects
  <1> DEFINE Quiet == \A d \in Devices :
                        \A e \in captured[d] :
                            e.run = run[d] /\ Recapture(d, e) => injected' = injected
  <1>1. EchoesMarked /\ [Next]_vars => [Quiet]_vars
    <2> SUFFICES ASSUME EchoesMarked, NEW d \in Devices, NEW e \in captured[d],
                        e.run = run[d], Recapture(d, e)
                 PROVE  injected' = injected
      OBVIOUS
    <2>1. e.header.by = Marker(d, run[d])
      BY DEF EchoesMarked
    <2>2. Decision(d, run[d], guard[d], e.header) = "OwnInjection"
      BY <2>1 DEF Decision
    <2>3. QED
      BY <2>2 DEF Recapture, Handle
  <1>2. Init => EchoesMarked
    BY DEF Init, EchoesMarked
  <1> HIDE DEF Quiet
  <1>3. Spec => [][Quiet]_vars
    BY <1>1, <1>2, TypeCorrect, StepMarked, PTL DEF Spec
  <1>4. QED
    BY <1>3 DEF HookNeverInjects, Quiet

(***************************************************************************)
(* Each event once                                                         *)
(***************************************************************************)

\* A guard remembers as many ids as its eviction queue is long.
LEMMA SizeOfMemory ==
    ASSUME NEW g \in Memory, Bounded(g)
    PROVE  IsFiniteSet(g.seen) /\ Cardinality(g.seen) = Len(g.order)
  <1> DEFINE n == Len(g.order)
             f == [i \in 1 .. n |-> g.order[i]]
  <1>1. n \in Nat /\ DOMAIN g.order = 1 .. n
    BY DEF Memory
  <1>2. f \in Bijection(1 .. n, g.seen)
    BY <1>1 DEF Bounded, Bijection, Injection, Surjection, IsInjective
  <1>3. IsFiniteSet(1 .. n) /\ Cardinality(1 .. n) = n
    <2>1. 1 \in Int /\ n \in Int
      BY <1>1
    <2>2. IsFiniteSet(1 .. n)
      BY <2>1, FS_Interval
    <2>3. Cardinality(1 .. n) = IF 1 > n THEN 0 ELSE n - 1 + 1
      BY <2>1, FS_Interval
    <2>4. QED
      BY <1>1, <2>2, <2>3
  <1>4. ExistsBijection(1 .. n, g.seen)
    BY <1>2 DEF ExistsBijection
  <1>5. QED
    BY <1>3, <1>4, FS_Bijection

\* As long as a run injected no more events than the memory holds, the guard
\* remembers just these, and each was injected once: the inductive invariant
\* behind AtMostOnce.
HitsRemembered ==
    \A d \in Devices :
        /\ IsFiniteSet(Hits(d))
        /\ Cardinality(Hits(d)) <= Capacity
             => /\ guard[d].seen = Hits(d)
                /\ \A id \in Events : injected[d][id] <= 1

LEMMA HandleOnce ==
    ASSUME TypeOK, MemoryBounded, HitsRemembered,
           NEW d \in Devices, NEW h \in Headers, NEW rest, NEW hook,
           Handle(d, h, rest, hook)
    PROVE  HitsRemembered'
  <1> SUFFICES ASSUME NEW e \in Devices
               PROVE  /\ IsFiniteSet(Hits(e)')
                      /\ Cardinality(Hits(e)') <= Capacity
                           => /\ guard'[e].seen = Hits(e)'
                              /\ \A id \in Events : injected'[e][id] <= 1
    BY DEF HitsRemembered
  <1>0. /\ IsFiniteSet(Hits(e))
        /\ Cardinality(Hits(e)) <= Capacity
             => /\ guard[e].seen = Hits(e)
                /\ \A id \in Events : injected[e][id] <= 1
    BY DEF HitsRemembered
  <1>1. CASE Decision(d, run[d], guard[d], h) # "Accept" \/ e # d
    <2>1. injected'[e] = injected[e] /\ guard'[e] = guard[e]
      BY <1>1 DEF Handle, Evaluated, TypeOK
    <2>2. Hits(e)' = Hits(e)
      BY <2>1 DEF Hits
    <2>3. QED
      BY <1>0, <2>1, <2>2
  <1>2. CASE Decision(d, run[d], guard[d], h) = "Accept" /\ e = d
    <2>1. h.id \in Events /\ h.id \notin guard[d].seen
      BY <1>2 DEF Decision, Headers
    <2>2. injected' = [injected EXCEPT ![d] = [injected[d] EXCEPT ![h.id] = OneMore(@)]]
      BY <1>2 DEF Handle
    <2>3. /\ injected'[d][h.id] = OneMore(injected[d][h.id])
          /\ \A id \in Events \ {h.id} : injected'[d][id] = injected[d][id]
          /\ \A id \in Events : injected[d][id] \in Nat
      BY <2>1, <2>2, BoundsNat DEF TypeOK
    <2>4. Hits(d)' = Hits(d) \cup {h.id}
      BY <2>1, <2>3, BoundsNat DEF Hits, OneMore
    <2>5. /\ IsFiniteSet(Hits(d)')
          /\ Cardinality(Hits(d)') = IF h.id \in Hits(d) THEN Cardinality(Hits(d))
                                     ELSE Cardinality(Hits(d)) + 1
      BY <1>0, <1>2, <2>4, FS_AddElement
    <2>6. ASSUME Cardinality(Hits(d)') <= Capacity
          PROVE  /\ guard'[d].seen = Hits(d)'
                 /\ \A id \in Events : injected'[d][id] <= 1
      <3>1. Cardinality(Hits(d)) \in Nat
        BY <1>0, <1>2, FS_CardinalityType
      <3>2. Cardinality(Hits(d)) <= Capacity
        BY <2>5, <2>6, <3>1, BoundsNat
      <3>3. /\ guard[d].seen = Hits(d)
            /\ \A id \in Events : injected[d][id] <= 1
        BY <1>0, <1>2, <3>2
      <3>4. h.id \notin Hits(d) /\ injected[d][h.id] = 0
        BY <2>1, <2>3, <3>3 DEF Hits
      <3>5. Cardinality(Hits(d)) < Capacity
        BY <2>5, <2>6, <3>1, <3>4, BoundsNat
      <3>6. Len(guard[d].order) < Capacity
        BY <3>3, <3>5, SizeOfMemory DEF TypeOK, MemoryBounded
      <3>7. guard'[d] = Remember(guard[d], h.id)
        BY <1>2 DEF Handle, Evaluated, TypeOK
      <3>8. guard'[d].seen = Hits(d)'
        BY <2>4, <3>3, <3>6, <3>7 DEF Remember
      <3>9. injected'[d][h.id] = 1
        BY <2>3, <3>4, BoundsNat DEF OneMore
      <3>10. QED
        BY <2>3, <3>3, <3>8, <3>9
    <2>7. QED
      BY <1>2, <2>5, <2>6
  <1>3. QED
    BY <1>1, <1>2

LEMMA StepOnce ==
    TypeOK /\ MemoryBounded /\ HitsRemembered /\ [Next]_vars => HitsRemembered'
  <1> SUFFICES ASSUME TypeOK, MemoryBounded, HitsRemembered, [Next]_vars
               PROVE  HitsRemembered'
    OBVIOUS
  <1>1. CASE UNCHANGED <<guard, injected>>
    BY <1>1 DEF HitsRemembered, Hits
  <1>2. ASSUME NEW m \in wire, Deliver(m) \/ Redeliver(m) PROVE HitsRemembered'
    <2>1. m.to \in Devices /\ m.header \in Headers
      BY DEF TypeOK
    <2>2. QED
      BY <1>2, <2>1, HandleOnce DEF Deliver, Redeliver
  <1>3. ASSUME NEW d \in Devices, NEW e \in captured[d], Recapture(d, e)
        PROVE  HitsRemembered'
    <2>1. e.header \in Headers
      BY DEF TypeOK, Echoes
    <2>2. QED
      BY <1>3, <2>1, HandleOnce DEF Recapture
  <1>4. ASSUME NEW d \in Devices, Restart(d), NEW e \in Devices
        PROVE  /\ IsFiniteSet(Hits(e)')
               /\ Cardinality(Hits(e)') <= Capacity
                    => /\ guard'[e].seen = Hits(e)'
                       /\ \A id \in Events : injected'[e][id] <= 1
    <2>1. CASE e = d
      <3>1. /\ \A id \in Events : injected'[e][id] = 0
            /\ guard'[e].seen = {}
        BY <1>4, <2>1 DEF Restart, Forgetful, TypeOK
      <3>2. Hits(e)' = {}
        BY <3>1 DEF Hits
      <3>3. QED
        BY <3>1, <3>2, FS_EmptySet
    <2>2. CASE e # d
      <3>1. injected'[e] = injected[e] /\ guard'[e] = guard[e]
        BY <1>4, <2>2 DEF Restart, TypeOK
      <3>2. Hits(e)' = Hits(e)
        BY <3>1 DEF Hits
      <3>3. QED
        BY <3>1, <3>2 DEF HitsRemembered
    <2>3. QED
      BY <2>1, <2>2
  <1>5. QED
    BY <1>1, <1>2, <1>3, <1>4 DEF Next, Arrival, Hook, Capture, vars, HitsRemembered

\* "Drops replays and accidental re-delivery" (input_guard.rs:18-19): as long as
\* a run of an agent injected no more events than its memory holds, no path,
\* duplicate or order of arrival makes it inject one of them twice.
THEOREM OnceCorrect == Spec => []AtMostOnce
  <1>1. Init => HitsRemembered
    <2> SUFFICES ASSUME Init, NEW d \in Devices
                 PROVE  /\ IsFiniteSet(Hits(d)) /\ guard[d].seen = Hits(d)
                        /\ \A id \in Events : injected[d][id] <= 1
      BY DEF HitsRemembered
    <2>1. Hits(d) = {} /\ \A id \in Events : injected[d][id] <= 1
      BY DEF Init, Hits
    <2>2. QED
      BY <2>1, FS_EmptySet DEF Init, Forgetful
  <1>2. HitsRemembered => AtMostOnce
    BY DEF HitsRemembered, AtMostOnce
  <1>3. QED
    BY <1>1, <1>2, TypeCorrect, MemoryCorrect, StepOnce, PTL DEF Spec

=============================================================================
