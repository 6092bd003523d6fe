----------------------------- MODULE Streaming ------------------------------
(***************************************************************************)
(* A window on its way to a proxy: startProjection of renderer/picker.ts,  *)
(* the SignalingBroker of main/signaling.ts, and renderer/proxy.ts, all in *)
(* apps/desktop/src.  There is one picker; each projection has a proxy.    *)
(*                                                                         *)
(* What a renderer sends to main is handled when it is sent; what main     *)
(* sends to a renderer waits, in order, and is lost on a page that has not *)
(* loaded.  ICE candidates are left out: one direction is enough for a     *)
(* connection, and the proxy's always find the picker.                     *)
(***************************************************************************)
EXTENDS Sequences

CONSTANTS
    Projections,  \* projection ids
    None          \* no projection

ASSUME StreamingAssumption == None \notin Projections

VARIABLES
    groups,    \* SignalingBroker::byProjection
    routed,    \* memberToProjection of the picker
    source,    \* per projection, how far startProjection is
    capture,   \* per projection, whether its window is being captured
    stopped,   \* per projection, whether the picker's backend was stopped
    answered,  \* per projection, the proxy whose answer the picker applied
    proxy,     \* per projection, its proxy window
    remote,    \* per proxy, the projection whose offer it accepted
    plays,     \* per proxy, the projection whose frames it has shown
    toPicker, toProxy  \* messages of main under way

pickerVars == <<source, capture, stopped, answered>>
proxyVars == <<proxy, remote, plays>>
streamVars == <<groups, routed, pickerVars, proxyVars, toPicker, toProxy>>

\* A message, with the projection its sender named in it.
Message(kind, p, of) == [kind |-> kind, projectionId |-> p, of |-> of]

Kinds == {"started", "offer", "answer", "close"}

Messages == [kind : Kinds, projectionId : Projections, of : Projections]

SourceGoes(p, from, to) == source[p] = from /\ source' = [source EXCEPT ![p] = to]

\* Whether the picker has subscribed to the signals of a projection.
Subscribed(p) == source[p] \notin {"idle", "asked"}

-----------------------------------------------------------------------------
(* The picker                                                              *)

\* start-projection: both windows are registered, which redirects the picker
\* to the projection it started last.
Start(p) ==
    /\ SourceGoes(p, "idle", "asked")
    /\ groups' = groups \cup {p} /\ routed' = p
    /\ proxy' = [proxy EXCEPT ![p] = "loading"]
    /\ toPicker' = Append(toPicker, Message("started", p, p))
    /\ UNCHANGED <<capture, stopped, answered, remote, plays, toProxy>>

\* getUserMedia resolves or rejects.  addTrack throws on a closed connection,
\* with the stream already in localStream.
Grab(p) ==
    /\ \/ /\ SourceGoes(p, "grabbing", IF stopped[p] THEN "failed" ELSE "offering")
          /\ capture' = [capture EXCEPT ![p] = TRUE]
       \/ SourceGoes(p, "grabbing", "failed") /\ UNCHANGED capture
    /\ UNCHANGED <<groups, routed, stopped, answered, proxyVars, toPicker, toProxy>>

\* createOffer resolves, or rejects on a closed connection; relay sends the
\* offer to the projection the picker is routed to.
Offer(p) ==
    /\ IF stopped[p] THEN SourceGoes(p, "offering", "failed") /\ UNCHANGED toProxy
       ELSE /\ SourceGoes(p, "offering", "offered")
            /\ toProxy' = IF routed = None THEN toProxy
                          ELSE [toProxy EXCEPT ![routed] = Append(@, Message("offer", p, p))]
    /\ UNCHANGED <<groups, routed, capture, stopped, answered, proxyVars, toPicker>>

\* Mutant of Mine: signals are not told apart.
MineOrNot(m, p) == TRUE

\* "if (msg.projectionId !== projectionId) return"
Mine(m, p) == m.projectionId = p

\* The projections whose handlers take a signal.
Takers(m) == {p \in Projections : Subscribed(p) /\ Mine(m, p)}

\* backend.stop: the tracks stop and the connection is closed.
Stop(P) ==
    /\ capture' = [p \in Projections |-> capture[p] /\ p \notin P]
    /\ stopped' = [p \in Projections |-> stopped[p] \/ p \in P]

\* Every handler of the picker gets the message.
PickerReceives ==
    /\ toPicker # <<>> /\ toPicker' = Tail(toPicker)
    /\ LET m == Head(toPicker) IN
       \/ /\ m.kind = "started" /\ SourceGoes(m.projectionId, "asked", "grabbing")
          /\ UNCHANGED <<capture, stopped, answered>>
       \/ /\ m.kind = "answer"
          /\ answered' = [p \in Projections |->
                 IF p \in Takers(m) /\ source[p] = "offered" /\ ~stopped[p] /\ answered[p] = None
                 THEN m.of ELSE answered[p]]
          /\ UNCHANGED <<source, capture, stopped>>
       \/ /\ m.kind = "close" /\ Stop(Takers(m)) /\ UNCHANGED <<source, answered>>
    /\ UNCHANGED <<groups, routed, proxyVars, toProxy>>

-----------------------------------------------------------------------------
(* The proxies                                                             *)

Load(p) ==
    /\ proxy[p] = "loading" /\ proxy' = [proxy EXCEPT ![p] = "loaded"]
    /\ UNCHANGED <<groups, routed, pickerVars, remote, plays, toPicker, toProxy>>

\* An offer is accepted and answered, unless the page has not loaded or the
\* offer is another projection's.
ProxyReceives(p) ==
    /\ toProxy[p] # <<>> /\ toProxy' = [toProxy EXCEPT ![p] = Tail(@)]
    /\ LET m == Head(toProxy[p]) IN
       IF proxy[p] = "loaded" /\ Mine(m, p) /\ remote[p] = None
       THEN /\ remote' = [remote EXCEPT ![p] = m.of]
            /\ toPicker' = IF p \notin groups THEN toPicker
                           ELSE Append(toPicker, Message("answer", p, p))
       ELSE UNCHANGED <<remote, toPicker>>
    /\ UNCHANGED <<groups, routed, pickerVars, proxy, plays>>

\* The first frame of a connection both sides agreed on.
Play(p) ==
    /\ proxy[p] = "loaded" /\ plays[p] = None
    /\ \E q \in Projections : /\ remote[p] = q /\ answered[q] = p /\ capture[q]
                              /\ plays' = [plays EXCEPT ![p] = q]
    /\ UNCHANGED <<groups, routed, pickerVars, proxy, remote, toPicker, toProxy>>

\* Mutant of TellClosed: only a picker that is routed there is told.
TellClosedIfRouted(p) ==
    IF p \in groups /\ routed = p THEN Append(toPicker, Message("close", p, p)) ELSE toPicker

TellClosed(p) ==
    IF p \in groups THEN Append(toPicker, Message("close", p, p)) ELSE toPicker

\* Mutant of RouteAfter: the picker stays a member of what is closed.
RouteKept(p) == routed

\* memberToProjection.delete, whatever projection the picker is routed to by now.
RouteAfter(p) == IF p \in groups THEN None ELSE routed

\* The window's closed event: relayClose.
CloseProxy(p) ==
    /\ proxy[p] \in {"loading", "loaded"} /\ proxy' = [proxy EXCEPT ![p] = "closed"]
    /\ toPicker' = TellClosed(p)
    /\ groups' = groups \ {p} /\ routed' = RouteAfter(p)
    /\ toProxy' = [toProxy EXCEPT ![p] = <<>>]
    /\ UNCHANGED <<pickerVars, remote, plays>>

-----------------------------------------------------------------------------
(* Specification                                                           *)

StreamInit ==
    /\ groups = {} /\ routed = None
    /\ source = [p \in Projections |-> "idle"]
    /\ capture = [p \in Projections |-> FALSE] /\ stopped = [p \in Projections |-> FALSE]
    /\ proxy = [p \in Projections |-> "none"]
    /\ answered = [p \in Projections |-> None] /\ remote = answered /\ plays = answered
    /\ toPicker = <<>> /\ toProxy = [p \in Projections |-> <<>>]

PickerNext == PickerReceives \/ \E p \in Projections : Grab(p) \/ Offer(p)

ProxyNext(p) == Load(p) \/ ProxyReceives(p) \/ Play(p)

-----------------------------------------------------------------------------
(* Properties                                                              *)

\* Types; the broker has a group for every proxy there is, and routes to none
\* that it has not.
StreamTypeOK ==
    /\ groups = {p \in Projections : proxy[p] \in {"loading", "loaded"}}
    /\ routed \in groups \cup {None}
    /\ source \in [Projections -> {"idle", "asked", "grabbing", "offering", "offered", "failed"}]
    /\ capture \in [Projections -> BOOLEAN] /\ stopped \in [Projections -> BOOLEAN]
    /\ proxy \in [Projections -> {"none", "loading", "loaded", "closed"}]
    /\ {answered, remote, plays} \subseteq [Projections -> Projections \cup {None}]
    /\ toPicker \in Seq(Messages) /\ toProxy \in [Projections -> Seq(Messages)]

\* "Close the proxy -> projection stops" (docs/testing.md:48): the capture ends
\* whatever other projections were started or closed meanwhile, unless it was
\* still being asked for; then nothing stops it.
CaptureEnds ==
    \A p \in Projections :
        proxy[p] = "closed" /\ source[p] \in {"offering", "offered"} ~> ~capture[p]
=============================================================================
