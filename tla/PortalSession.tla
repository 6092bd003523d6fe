--------------------------- MODULE PortalSession ----------------------------
(***************************************************************************)
(* The portal sessions of a Linux desktop (platform-linux/src/             *)
(* remote_desktop.rs, screen_cast.rs, input_capture.rs) and the programs   *)
(* of the agent that drive them (crates/agent/src/main.rs): a client that  *)
(* runs a script of portal methods over the calls of PortalCall, the       *)
(* portal's session, its zones, and a monitor that may be plugged in.      *)
(*                                                                         *)
(* The program is one of the agent's, "caster", which goes on to Start, or *)
(* "embedder", which calls the methods of the InputCapture client in any   *)
(* order, goes on after errors and drops it at any time.  The process does *)
(* not exit: a client that is dropped leaves its worker threads behind.    *)
(***************************************************************************)
EXTENDS PortalCall, PortalCaps, Sequences

CONSTANTS
    Offers,  \* what desktops may advertise
    Layouts  \* the zones of each zone set, in the order the portal makes them

\* A monitor's share of the desktop, in logical pixels.
Zone == [x : Int, y : Int, width : Nat \ {0}, height : Nat \ {0}]

ASSUME LayoutsAssumption == Layouts \in Seq(Seq(Zone)) /\ Layouts # <<>>

VARIABLES
    offer,    \* what this desktop advertises
    program,  \* the program that runs
    script,   \* the methods it has yet to call, the one under way first
    client,   \* its session object: "none" while opening, "held", "gone"
    zoneSet,  \* client: zone_set
    zones,    \* client: the zone set its zones were read from
    asked,    \* per call, its method, its arguments and the portal's reply
    session,  \* the session at the portal
    current,  \* the portal's zone set
    refused   \* whether a call was refused for want of a capability

sessionVars == <<offer, program, script, client, zoneSet, zones, asked,
                 session, current, refused>>
vars == <<callVars, sessionVars>>

-----------------------------------------------------------------------------
(* Barriers                                                                *)

Right(z) == z.x + z.width - 1
Bottom(z) == z.y + z.height - 1
RightEdge(z) == z.x + z.width

\* Mutant of Barrier: the last pixel column instead of the boundary line.
BarrierInside(z) == [x1 |-> Right(z), y1 |-> z.y, x2 |-> Right(z), y2 |-> Bottom(z)]

\* Zone::barrier on Edge::Right, the edge the agent asks for.
Barrier(z) == [x1 |-> RightEdge(z), y1 |-> z.y, x2 |-> RightEdge(z), y2 |-> Bottom(z)]

\* The compositor's rule (external): a barrier stands just right of the last
\* column of a zone and beside each of its rows.
OnRightBoundary(b, z) ==
    /\ b.x1 = b.x2
    /\ b.x1 - 1 \in z.x .. Right(z) /\ b.x1 \notin z.x .. Right(z)
    /\ b.y1 .. b.y2 = z.y .. Bottom(z)

\* Another monitor begins there (external): an inner edge may be refused.
Inner(b, set) == \E z \in Range(Layouts[set]) :
                    b.x1 = z.x /\ (b.y1 .. b.y2) \cap (z.y .. Bottom(z)) # {}

\* The barriers of a call that the compositor rejects: all of a stale set.
Rejected(call) ==
    LET b(i) == Barrier(Layouts[call.zones][i])
        ids == DOMAIN Layouts[call.zones]
    IN  IF call.set # current THEN {ids}
        ELSE LET bad == {i \in ids : \A z \in Range(Layouts[current]) : ~OnRightBoundary(b(i), z)}
             IN  {bad \cup some : some \in SUBSET {i \in ids : Inner(b(i), current)}}

-----------------------------------------------------------------------------
(* Programs                                                                *)

\* The `open' of the three clients.
OpenRemoteDesktop == <<"CreateSession", "SelectDevices", "Start">>
OpenScreenCast == <<"CreateSession">>
OpenInputCapture == <<"CreateSession", "GetZones">>

\* cast_test probes the desktop before it opens.
ProbeAndOpen == <<"Probe", "CreateSession">>

InjectTest == <<"Notify", "Notify", "Notify", "Notify", "Close">>
CaptureTest == <<"SetPointerBarriers", "Close">>
CastTest == <<"SelectSources", "Close">>
ServePeerDev == <<"Notify", "Close">>
Nothing == <<>>
Caster == <<"SelectSources", "Start", "Close">>
CaptureMethods == {"GetZones", "SetPointerBarriers", "Enable", "Disable", "Close"}

Open == [injectTest |-> OpenRemoteDesktop, servePeerDev |-> OpenRemoteDesktop,
         castTest |-> ProbeAndOpen, caster |-> OpenScreenCast,
         captureTest |-> OpenInputCapture, embedder |-> OpenInputCapture]

Use == [injectTest |-> InjectTest, servePeerDev |-> ServePeerDev,
        castTest |-> CastTest, caster |-> Caster,
        captureTest |-> CaptureTest, embedder |-> Nothing]

RemoteUsers == {"injectTest", "servePeerDev"}
CaptureUsers == {"captureTest", "embedder"}

\* Calls without a Request: NotifyPointerMotion and its kin, Enable, Disable,
\* Session.Close, and the property reads of the probe.
Plain == {"Notify", "Enable", "Disable", "Close", "Probe"}

\* Where a method that succeeds leaves the session at the portal (external).
Leaves == [CreateSession |-> "created", Start |-> "started", Enable |-> "enabled",
           Disable |-> "created", Close |-> "closed"]

Methods == Plain \cup CaptureMethods
             \cup {"CreateSession", "SelectDevices", "Start", "SelectSources"}

Method == Head(script)

Init ==
    /\ CallInit
    /\ offer \in Offers /\ program \in DOMAIN Open /\ script = Open[program]
    /\ client = "none" /\ zoneSet = 0 /\ zones = 0 /\ refused = FALSE
    /\ asked = [t \in Tokens |-> [method |-> "none", set |-> 0, zones |-> 0, reply |-> {}]]
    /\ session = "none" /\ current = 1

\* What the portal takes (external): what it advertises, and nothing else.
Capable(m) ==
    CASE m = "SelectDevices" -> Offered(offer.remoteDesktop, DeviceBits)
      [] m = "SelectSources" -> /\ Offered(offer.screenCast, CastTypeBits)
                                /\ Has(offer.cursor, BestCursor(7))
      [] m = "CreateSession" -> IF program \in CaptureUsers
                                THEN Offered(offer.inputCapture, DeviceBits)
                                ELSE IF program \in RemoteUsers
                                THEN offer.remoteDesktop # Absent
                                ELSE offer.screenCast # Absent
      [] OTHER -> TRUE

-----------------------------------------------------------------------------
(* The client                                                              *)

\* A method that answers through a Request: the arguments are made up now.
Call ==
    /\ client # "gone" /\ script # <<>> /\ Method \notin Plain
    /\ program = "captureTest" /\ Method = "SetPointerBarriers" => Layouts[zones] # <<>>
    /\ Spawn
    /\ asked' = [asked EXCEPT ![token + 1] =
                     [method |-> Method, set |-> zoneSet, zones |-> zones, reply |-> {}]]
    /\ UNCHANGED <<offer, program, script, client, zoneSet, zones, session, current, refused>>

\* capture_test gives up when the compositor offers no zone.
NoZones ==
    /\ program = "captureTest" /\ client = "held" /\ caller = "idle"
    /\ script # <<>> /\ Method = "SetPointerBarriers" /\ Layouts[zones] = <<>>
    /\ client' = "gone" /\ script' = <<>>
    /\ UNCHANGED <<callVars, offer, program, zoneSet, zones, asked, session, current, refused>>

\* The method under way is done: `open' hands out the session object when it
\* was its last, and a program that has it goes on to use it.
Advance ==
    IF client = "none" /\ Len(script) = 1
    THEN client' = "held" /\ script' = Use[program]
    ELSE client' = client /\ script' = Tail(script)

\* `?': what there is of the client is dropped, and nobody calls Close.
\* Only the embedder keeps a session object after a failed method.
Abandon ==
    /\ script' = <<>>
    /\ client' = IF program = "embedder" /\ client = "held" THEN "held" ELSE "gone"

\* Mutant of StoreZones: zone_set is stored before the zones are read.
StoreSetFirst(accepted) ==
    IF Method = "GetZones" /\ mail \in {"success", "hollow"}
    THEN /\ zoneSet' \in asked[token].reply
         /\ zones' = IF accepted THEN zoneSet' ELSE zones
    ELSE UNCHANGED <<zoneSet, zones>>

\* refresh_zones replaces the set and the zones together, and last.
StoreZones(accepted) ==
    IF Method = "GetZones" /\ accepted
    THEN zoneSet' \in asked[token].reply /\ zones' = zoneSet'
    ELSE UNCHANGED <<zoneSet, zones>>

\* The way out of call_and_await, and what the method makes of the results:
\* CreateSession needs the session handle, GetZones the zones.
Finish ==
    /\ \/ WorkerFails(token) \/ ReplyLost \/ Take \/ Deadline
          \/ IssueFails
    /\ LET accepted == /\ result' = "ok"
                       /\ mail = "hollow" => Method \notin {"CreateSession", "GetZones"}
       IN  /\ IF accepted THEN Advance ELSE Abandon
           /\ StoreZones(accepted)
    /\ refused' = (refused \/ (caller = "issue" /\ ~Capable(Method)))
    /\ UNCHANGED <<offer, program, asked, session, current>>

\* A plain method call.  Close, in the end or from PortalInjector's Drop, lets
\* go of the client whether or not it works; a failed Notify does not end
\* serve_peer_dev.
PlainCall ==
    /\ caller = "idle" /\ client # "gone" /\ script # <<>> /\ Method \in Plain
    /\ \/ /\ IF Method = "Close" THEN client' = "gone" /\ script' = <<>> ELSE Advance
          /\ session' = IF Method \in DOMAIN Leaves THEN Leaves[Method] ELSE session
       \/ /\ IF program = "servePeerDev" /\ Method = "Notify" THEN Advance ELSE Abandon
          /\ UNCHANGED session
    /\ UNCHANGED <<callVars, offer, program, zoneSet, zones, asked, current, refused>>

\* The embedder picks its next method, or drops the session object.
Embed ==
    /\ program = "embedder" /\ client = "held" /\ caller = "idle" /\ script = <<>>
    /\ \/ \E m \in CaptureMethods :
             (m \in Plain \/ token < MaxCalls) /\ script' = <<m>> /\ UNCHANGED client
       \/ client' = "gone" /\ UNCHANGED script
    /\ UNCHANGED <<callVars, offer, program, zoneSet, zones, asked, session, current, refused>>

\* The caller's own steps inside call_and_await.
Within ==
    /\ \/ WorkerSubscribes(token) \/ Replied
       \/ Issue /\ Capable(Method)
    /\ UNCHANGED sessionVars

-----------------------------------------------------------------------------
(* The portal and the workers                                              *)

\* The portal (external), with its user, acts on a request and answers it.
Portal(t) ==
    LET m == asked[t].method IN
    /\ \E code \in Responses :
        /\ PortalAnswers(t, code)
        /\ session' = IF /\ code \in {"success", "hollow"} /\ session # "closed"
                         /\ m \in DOMAIN Leaves
                      THEN Leaves[m] ELSE session
        /\ \E reply \in IF m = "GetZones" THEN {{current}}
                         ELSE IF m = "SetPointerBarriers" THEN Rejected(asked[t]) ELSE {{}} :
              /\ m = "SetPointerBarriers" /\ code = "hollow" => reply = {}
              /\ asked' = [asked EXCEPT ![t].reply = reply]
    /\ UNCHANGED <<offer, program, script, client, zoneSet, zones, current, refused>>

\* A monitor is plugged in: the portal has a new zone set (external).
MonitorPlugged ==
    /\ current < Len(Layouts) /\ program \in CaptureUsers /\ current' = current + 1
    /\ UNCHANGED <<callVars, offer, program, script, client, zoneSet, zones, asked, session, refused>>

\* Mutant of Receive: the thread goes on waiting for another signal.
ReceiveForever(t) ==
    /\ worker[t] = "signalled" /\ worker' = [worker EXCEPT ![t] = "listening"]
    /\ Deliver(t, request[t]) /\ UNCHANGED <<caller, token, request, result>>
    /\ UNCHANGED sessionVars

Receive(t) == WorkerReceives(t) /\ UNCHANGED sessionVars

\* The portal ends the session of a connection that has closed (external); it
\* closes with the last clone, the client's or a worker's.
Reap ==
    /\ client = "gone" /\ session \notin {"none", "closed"}
    /\ \A t \in Tokens : worker[t] \in {"none", "done"}
    /\ session' = "closed"
    /\ UNCHANGED <<callVars, offer, program, script, client, zoneSet, zones, asked, current, refused>>

Next ==
    \/ Call \/ NoZones \/ Finish \/ PlainCall \/ Embed \/ Within \/ MonitorPlugged \/ Reap
    \/ \E t \in Tokens : Portal(t) \/ Receive(t) \/ (StreamEnds(t) /\ UNCHANGED sessionVars)

\* Threads run, the bus answers method calls, the timer of the wait fires, and
\* a closed connection is noticed.  Nothing is assumed of the user.
Fairness ==
    /\ WF_vars(Within \/ Finish) /\ WF_vars(Reap)
    /\ \A t \in Tokens : WF_vars(Receive(t))

Spec == Init /\ [][Next]_vars /\ Fairness

-----------------------------------------------------------------------------
(* Properties                                                              *)

\* Types of the client's and the portal's state.
TypeOK ==
    /\ CallTypeOK
    /\ offer \in Offers /\ program \in DOMAIN Open /\ client \in {"none", "held", "gone"}
    /\ script \in Seq(Methods)
    /\ current \in 1 .. Len(Layouts) /\ zoneSet \in 0 .. current /\ zones \in 0 .. current
    /\ session \in {"none", "created", "started", "enabled", "closed"} /\ refused \in BOOLEAN
    /\ \A t \in Tokens : /\ asked[t].method \in Methods \cup {"none"}
                         /\ asked[t].set \in 0 .. current /\ asked[t].zones \in 0 .. current

\* The client never pairs the zones of one set with the number of another,
\* also when a refresh fails halfway (input_capture.rs:210-212 "barriers must
\* be submitted against the set they were computed from").
ZonesOfOneSet == zones = zoneSet /\ \A t \in Tokens : asked[t].zones = asked[t].set

\* A barrier the portal rejects was declared for a set that a monitor has
\* replaced since, or stands between two monitors: the encoding of the barrier
\* is never the reason (input_capture.rs:113-115 "the KVM edge simply never
\* fires").
OnlyStaleSetsFail ==
    \A t \in Tokens :
        asked[t].method = "SetPointerBarriers" =>
            \A i \in asked[t].reply :
                \/ asked[t].set # current
                \/ Inner(Barrier(Layouts[asked[t].zones][i]), current)

\* What the probe says can be done is not refused later for want of a
\* capability; of cursor modes the probe says nothing (portal.rs:3-6 "to
\* decide what the local compositor can actually do").
ProbePromises ==
    refused =>
        CASE program \in RemoteUsers  -> ~Probe(offer).receive
          [] program \in CaptureUsers -> ~Probe(offer).capture
          [] OTHER -> ~Probe(offer).window \/ ~Has(offer.cursor, "metadata")

\* A grant that comes after its caller has given up does not stay: the last
\* worker takes the connection with it, and the portal ends the session
\* (portal_injector.rs:71-73 "one that quietly keeps it").
LateGrantWithdrawn == (session = "started" /\ client = "gone") ~> session = "closed"
=============================================================================
