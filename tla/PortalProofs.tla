---------------------------- MODULE PortalProofs ----------------------------
(***************************************************************************)
(* Proofs about PortalCall and PortalSession, for any number of calls, any *)
(* desktop and any zone sets.                                              *)
(***************************************************************************)
EXTENDS PortalSession, SequenceTheorems, TLAPS

(***************************************************************************)
(* A call and its response                                                 *)
(***************************************************************************)

\* What one step of PortalSession does to the variables of PortalCall.
CallStep ==
    \/ Spawn \/ WorkerSubscribes(token) \/ WorkerFails(token) \/ Issue \/ IssueFails
    \/ Replied \/ ReplyLost \/ Take \/ Deadline
    \/ \E t \in Tokens : \/ \E code \in Responses : PortalAnswers(t, code)
                         \/ WorkerReceives(t) \/ StreamEnds(t)

LEMMA StepIsCallStep == [Next]_vars => CallStep \/ UNCHANGED callVars
  <1> SUFFICES ASSUME [Next]_vars PROVE CallStep \/ UNCHANGED callVars
    OBVIOUS
  <1>1. CASE Call
    BY <1>1 DEF Call, CallStep
  <1>2. CASE Finish
    BY <1>2 DEF Finish, CallStep
  <1>3. CASE Within
    BY <1>3 DEF Within, CallStep
  <1>4. CASE NoZones \/ PlainCall \/ Embed \/ MonitorPlugged \/ Reap
    BY <1>4 DEF NoZones, PlainCall, Embed, MonitorPlugged, Reap
  <1>5. ASSUME NEW t \in Tokens, Portal(t) PROVE CallStep
    BY <1>5 DEF Portal, CallStep
  <1>6. ASSUME NEW t \in Tokens, Receive(t) \/ (StreamEnds(t) /\ UNCHANGED sessionVars)
        PROVE  CallStep
    BY <1>6 DEF Receive, CallStep
  <1>7. QED
    BY <1>1, <1>2, <1>3, <1>4, <1>5, <1>6 DEF Next, vars

\* The types and, for the two properties, what each stage of a call knows: the
\* request of the call under way is answered only after its worker listens, a
\* worker with a signal has a response to deliver, and what is in the channel
\* is the response to this very call.
CallInv ==
    /\ CallTypeOK
    /\ caller # "idle" => token \in Tokens /\ result = "none"
    /\ mail # "empty" => caller # "idle"
    /\ mail \in Responses => request[token] = mail
    /\ caller = "subscribe" => worker[token] = "starting" /\ mail = "empty"
    /\ caller \in {"subscribe", "issue"} => request[token] = "none"
    /\ caller \in {"issue", "reply", "await"} =>
           worker[token] \in {"listening", "signalled"} \/ mail # "empty"
    /\ caller # "idle" /\ worker[token] = "listening" => request[token] \notin Responses
    /\ \A t \in Tokens : worker[t] = "signalled" => request[t] \in Responses
    /\ \A t \in Tokens : t > token => worker[t] = "none" /\ request[t] = "none"
    /\ OutcomeHonest

LEMMA CallInvInit == CallInit => CallInv
  BY CallsAssumption DEF CallInit, CallInv, CallTypeOK, Tokens, OutcomeHonest, Responses

LEMMA CallInvStep == CallInv /\ (CallStep \/ UNCHANGED callVars) => CallInv'
  <1> SUFFICES ASSUME CallInv, CallStep \/ UNCHANGED callVars PROVE CallInv'
    OBVIOUS
  <1> USE CallsAssumption DEF CallInv, CallTypeOK, Tokens, Responses, OutcomeHonest
  <1>1. CASE UNCHANGED callVars
    BY <1>1 DEF callVars
  <1>2. CASE Spawn
    BY <1>2 DEF Spawn
  <1>3. CASE WorkerSubscribes(token)
    BY <1>3 DEF WorkerSubscribes
  <1>4. CASE WorkerFails(token)
    BY <1>4 DEF WorkerFails, Returns
  <1>5. CASE Issue
    BY <1>5 DEF Issue
  <1>6. CASE IssueFails \/ ReplyLost \/ Deadline
    BY <1>6 DEF IssueFails, ReplyLost, Deadline, Returns
  <1>7. CASE Replied
    BY <1>7 DEF Replied
  <1>8. CASE Take
    BY <1>8 DEF Take, Returns, ResponseCode
  <1>9. ASSUME NEW t \in Tokens, NEW code \in Responses, PortalAnswers(t, code) PROVE CallInv'
    BY <1>9 DEF PortalAnswers
  <1>10. ASSUME NEW t \in Tokens, WorkerReceives(t) PROVE CallInv'
    BY <1>10 DEF WorkerReceives, Deliver
  <1>11. ASSUME NEW t \in Tokens, StreamEnds(t) PROVE CallInv'
    BY <1>11 DEF StreamEnds, Deliver
  <1>12. QED
    BY <1>1, <1>2, <1>3, <1>4, <1>5, <1>6, <1>7, <1>8, <1>9, <1>10, <1>11 DEF CallStep

\* CallInv of every behaviour: what the steps of the session add to those of the
\* calls leaves it alone (StepIsCallStep).
THEOREM CallInvariant == Spec => []CallInv
  <1>1. Init => CallInv
    BY CallInvInit DEF Init
  <1>2. CallInv /\ [Next]_vars => CallInv'
    BY CallInvStep, StepIsCallStep
  <1>3. QED
    BY <1>1, <1>2, PTL DEF Spec

\* A Response that comes early, even before the method call returns, is heard.
THEOREM ResponseCorrect == Spec => []ResponseHeard
  <1>1. CallInv => ResponseHeard
    BY DEF CallInv, CallTypeOK, ResponseHeard, Answered, Responses, Tokens
  <1>2. QED
    BY <1>1, CallInvariant, PTL

\* What a call returns is the verdict on its own request.
THEOREM OutcomeCorrect == Spec => []OutcomeHonest
  <1>1. CallInv => OutcomeHonest
    BY DEF CallInv
  <1>2. QED
    BY <1>1, CallInvariant, PTL

(***************************************************************************)
(* The session                                                             *)
(***************************************************************************)

\* A call under way is the head of the script, and what the portal replied to
\* a GetZones are sets it has had.
Asking ==
    /\ asked = [t \in Tokens |-> [method |-> asked[t].method, set |-> asked[t].set,
                                  zones |-> asked[t].zones, reply |-> asked[t].reply]]
    /\ caller # "idle" => script # <<>> /\ asked[token].method = Head(script)
    /\ \A t \in Tokens : asked[t].method = "GetZones" => asked[t].reply \subseteq 0 .. current

SessionInv == TypeOK /\ Asking /\ ZonesOfOneSet

LEMMA Scripts ==
    /\ DOMAIN Use = DOMAIN Open
    /\ \A p \in DOMAIN Open : Open[p] \in Seq(Methods) /\ Open[p] # <<>> /\ Use[p] \in Seq(Methods)
  <1> USE DEF Methods, Plain, CaptureMethods
  <1>1. /\ OpenRemoteDesktop \in Seq(Methods) /\ OpenRemoteDesktop # <<>>
        /\ OpenScreenCast \in Seq(Methods) /\ OpenScreenCast # <<>>
        /\ OpenInputCapture \in Seq(Methods) /\ OpenInputCapture # <<>>
        /\ ProbeAndOpen \in Seq(Methods) /\ ProbeAndOpen # <<>>
    BY DEF OpenRemoteDesktop, OpenScreenCast, OpenInputCapture, ProbeAndOpen
  <1>2. /\ InjectTest \in Seq(Methods) /\ CaptureTest \in Seq(Methods)
        /\ CastTest \in Seq(Methods) /\ ServePeerDev \in Seq(Methods)
        /\ Caster \in Seq(Methods) /\ Nothing \in Seq(Methods)
    BY DEF InjectTest, CaptureTest, CastTest, ServePeerDev, Caster, Nothing
  <1> HIDE DEF Methods, Plain, CaptureMethods
  <1> DEFINE users == {"injectTest", "servePeerDev", "castTest", "caster", "captureTest", "embedder"}
  <1>3. DOMAIN Open = users /\ DOMAIN Use = users
    BY DEF Open, Use
  <1>4. /\ Open["injectTest"] = OpenRemoteDesktop /\ Open["servePeerDev"] = OpenRemoteDesktop
        /\ Open["castTest"] = ProbeAndOpen /\ Open["caster"] = OpenScreenCast
        /\ Open["captureTest"] = OpenInputCapture /\ Open["embedder"] = OpenInputCapture
    BY DEF Open
  <1>5. /\ Use["injectTest"] = InjectTest /\ Use["servePeerDev"] = ServePeerDev
        /\ Use["castTest"] = CastTest /\ Use["caster"] = Caster
        /\ Use["captureTest"] = CaptureTest /\ Use["embedder"] = Nothing
    BY DEF Use
  <1>6. QED
    BY <1>1, <1>2, <1>3, <1>4, <1>5

LEMMA SessionInvInit == Init => SessionInv
  <1> SUFFICES ASSUME Init PROVE SessionInv
    OBVIOUS
  <1>1. CallTypeOK /\ token = 0 /\ caller = "idle"
    BY CallInvInit DEF Init, CallInv, CallInit
  <1>2. 1 \in 1 .. Len(Layouts) /\ 0 \in 0 .. 1
    BY LayoutsAssumption
  <1>3. script \in Seq(Methods)
    BY Scripts DEF Init
  <1>4. /\ asked = [t \in Tokens |-> [method |-> "none", set |-> 0, zones |-> 0, reply |-> {}]]
        /\ current = 1 /\ zoneSet = 0 /\ zones = 0
    BY DEF Init
  <1>5. Asking /\ ZonesOfOneSet
    BY <1>1, <1>4 DEF Asking, ZonesOfOneSet
  <1>6. \A t \in Tokens : /\ asked[t].method \in Methods \cup {"none"}
                          /\ asked[t].set \in 0 .. current /\ asked[t].zones \in 0 .. current
    BY <1>2, <1>4
  <1>7. QED
    BY <1>1, <1>2, <1>3, <1>4, <1>5, <1>6 DEF Init, SessionInv, TypeOK

\* Neither advancing the script nor abandoning it leaves the types.
LEMMA ScriptTypes ==
    ASSUME TypeOK, script # <<>>, Advance \/ Abandon, program' = program
    PROVE  script' \in Seq(Methods) /\ client' \in {"none", "held", "gone"}
  <1>1. Tail(script) \in Seq(Methods)
    BY HeadTailProperties DEF TypeOK
  <1>2. QED
    BY <1>1, Scripts, EmptySeq DEF TypeOK, Advance, Abandon

LEMMA CallTypeStep == CallInv /\ [Next]_vars => CallTypeOK'
  BY StepIsCallStep, CallInvStep DEF CallInv

LEMMA SessionInvStep == CallInv /\ SessionInv /\ [Next]_vars => SessionInv'
  <1> SUFFICES ASSUME CallInv, SessionInv, [Next]_vars PROVE SessionInv'
    OBVIOUS
  <1> USE DEF SessionInv
  <1>0. CallTypeOK' /\ Len(Layouts) \in Nat
    BY CallTypeStep, LayoutsAssumption
  <1>1. CASE UNCHANGED vars
    BY <1>0, <1>1 DEF vars, sessionVars, callVars, TypeOK, Asking, ZonesOfOneSet
  <1>2. CASE Call
    <2>0. Head(script) \in Methods
      BY <1>2, HeadTailProperties DEF Call, TypeOK
    <2>1. /\ token \in Nat /\ token' = token + 1 /\ token' \in Tokens
          /\ caller = "idle" /\ script # <<>>
      BY <1>2, CallsAssumption DEF Call, Spawn, CallInv, CallTypeOK, Tokens
    <2> DEFINE new == [method |-> Head(script), set |-> zoneSet, zones |-> zones, reply |-> {}]
    <2>2. /\ asked' = [asked EXCEPT ![token + 1] = new]
          /\ UNCHANGED <<offer, program, script, client, zoneSet, zones, session, current, refused>>
      BY <1>2 DEF Call, Method
    <2>3. DOMAIN asked = Tokens /\ DOMAIN asked' = Tokens
      BY <2>2 DEF Asking
    <2>4. \A t \in Tokens : asked'[t] = IF t = token + 1 THEN new ELSE asked[t]
      BY <2>1, <2>2, <2>3
    <2> HIDE DEF new
    <2>5. /\ new.method = Head(script) /\ new.set = zoneSet /\ new.zones = zones /\ new.reply = {}
          /\ new = [method |-> new.method, set |-> new.set, zones |-> new.zones, reply |-> new.reply]
      BY DEF new
    <2>6. TypeOK' /\ ZonesOfOneSet'
      BY <1>0, <2>0, <2>2, <2>4, <2>5 DEF TypeOK, ZonesOfOneSet
    <2>7. asked' = [t \in Tokens |-> [method |-> asked'[t].method, set |-> asked'[t].set,
                                      zones |-> asked'[t].zones, reply |-> asked'[t].reply]]
      <3>1. \A t \in Tokens : asked'[t] = [method |-> asked'[t].method, set |-> asked'[t].set,
                                      zones |-> asked'[t].zones, reply |-> asked'[t].reply]
        BY <2>4, <2>5 DEF Asking
      <3>2. asked' = [t \in Tokens |-> asked'[t]]
        BY <2>2, <2>3
      <3>3. QED
        BY <3>1, <3>2
    <2>8. Asking'
      BY <2>1, <2>2, <2>4, <2>5, <2>7 DEF Asking
    <2>9. QED
      BY <2>6, <2>8
  <1>3. CASE Finish
    <2>1. /\ caller # "idle" /\ caller' = "idle" /\ token' = token /\ token \in Tokens
          /\ UNCHANGED <<offer, program, asked, session, current>>
      BY <1>3 DEF Finish, WorkerFails, ReplyLost, Take, Deadline, IssueFails, Returns, CallInv
    <2>2. script # <<>> /\ (Method = "GetZones" => asked[token].reply \subseteq 0 .. current)
      BY <2>1 DEF Asking, Method
    <2>3. zones' = zoneSet' /\ zoneSet' \in 0 .. current
      BY <1>3, <2>2 DEF Finish, StoreZones, TypeOK, ZonesOfOneSet
    <2>4. Advance \/ Abandon
      BY <1>3 DEF Finish
    <2>5. script' \in Seq(Methods) /\ client' \in {"none", "held", "gone"}
      BY <2>1, <2>2, <2>4, ScriptTypes
    <2>6. refused' \in BOOLEAN
      <3>1. refused \in BOOLEAN /\ refused' = (refused \/ (caller = "issue" /\ ~Capable(Method)))
        BY <1>3 DEF Finish, TypeOK
      <3>2. QED
        BY <3>1, Zenon
    <2>7. TypeOK'
      BY <1>0, <2>1, <2>3, <2>5, <2>6 DEF TypeOK
    <2>8. Asking' /\ ZonesOfOneSet'
      BY <2>1, <2>3 DEF Asking, ZonesOfOneSet
    <2>9. QED
      BY <2>7, <2>8
  <1>4. CASE PlainCall
    <2>1. /\ caller = "idle" /\ script # <<>> /\ Method \in Plain
          /\ UNCHANGED <<callVars, offer, program, zoneSet, zones, asked, current, refused>>
      BY <1>4 DEF PlainCall
    <2>2. \/ client' = "gone" /\ script' = <<>>
          \/ Advance \/ Abandon
      BY <1>4 DEF PlainCall
    <2>3. script' \in Seq(Methods) /\ client' \in {"none", "held", "gone"}
      BY <2>1, <2>2, ScriptTypes, EmptySeq
    <2>4. session' \in {"none", "created", "started", "enabled", "closed"}
      BY <1>4 DEF PlainCall, TypeOK, Leaves
    <2>5. QED
      BY <1>0, <2>1, <2>3, <2>4 DEF TypeOK, Asking, ZonesOfOneSet, callVars
  <1>5. CASE NoZones
    <2>1. script' = <<>> /\ client' = "gone" /\ caller = "idle"
          /\ UNCHANGED <<callVars, offer, program, zoneSet, zones, asked, session, current, refused>>
      BY <1>5 DEF NoZones
    <2>2. QED
      BY <1>0, <2>1, EmptySeq DEF TypeOK, Asking, ZonesOfOneSet, callVars
  <1>6. CASE Embed
    <2>1. /\ caller = "idle" /\ client' \in {client, "gone"}
          /\ script' = script \/ \E m \in CaptureMethods : script' = <<m>>
          /\ UNCHANGED <<callVars, offer, program, zoneSet, zones, asked, session, current, refused>>
      BY <1>6 DEF Embed
    <2>2. script' \in Seq(Methods)
      <3>1. ASSUME NEW m \in CaptureMethods PROVE <<m>> \in Seq(Methods)
        <4>1. m \in Methods
          BY DEF Methods
        <4>2. QED
          BY <4>1
      <3>2. QED
        BY <2>1, <3>1 DEF TypeOK
    <2>3. QED
      BY <1>0, <2>1, <2>2 DEF TypeOK, Asking, ZonesOfOneSet, callVars
  <1>7. CASE MonitorPlugged
    <2>1. /\ current \in Nat /\ current' = current + 1 /\ current' \in 1 .. Len(Layouts)
          /\ 0 .. current \subseteq 0 .. current'
          /\ UNCHANGED <<callVars, offer, program, script, client, zoneSet, zones, asked,
                         session, refused>>
      BY <1>0, <1>7 DEF MonitorPlugged, TypeOK
    <2>2. QED
      BY <1>0, <2>1 DEF TypeOK, Asking, ZonesOfOneSet, callVars
  <1>8. CASE Reap
    BY <1>0, <1>8 DEF Reap, TypeOK, Asking, ZonesOfOneSet, callVars
  <1>9. CASE Within \/ \E t \in Tokens : Receive(t) \/ (StreamEnds(t) /\ UNCHANGED sessionVars)
    <2>1. UNCHANGED sessionVars /\ token' = token /\ (caller' # "idle" => caller # "idle")
      BY <1>9 DEF Within, WorkerSubscribes, Replied, Issue, Receive, WorkerReceives, StreamEnds
    <2>2. QED
      BY <1>0, <2>1 DEF TypeOK, Asking, ZonesOfOneSet, sessionVars
  <1>10. ASSUME NEW t \in Tokens, Portal(t) PROVE SessionInv'
    <2>1. PICK reply : /\ asked' = [asked EXCEPT ![t].reply = reply]
                       /\ asked[t].method = "GetZones" => reply = {current}
      BY <1>10 DEF Portal
    <2>2. /\ token' = token /\ caller' = caller
          /\ UNCHANGED <<offer, program, script, client, zoneSet, zones, current, refused>>
      BY <1>10 DEF Portal, PortalAnswers
    <2>3. session' \in {"none", "created", "started", "enabled", "closed"}
      BY <1>10 DEF Portal, TypeOK, Leaves
    <2> DEFINE new == [method |-> asked[t].method, set |-> asked[t].set,
                       zones |-> asked[t].zones, reply |-> reply]
    <2>4. asked' = [asked EXCEPT ![t] = new]
      <3>1. asked[t] = [method |-> asked[t].method, set |-> asked[t].set,
                        zones |-> asked[t].zones, reply |-> asked[t].reply]
        BY DEF Asking
      <3>2. [asked[t] EXCEPT !.reply = reply] = new
        BY <3>1
      <3>3. QED
        BY <2>1, <3>2
    <2>5. \A u \in Tokens : asked'[u] = IF u = t THEN new ELSE asked[u]
      BY <2>4 DEF Asking
    <2> HIDE DEF new
    <2>6. /\ new.method = asked[t].method /\ new.set = asked[t].set
          /\ new.zones = asked[t].zones /\ new.reply = reply
          /\ new = [method |-> new.method, set |-> new.set, zones |-> new.zones, reply |-> new.reply]
      BY DEF new
    <2>7. TypeOK' /\ ZonesOfOneSet'
      BY <1>0, <2>2, <2>3, <2>5, <2>6 DEF TypeOK, ZonesOfOneSet
    <2>8. asked' = [u \in Tokens |-> [method |-> asked'[u].method, set |-> asked'[u].set,
                                      zones |-> asked'[u].zones, reply |-> asked'[u].reply]]
      <3>1. \A u \in Tokens : asked'[u] = [method |-> asked'[u].method, set |-> asked'[u].set,
                                      zones |-> asked'[u].zones, reply |-> asked'[u].reply]
        BY <2>5, <2>6 DEF Asking
      <3>2. asked' = [u \in Tokens |-> asked'[u]]
        BY <2>4 DEF Asking
      <3>3. QED
        BY <3>1, <3>2
    <2>9. current \in Nat /\ {current} \subseteq 0 .. current
      BY <1>0 DEF TypeOK
    <2>10. Asking'
      <3>1. \A u \in Tokens : asked'[u].method = asked[u].method
        BY <2>5, <2>6
      <3>2. caller' # "idle" => script' # <<>> /\ asked'[token'].method = Head(script')
        BY <2>2, <3>1 DEF Asking, CallInv
      <3>3. \A u \in Tokens : asked'[u].method = "GetZones" => asked'[u].reply \subseteq 0 .. current'
        BY <2>1, <2>2, <2>5, <2>6, <2>9 DEF Asking
      <3>4. QED
        BY <2>8, <3>2, <3>3 DEF Asking
    <2>11. QED
      BY <2>7, <2>10
  <1>11. QED
    BY <1>1, <1>2, <1>3, <1>4, <1>5, <1>6, <1>7, <1>8, <1>9, <1>10 DEF Next

\* SessionInv of every behaviour, with what the calls keep to: the client never
\* remembers a zone set the portal did not have (input_capture.rs:213-232).
THEOREM SessionInvariant == Spec => []SessionInv
  BY SessionInvInit, SessionInvStep, CallInvariant, PTL DEF Spec

\* Types, for any desktop and however many zone sets the portal goes through.
THEOREM TypeCorrect == Spec => []TypeOK
  <1>1. SessionInv => TypeOK
    BY DEF SessionInv
  <1>2. QED
    BY <1>1, SessionInvariant, PTL

\* The client never pairs the zones of one set with the number of another.
THEOREM ZonesCorrect == Spec => []ZonesOfOneSet
  <1>1. SessionInv => ZonesOfOneSet
    BY DEF SessionInv
  <1>2. QED
    BY <1>1, SessionInvariant, PTL

(***************************************************************************)
(* The barriers                                                            *)
(***************************************************************************)

\* The barrier of a zone with a column stands on the boundary of that zone.
LEMMA BarrierOnBoundary ==
    ASSUME NEW z, z.x \in Int, z.width \in Nat \ {0}
    PROVE  OnRightBoundary(Barrier(z), z)
  BY DEF OnRightBoundary, Barrier, Right, RightEdge, Bottom

\* What the portal rejects of the set it has itself is an inner edge.
LEMMA FreshSetsStand ==
    ASSUME current \in 1 .. Len(Layouts), NEW call, call.set = current, call.zones = current,
           NEW reply \in Rejected(call), NEW i \in reply
    PROVE  Inner(Barrier(Layouts[current][i]), current)
  <1> DEFINE set == Layouts[current]
             bad == {j \in DOMAIN set : \A z \in Range(set) : ~OnRightBoundary(Barrier(set[j]), z)}
             inner == {j \in DOMAIN set : Inner(Barrier(set[j]), current)}
  <1>1. set \in Seq(Zone)
    BY LayoutsAssumption
  <1>2. Rejected(call) = {bad \cup some : some \in SUBSET inner}
    BY DEF Rejected
  <1> HIDE DEF set
  <1>3. ASSUME NEW j \in DOMAIN set PROVE OnRightBoundary(Barrier(set[j]), set[j])
    <2>1. set[j].x \in Int /\ set[j].width \in Nat \ {0}
      <3>1. set[j] \in Zone
        BY <1>1, <1>3, ElementOfSeq, LenProperties
      <3>2. QED
        BY <3>1 DEF Zone
    <2>2. QED
      BY <2>1, BarrierOnBoundary
  <1>4. bad = {}
    BY <1>3 DEF Range
  <1>5. QED
    BY <1>2, <1>4 DEF set

LEMMA BarriersStep == CallInv /\ SessionInv /\ OnlyStaleSetsFail /\ [Next]_vars => OnlyStaleSetsFail'
  <1> SUFFICES ASSUME CallInv, SessionInv, OnlyStaleSetsFail, [Next]_vars
               PROVE  OnlyStaleSetsFail'
    OBVIOUS
  <1>0. /\ current \in 1 .. Len(Layouts) /\ current \in Nat /\ zones = zoneSet
        /\ \A t \in Tokens : asked[t].set \in 0 .. current /\ asked[t].zones = asked[t].set
        /\ token \in Nat
    BY LayoutsAssumption DEF SessionInv, TypeOK, ZonesOfOneSet, CallTypeOK
  <1>1. CASE UNCHANGED <<asked, current>>
    BY <1>1 DEF OnlyStaleSetsFail
  <1>2. CASE Call
    <2>1. /\ current' = current /\ DOMAIN asked = Tokens
          /\ asked' = [asked EXCEPT ![token + 1] = [method |-> Head(script), set |-> zoneSet,
                                                    zones |-> zones, reply |-> {}]]
      BY <1>2 DEF Call, Method, SessionInv, Asking
    <2>2. QED
      BY <2>1 DEF OnlyStaleSetsFail
  <1>3. CASE MonitorPlugged
    <2>1. current' = current + 1 /\ asked' = asked
      BY <1>3 DEF MonitorPlugged
    <2>2. QED
      BY <1>0, <2>1 DEF OnlyStaleSetsFail
  <1>4. ASSUME NEW t \in Tokens, Portal(t) PROVE OnlyStaleSetsFail'
    <2>1. PICK reply : /\ asked' = [asked EXCEPT ![t].reply = reply]
                       /\ asked[t].method = "SetPointerBarriers" => reply \in Rejected(asked[t])
      BY <1>4 DEF Portal
    <2>2. current' = current
      BY <1>4 DEF Portal
    <2>3. /\ asked'[t].reply = reply /\ asked'[t].method = asked[t].method
          /\ asked'[t].set = asked[t].set /\ asked'[t].zones = asked[t].zones
          /\ \A u \in Tokens \ {t} : asked'[u] = asked[u]
      <3>1. asked[t] = [method |-> asked[t].method, set |-> asked[t].set,
                        zones |-> asked[t].zones, reply |-> asked[t].reply]
        BY DEF SessionInv, Asking
      <3>2. DOMAIN asked = Tokens
        BY DEF SessionInv, Asking
      <3>3. QED
        BY <2>1, <3>1, <3>2
    <2>4. ASSUME asked[t].method = "SetPointerBarriers", asked[t].set = current, NEW i \in reply
          PROVE  Inner(Barrier(Layouts[asked[t].zones][i]), current)
      BY <1>0, <2>1, <2>4, FreshSetsStand
    <2>5. QED
      BY <2>2, <2>3, <2>4 DEF OnlyStaleSetsFail
  <1>5. QED
    BY <1>1, <1>2, <1>3, <1>4
       DEF Next, vars, sessionVars, NoZones, Finish, PlainCall, Embed, Within, Receive, Reap

\* Only a set that a monitor has replaced, or an inner edge, is rejected.
THEOREM BarriersCorrect == Spec => []OnlyStaleSetsFail
  <1>1. Init => OnlyStaleSetsFail
    BY DEF Init, OnlyStaleSetsFail
  <1>2. QED
    BY <1>1, BarriersStep, CallInvariant, SessionInvariant, PTL DEF Spec

(***************************************************************************)
(* The capability probe                                                    *)
(***************************************************************************)

\* Both clients ask by default for what the model's programs ask for.
LEMMA MasksAsked == DeviceBits = 3 /\ CastTypeBits = 2
  BY DEF DeviceBits, CastTypeBits, Bits, Flag

\* A portal that advertises a keyboard and a pointer takes a request for the
\* two (caps.rs:25-85, remote_desktop.rs:71-79).
LEMMA DevicesOffered ==
    ASSUME NEW bits, bits # Absent, {"keyboard", "pointer"} \subseteq DeviceTypes(bits)
    PROVE  Offered(bits, DeviceBits)
  <1>1. Has(bits, "keyboard") /\ Has(bits, "pointer")
    BY DEF DeviceTypes
  <1>2. (bits \div 1) % 2 = 1 /\ (bits \div 2) % 2 = 1
    BY <1>1 DEF Has, Flag
  <1>3. (3 \div 4) % 2 = 0
    OBVIOUS
  <1>4. QED
    BY <1>2, <1>3, MasksAsked DEF Offered

\* One that advertises windows takes a request for windows (caps.rs:25-31,
\* screen_cast.rs:66-106).
LEMMA WindowsOffered ==
    ASSUME NEW bits, bits # Absent, "window" \in SourceTypes(bits)
    PROVE  Offered(bits, CastTypeBits)
  <1>1. (bits \div 2) % 2 = 1
    BY DEF SourceTypes, Has, Flag
  <1>2. (2 \div 1) % 2 = 0 /\ (2 \div 4) % 2 = 0
    OBVIOUS
  <1>3. QED
    BY <1>1, <1>2, MasksAsked DEF Offered

\* cast_test's choice of a cursor, made without a look at what is offered.
LEMMA CursorAsked == BestCursor(7) = "metadata"
  <1>1. Has(7, "metadata")
    BY DEF Has, Flag
  <1>2. QED
    BY <1>1 DEF BestCursor

\* A script that has only methods of the client its program opens.
Owns(p, s) ==
    \A i \in 1 .. Len(s) :
        /\ s[i] = "SelectDevices" => p \in RemoteUsers
        /\ s[i] = "SelectSources" => p \notin RemoteUsers \cup CaptureUsers

\* The refusal that ProbePromises is about, for the method under way.
LEMMA RefusalForeseen ==
    ASSUME script # <<>>, script \in Seq(Methods), Owns(program, script), ~Capable(Method)
    PROVE  CASE program \in RemoteUsers  -> ~Probe(offer).receive
             [] program \in CaptureUsers -> ~Probe(offer).capture
             [] OTHER -> ~Probe(offer).window \/ ~Has(offer.cursor, "metadata")
  <1>0. RemoteUsers \cap CaptureUsers = {}
    BY DEF RemoteUsers, CaptureUsers
  <1>1. /\ Method = "SelectDevices" => program \in RemoteUsers
        /\ Method = "SelectSources" => program \notin RemoteUsers \cup CaptureUsers
    <2>1. 1 \in 1 .. Len(script) /\ Method = script[1]
      BY EmptySeq, LenProperties, HeadTailProperties DEF Method
    <2>2. QED
      BY <2>1 DEF Owns
  <1>2. /\ Probe(offer).receive => offer.remoteDesktop # Absent /\ Offered(offer.remoteDesktop, DeviceBits)
        /\ Probe(offer).capture => Offered(offer.inputCapture, DeviceBits)
        /\ Probe(offer).window => offer.screenCast # Absent /\ Offered(offer.screenCast, CastTypeBits)
    BY DevicesOffered, WindowsOffered DEF Probe
  <1>3. Method \in {"SelectDevices", "SelectSources", "CreateSession"}
    BY DEF Capable
  <1>4. CASE Method = "SelectDevices"
    BY <1>0, <1>1, <1>2, <1>4 DEF Capable
  <1>5. CASE Method = "SelectSources"
    BY <1>1, <1>2, <1>5, CursorAsked DEF Capable
  <1>6. CASE Method = "CreateSession"
    BY <1>0, <1>2, <1>6 DEF Capable
  <1>7. QED
    BY <1>3, <1>4, <1>5, <1>6

LEMMA OwnScripts == \A p \in DOMAIN Open : Owns(p, Open[p]) /\ Owns(p, Use[p])
  <1> DEFINE users == {"injectTest", "servePeerDev", "castTest", "caster", "captureTest", "embedder"}
  <1>1. DOMAIN Open = users
    BY DEF Open
  <1>2. /\ "injectTest" \in RemoteUsers /\ "servePeerDev" \in RemoteUsers
        /\ "castTest" \notin RemoteUsers \cup CaptureUsers
        /\ "caster" \notin RemoteUsers \cup CaptureUsers
    BY DEF RemoteUsers, CaptureUsers
  <1>3. \A p \in RemoteUsers : /\ Owns(p, OpenRemoteDesktop) /\ Owns(p, InjectTest)
                               /\ Owns(p, ServePeerDev)
    BY DEF Owns, OpenRemoteDesktop, InjectTest, ServePeerDev
  <1>4. \A p : Owns(p, OpenInputCapture) /\ Owns(p, CaptureTest) /\ Owns(p, Nothing)
    BY DEF Owns, OpenInputCapture, CaptureTest, Nothing
  <1>5. ASSUME NEW p, p \notin RemoteUsers \cup CaptureUsers
        PROVE  /\ Owns(p, ProbeAndOpen) /\ Owns(p, OpenScreenCast) /\ Owns(p, CastTest)
               /\ Owns(p, Caster)
    BY <1>5 DEF Owns, ProbeAndOpen, OpenScreenCast, CastTest, Caster
  <1>6. /\ Open["injectTest"] = OpenRemoteDesktop /\ Open["servePeerDev"] = OpenRemoteDesktop
        /\ Open["castTest"] = ProbeAndOpen /\ Open["caster"] = OpenScreenCast
        /\ Open["captureTest"] = OpenInputCapture /\ Open["embedder"] = OpenInputCapture
    BY DEF Open
  <1>7. /\ Use["injectTest"] = InjectTest /\ Use["servePeerDev"] = ServePeerDev
        /\ Use["castTest"] = CastTest /\ Use["caster"] = Caster
        /\ Use["captureTest"] = CaptureTest /\ Use["embedder"] = Nothing
    BY DEF Use
  <1>8. QED
    BY <1>1, <1>2, <1>3, <1>4, <1>5, <1>6, <1>7

\* What is left of a script has the same methods.
LEMMA OwnTail ==
    ASSUME NEW p, NEW s \in Seq(Methods), s # <<>>, Owns(p, s)
    PROVE  Owns(p, Tail(s))
  <1>1. /\ Len(s) \in Nat /\ Len(Tail(s)) = Len(s) - 1
        /\ \A i \in 1 .. Len(Tail(s)) : i + 1 \in 1 .. Len(s) /\ Tail(s)[i] = s[i + 1]
    BY HeadTailProperties, LenProperties, EmptySeq
  <1>2. QED
    BY <1>1 DEF Owns

\* The inductive invariant behind ProbePromises: a program never gets to call
\* the selecting method of another portal than the one it has opened.
Foreseen == Owns(program, script) /\ ProbePromises

LEMMA ForeseenStep == CallInv /\ SessionInv /\ Foreseen /\ [Next]_vars => Foreseen'
  <1> SUFFICES ASSUME CallInv, SessionInv, Foreseen, [Next]_vars
               PROVE  Foreseen'
    OBVIOUS
  <1>1. script \in Seq(Methods) /\ program \in DOMAIN Open
    BY DEF SessionInv, TypeOK
  <1>2. UNCHANGED <<offer, program>>
    BY DEF Next, vars, sessionVars, Call, NoZones, Finish, PlainCall, Embed, Within,
           MonitorPlugged, Reap, Portal, Receive
  <1>3. ASSUME script # <<>>, Advance \/ Abandon PROVE Owns(program, script')
    <2>1. Owns(program, Tail(script)) /\ Owns(program, Use[program]) /\ Owns(program, <<>>)
      BY <1>1, <1>3, OwnTail, OwnScripts DEF Foreseen, Owns
    <2>2. QED
      BY <1>3, <2>1 DEF Advance, Abandon
  <1>4. CASE Finish
    <2>1. caller # "idle" /\ script # <<>>
      BY <1>4 DEF Finish, WorkerFails, ReplyLost, Take, Deadline, IssueFails, Returns, CallInv,
                  SessionInv, Asking
    <2>2. Owns(program, script')
      BY <1>3, <1>4, <2>1 DEF Finish
    <2>3. refused' => refused \/ ~Capable(Method)
      BY <1>4, Zenon DEF Finish
    <2>4. QED
      BY <1>1, <1>2, <2>1, <2>2, <2>3, RefusalForeseen DEF Foreseen, ProbePromises
  <1>5. ASSUME ~Finish PROVE UNCHANGED refused /\ Owns(program, script')
    <2>1. UNCHANGED refused
      BY <1>5 DEF Next, vars, sessionVars, Call, NoZones, PlainCall, Embed, Within,
                  MonitorPlugged, Reap, Portal, Receive
    <2>2. Owns(program, <<>>) /\ \A m \in CaptureMethods : Owns(program, <<m>>)
      BY DEF Owns, CaptureMethods
    <2>3. CASE PlainCall
      BY <1>3, <2>2, <2>3 DEF PlainCall
    <2>4. CASE Embed
      <3>1. script' = script \/ \E m \in CaptureMethods : script' = <<m>>
        BY <2>4 DEF Embed
      <3>2. QED
        BY <2>1, <2>2, <3>1 DEF Foreseen
    <2>5. CASE ~PlainCall /\ ~Embed
      <3>1. UNCHANGED script \/ script' = <<>>
        BY <1>5, <2>5 DEF Next, vars, sessionVars, Call, NoZones, Within, MonitorPlugged, Reap,
                          Portal, Receive
      <3>2. QED
        BY <2>1, <2>2, <3>1 DEF Foreseen
    <2>6. QED
      BY <2>1, <2>3, <2>4, <2>5
  <1>6. QED
    BY <1>2, <1>4, <1>5 DEF Foreseen, ProbePromises

\* On every desktop, whatever masks its portals advertise, a call that is
\* refused for want of a capability is one that the probe had ruled out, but
\* for the cursor that cast_test asks for unseen (portal.rs:3-6).
THEOREM ProbeCorrect == Spec => []ProbePromises
  <1>1. Init => Foreseen
    BY OwnScripts DEF Init, Foreseen, ProbePromises
  <1>2. Foreseen => ProbePromises
    BY DEF Foreseen
  <1>3. QED
    BY <1>1, <1>2, ForeseenStep, CallInvariant, SessionInvariant, PTL DEF Spec

(***************************************************************************)
(* What a late grant leaves                                                *)
(***************************************************************************)

\* The programs that start a session (main.rs; screen_cast.rs).
Starters == {"injectTest", "servePeerDev", "caster"}

PlainFrom(i, s) == \A j \in 1 .. Len(s) : i <= j => s[j] \in Plain

\* A script of a starter, where every method after Start is a plain one, or a
\* script without Start.
StartsOnce(p, s) ==
    \A i \in 1 .. Len(s) : s[i] = "Start" => p \in Starters /\ PlainFrom(i + 1, s)

\* The inductive invariant behind NobodyWaits: Start is the last call that is
\* made, only the call under way has a worker that waits, except where a call
\* was given up, and a worker whose request is answered waits no more.
GrantInv ==
    /\ StartsOnce(program, script)
    /\ client = "none" /\ program = "caster" =>
           /\ \A i \in 1 .. Len(script) : script[i] # "Start"
           /\ \A t \in Tokens : asked[t].method # "Start"
    /\ mail # "empty" => worker[token] = "done"
    /\ program # "embedder" /\ client # "gone" /\ caller = "idle" /\ token > 0 =>
           worker[token] = "done"
    /\ \A t \in Tokens :
          /\ worker[t] = "starting" => t = token /\ caller = "subscribe"
          /\ worker[t] = "listening" => request[t] \notin Responses
          /\ program # "embedder" /\ t < token => worker[t] = "done"
          /\ asked[t].method = "Start" =>
                 /\ t = token /\ program \in Starters
                 /\ PlainFrom(IF caller = "idle" THEN 1 ELSE 2, script)
    /\ session = "started" =>
           \E t \in Tokens : asked[t].method = "Start" /\ request[t] \in Responses

\* Nothing but threads on their way out keeps the connection of a client that
\* is gone, if its session was started.
NobodyWaits ==
    session = "started" /\ client = "gone" =>
        \A t \in Tokens : worker[t] \in {"none", "signalled", "done"}

\* What is left of a script starts once too.
LEMMA StartTail ==
    ASSUME NEW p, NEW s \in Seq(Methods), s # <<>>
    PROVE  /\ StartsOnce(p, s) => StartsOnce(p, Tail(s))
           /\ StartsOnce(p, s) /\ Head(s) = "Start" => p \in Starters /\ PlainFrom(2, s)
           /\ PlainFrom(2, s) => PlainFrom(1, Tail(s))
           /\ PlainFrom(1, s) => PlainFrom(2, s) /\ Head(s) \in Plain
           /\ (\A i \in 1 .. Len(s) : s[i] # "Start") =>
                  \A i \in 1 .. Len(Tail(s)) : Tail(s)[i] # "Start"
  <1>1. /\ Len(s) \in Nat /\ Len(Tail(s)) = Len(s) - 1 /\ 1 \in 1 .. Len(s) /\ Head(s) = s[1]
        /\ \A i \in 1 .. Len(Tail(s)) : i + 1 \in 1 .. Len(s) /\ Tail(s)[i] = s[i + 1]
    BY HeadTailProperties, LenProperties, EmptySeq
  <1>2. \A i \in Int : PlainFrom(i + 1, s) => PlainFrom(i, Tail(s))
    BY <1>1 DEF PlainFrom
  <1>3. StartsOnce(p, s) => StartsOnce(p, Tail(s))
    BY <1>1, <1>2 DEF StartsOnce
  <1>4. StartsOnce(p, s) /\ Head(s) = "Start" => p \in Starters /\ PlainFrom(2, s)
    BY <1>1 DEF StartsOnce
  <1>5. PlainFrom(1, s) => PlainFrom(2, s) /\ Head(s) \in Plain
    BY <1>1 DEF PlainFrom
  <1>6. QED
    BY <1>1, <1>2, <1>3, <1>4, <1>5

\* The scripts of the programs: RemoteDesktop starts at the end of its open,
\* ScreenCast in its use, and nobody else does.
LEMMA StartScripts ==
    \A p \in DOMAIN Open :
        /\ StartsOnce(p, Open[p]) /\ StartsOnce(p, Use[p])
        /\ p \in Starters /\ p # "caster" => PlainFrom(1, Use[p])
        /\ p = "caster" => \A i \in 1 .. Len(Open[p]) : Open[p][i] # "Start"
  <1> DEFINE users == {"injectTest", "servePeerDev", "castTest", "caster", "captureTest", "embedder"}
  <1>1. DOMAIN Open = users
    BY DEF Open
  <1>2. \A p \in Starters : /\ StartsOnce(p, OpenRemoteDesktop) /\ StartsOnce(p, InjectTest)
                            /\ StartsOnce(p, ServePeerDev) /\ StartsOnce(p, Caster)
                            /\ StartsOnce(p, OpenScreenCast)
    BY DEF StartsOnce, PlainFrom, OpenRemoteDesktop, InjectTest, ServePeerDev, Caster,
           OpenScreenCast, Plain
  <1>3. \A p : /\ StartsOnce(p, OpenInputCapture) /\ StartsOnce(p, CaptureTest)
               /\ StartsOnce(p, Nothing) /\ StartsOnce(p, ProbeAndOpen) /\ StartsOnce(p, CastTest)
    BY DEF StartsOnce, OpenInputCapture, CaptureTest, Nothing, ProbeAndOpen, CastTest
  <1>4. PlainFrom(1, InjectTest) /\ PlainFrom(1, ServePeerDev)
    BY DEF PlainFrom, InjectTest, ServePeerDev, Plain
  <1>5. \A i \in 1 .. Len(OpenScreenCast) : OpenScreenCast[i] # "Start"
    BY DEF OpenScreenCast
  <1>6. /\ Open["injectTest"] = OpenRemoteDesktop /\ Open["servePeerDev"] = OpenRemoteDesktop
        /\ Open["castTest"] = ProbeAndOpen /\ Open["caster"] = OpenScreenCast
        /\ Open["captureTest"] = OpenInputCapture /\ Open["embedder"] = OpenInputCapture
    BY DEF Open
  <1>7. /\ Use["injectTest"] = InjectTest /\ Use["servePeerDev"] = ServePeerDev
        /\ Use["castTest"] = CastTest /\ Use["caster"] = Caster
        /\ Use["captureTest"] = CaptureTest /\ Use["embedder"] = Nothing
    BY DEF Use
  <1>8. Starters = {"injectTest", "servePeerDev", "caster"}
    BY DEF Starters
  <1>9. QED
    BY <1>1, <1>2, <1>3, <1>4, <1>5, <1>6, <1>7, <1>8

\* The end of a method: what is left of the script is as GrantInv wants it.
LEMMA GrantScript ==
    ASSUME SessionInv, GrantInv, script # <<>>, Advance \/ Abandon,
           PlainFrom(2, script) \/ \A t \in Tokens : asked[t].method # "Start"
    PROVE  /\ StartsOnce(program, script')
           /\ client' = "none" /\ program = "caster" =>
                 client = "none" /\ \A i \in 1 .. Len(script') : script'[i] # "Start"
           /\ client' # "gone" /\ program # "embedder" => Advance /\ client # "gone"
           /\ \A t \in Tokens : asked[t].method = "Start" => PlainFrom(1, script')
  <1>1. script \in Seq(Methods) /\ program \in DOMAIN Open /\ client \in {"none", "held", "gone"}
    BY DEF SessionInv, TypeOK
  <1>2. /\ \A p : StartsOnce(p, <<>>) /\ PlainFrom(1, <<>>)
        /\ \A i \in 1 .. Len(<<>>) : <<>>[i] # "Start"
    BY DEF StartsOnce, PlainFrom
  <1>3. /\ StartsOnce(program, Tail(script)) /\ StartsOnce(program, Use[program])
        /\ PlainFrom(2, script) => PlainFrom(1, Tail(script))
        /\ (\A i \in 1 .. Len(script) : script[i] # "Start") =>
               \A i \in 1 .. Len(Tail(script)) : Tail(script)[i] # "Start"
    BY <1>1, StartTail, StartScripts DEF GrantInv
  <1>4. CASE Abandon
    BY <1>2, <1>4 DEF Abandon
  <1>5. CASE Advance /\ client = "none" /\ Len(script) = 1
    <2>1. client' = "held" /\ script' = Use[program]
      BY <1>5 DEF Advance
    <2>2. ASSUME NEW t \in Tokens, asked[t].method = "Start" PROVE PlainFrom(1, script')
      <3>1. program \in Starters /\ program # "caster"
        BY <1>5, <2>2 DEF GrantInv
      <3>2. QED
        BY <1>1, <2>1, <3>1, StartScripts
    <2>3. QED
      BY <1>3, <1>5, <2>1, <2>2
  <1>6. CASE Advance /\ ~(client = "none" /\ Len(script) = 1)
    <2>1. client' = client /\ script' = Tail(script)
      BY <1>6 DEF Advance
    <2>2. client = "none" /\ program = "caster" =>
              \A i \in 1 .. Len(Tail(script)) : Tail(script)[i] # "Start"
      BY <1>3 DEF GrantInv
    <2>3. QED
      BY <1>3, <1>6, <2>1, <2>2
  <1>7. QED
    BY <1>4, <1>5, <1>6

LEMMA GrantStep == CallInv /\ SessionInv /\ GrantInv /\ [Next]_vars => GrantInv'
  <1> SUFFICES ASSUME CallInv, SessionInv, GrantInv, [Next]_vars
               PROVE  GrantInv'
    OBVIOUS
  <1>0. /\ script \in Seq(Methods) /\ program \in DOMAIN Open /\ token \in 0 .. MaxCalls
        /\ worker \in [Tokens -> {"none", "starting", "listening", "signalled", "done"}]
        /\ request \in [Tokens -> {"none", "open"} \cup Responses]
        /\ MaxCalls \in Nat
    BY CallsAssumption DEF SessionInv, TypeOK, CallTypeOK
  <1>a. caller # "idle" => /\ script # <<>> /\ asked[token].method = Head(script)
                           /\ token \in Tokens
    BY DEF SessionInv, Asking, CallInv
  <1>1. CASE UNCHANGED vars
    BY <1>1 DEF vars, sessionVars, callVars, GrantInv
  <1>2. CASE Call
    <2>1. /\ caller = "idle" /\ token' = token + 1 /\ token' \in Tokens /\ caller' = "subscribe"
          /\ worker' = [worker EXCEPT ![token + 1] = "starting"] /\ UNCHANGED <<request, mail>>
          /\ script # <<>> /\ client # "gone" /\ Head(script) \notin Plain
          /\ UNCHANGED <<program, script, client, session>>
      BY <1>0, <1>2 DEF Call, Spawn, Method, Tokens
    <2>2. \A t \in Tokens : asked'[t].method = IF t = token + 1 THEN Head(script) ELSE asked[t].method
      BY <1>2 DEF Call, Method, SessionInv, Asking
    <2>3. \A t \in Tokens : asked[t].method # "Start"
      BY <1>0, <2>1, StartTail DEF GrantInv
    <2>4. StartsOnce(program, script) /\ Head(script) = "Start"
              => program \in Starters /\ PlainFrom(2, script)
      BY <1>0, <2>1, StartTail
    <2>5. program = "caster" /\ client = "none" => Head(script) # "Start"
      <3>1. 1 \in 1 .. Len(script) /\ Head(script) = script[1]
        BY <1>0, <2>1, EmptySeq, LenProperties, HeadTailProperties
      <3>2. QED
        BY <3>1 DEF GrantInv
    <2>6. mail = "empty" /\ request[token + 1] = "none"
      BY <1>0, <2>1 DEF CallInv
    <2>7. session # "started"
      BY <2>3 DEF GrantInv
    <2>8. \A t \in Tokens : t < token' => t <= token /\ t > 0
      BY <1>0, <2>1 DEF Tokens
    <2>9. program # "embedder" => \A t \in Tokens : t < token' => worker'[t] = "done"
      BY <1>0, <2>1, <2>8 DEF GrantInv, Tokens
    <2>10. QED
      BY <1>0, <2>1, <2>2, <2>3, <2>4, <2>5, <2>6, <2>7, <2>9 DEF GrantInv
  <1>3. CASE Finish
    <2>1. /\ caller # "idle" /\ caller' = "idle" /\ mail' = "empty" /\ UNCHANGED <<token, request>>
          /\ UNCHANGED <<program, asked, session>>
          /\ worker' = worker \/ (caller = "subscribe" /\ worker' = [worker EXCEPT ![token] = "done"])
      BY <1>3 DEF Finish, WorkerFails, ReplyLost, Take, Deadline, IssueFails, Returns
    <2>2. Advance \/ Abandon
      BY <1>3 DEF Finish
    <2>3. \A t \in Tokens : asked[t].method = "Start" => PlainFrom(2, script)
      BY <2>1 DEF GrantInv
    <2>4. /\ StartsOnce(program, script')
          /\ client' = "none" /\ program = "caster" =>
                 client = "none" /\ \A i \in 1 .. Len(script') : script'[i] # "Start"
          /\ \A t \in Tokens : asked[t].method = "Start" => PlainFrom(1, script')
      BY <1>a, <2>1, <2>2, <2>3, GrantScript
    <2>5. ASSUME program # "embedder", client' # "gone" PROVE worker'[token] = "done"
      <3>1. ~Abandon
        BY <2>5 DEF Abandon
      <3>2. result' = "ok"
        BY <1>3, <3>1 DEF Finish
      <3>3. mail # "empty" /\ UNCHANGED worker
        BY <1>3, <3>2 DEF Finish, WorkerFails, ReplyLost, Take, Deadline, IssueFails, Returns
      <3>4. QED
        BY <3>3 DEF GrantInv
    <2>6. \A t \in Tokens : worker'[t] # "starting"
      BY <1>0, <1>3, <2>1 DEF GrantInv, Finish, WorkerFails, ReplyLost, Take, Deadline, IssueFails,
                              CallInv
    <2>7. \A t \in Tokens : worker[t] = "done" \/ worker'[t] = "listening" => worker'[t] = worker[t]
      BY <1>0, <2>1
    <2>8. QED
      BY <1>0, <1>a, <2>1, <2>4, <2>5, <2>6, <2>7 DEF GrantInv
  <1>4. CASE PlainCall
    <2>1. /\ caller = "idle" /\ client # "gone" /\ script # <<>> /\ Method \in Plain
          /\ UNCHANGED callVars /\ UNCHANGED <<program, asked>>
      BY <1>4 DEF PlainCall
    <2>2. session' = "started" => session = "started"
      BY <1>4, <2>1 DEF PlainCall, Leaves, Plain
    <2>3. \A t \in Tokens : asked[t].method = "Start" => PlainFrom(2, script)
      BY <1>0, <2>1, StartTail DEF GrantInv
    <2>4. CASE Advance \/ Abandon
      <3>1. /\ StartsOnce(program, script')
            /\ client' = "none" /\ program = "caster" =>
                   client = "none" /\ \A i \in 1 .. Len(script') : script'[i] # "Start"
            /\ \A t \in Tokens : asked[t].method = "Start" => PlainFrom(1, script')
        BY <2>1, <2>3, <2>4, GrantScript
      <3>2. QED
        BY <2>1, <2>2, <3>1 DEF GrantInv, callVars
    <2>5. CASE client' = "gone" /\ script' = <<>>
      BY <2>1, <2>2, <2>5 DEF GrantInv, callVars, StartsOnce, PlainFrom
    <2>6. QED
      BY <1>4, <2>4, <2>5 DEF PlainCall
  <1>5. CASE NoZones
    BY <1>5 DEF NoZones, GrantInv, callVars, StartsOnce, PlainFrom
  <1>6. CASE Embed
    <2>1. /\ program = "embedder" /\ UNCHANGED callVars /\ UNCHANGED <<program, asked, session>>
          /\ client' # "none"
          /\ script' = script \/ \E m \in CaptureMethods : script' = <<m>>
      BY <1>6 DEF Embed
    <2>2. StartsOnce(program, script')
      BY <2>1 DEF GrantInv, StartsOnce, CaptureMethods
    <2>3. \A t \in Tokens : asked[t].method # "Start"
      BY <2>1 DEF GrantInv, Starters
    <2>4. QED
      BY <2>1, <2>2, <2>3 DEF GrantInv, callVars
  <1>7. CASE Within
    <2>1. /\ caller # "idle" /\ caller' # "idle" /\ UNCHANGED sessionVars
          /\ UNCHANGED <<token, mail>>
      BY <1>7 DEF Within, WorkerSubscribes, Replied, Issue
    <2>2. CASE WorkerSubscribes(token)
      <3>1. request[token] = "none" /\ caller = "subscribe" /\ worker[token] = "starting"
            /\ worker' = [worker EXCEPT ![token] = "listening"] /\ UNCHANGED request
        BY <2>2 DEF WorkerSubscribes, CallInv
      <3>2. QED
        BY <1>0, <1>a, <2>1, <3>1 DEF GrantInv, sessionVars, Responses
    <2>3. CASE Replied
      BY <2>1, <2>3 DEF Replied, GrantInv, sessionVars
    <2>4. CASE Issue
      <3>1. caller = "issue" /\ UNCHANGED worker /\ request' = [request EXCEPT ![token] = "open"]
        BY <2>4 DEF Issue
      <3>2. request[token] = "none"
        BY <3>1 DEF CallInv
      <3>3. QED
        BY <1>0, <1>a, <2>1, <3>1, <3>2 DEF GrantInv, sessionVars, Responses
    <2>5. QED
      BY <1>7, <2>2, <2>3, <2>4 DEF Within
  <1>8. CASE MonitorPlugged \/ Reap
    BY <1>8 DEF MonitorPlugged, Reap, GrantInv, callVars
  <1>9. ASSUME NEW t \in Tokens, Portal(t) PROVE GrantInv'
    <2>1. PICK code \in Responses : PortalAnswers(t, code)
      BY <1>9 DEF Portal
    <2>2. /\ request[t] = "open" /\ request' = [request EXCEPT ![t] = code]
          /\ worker' = IF worker[t] = "listening" THEN [worker EXCEPT ![t] = "signalled"] ELSE worker
          /\ UNCHANGED <<caller, token, mail>>
      BY <2>1 DEF PortalAnswers
    <2>3. UNCHANGED <<program, script, client>>
      BY <1>9 DEF Portal
    <2>4. \A u \in Tokens : asked'[u].method = asked[u].method
      BY <1>9 DEF Portal, SessionInv, Asking
    <2>5. session' = "started" => session = "started" \/ asked[t].method = "Start"
      BY <1>9 DEF Portal, Leaves
    <2>6. worker[t] # "starting"
      BY <2>2 DEF GrantInv, CallInv
    <2>7. \A u \in Tokens : request[u] \in Responses => u = t \/ request'[u] \in Responses
      BY <1>0, <2>2
    <2>8. request'[t] \in Responses
      BY <1>0, <2>2
    <2>9. session' = "started" =>
              \E u \in Tokens : asked'[u].method = "Start" /\ request'[u] \in Responses
      BY <2>4, <2>5, <2>7, <2>8 DEF GrantInv
    <2>10. \A u \in Tokens : /\ worker'[u] = "starting" => worker[u] = "starting"
                             /\ worker[u] = "done" => worker'[u] = "done"
                             /\ worker'[u] = "listening" => u # t /\ worker[u] = "listening"
                             /\ u # t => request'[u] = request[u]
      BY <1>0, <2>2
    <2>11. mail # "empty" => token \in Tokens
      BY DEF CallInv
    <2>12. token \in Tokens \/ token = 0
      BY <1>0 DEF Tokens
    <2>13. QED
      BY <2>2, <2>3, <2>4, <2>9, <2>10, <2>11, <2>12 DEF GrantInv
  <1>10. ASSUME NEW t \in Tokens, Receive(t) \/ (StreamEnds(t) /\ UNCHANGED sessionVars)
         PROVE  GrantInv'
    <2>1. /\ UNCHANGED sessionVars /\ UNCHANGED <<caller, token, request>>
          /\ worker' = [worker EXCEPT ![t] = "done"]
          /\ mail' = mail \/ (caller # "idle" /\ token = t)
      BY <1>10 DEF Receive, WorkerReceives, StreamEnds, Deliver
    <2>2. \A u \in Tokens : worker'[u] = IF u = t THEN "done" ELSE worker[u]
      BY <1>0, <2>1
    <2>3. mail # "empty" => token \in Tokens
      BY DEF CallInv
    <2>4. token \in Tokens \/ token = 0
      BY <1>0 DEF Tokens
    <2>5. QED
      BY <2>1, <2>2, <2>3, <2>4 DEF GrantInv, sessionVars
  <1>11. QED
    BY <1>1, <1>2, <1>3, <1>4, <1>5, <1>6, <1>7, <1>8, <1>9, <1>10 DEF Next

\* However often a program gives up and however late the user grants, nothing
\* but threads that have been answered keeps the connection of a client that is
\* gone (portal_call.rs:73-110): those of the calls before Start were heard,
\* that of Start by the grant itself.  That the threads end, the connection
\* closes and the portal notices is the other half of LateGrantWithdrawn.
THEOREM GrantCorrect == Spec => []NobodyWaits
  <1>1. Init => GrantInv
    <2> SUFFICES ASSUME Init PROVE GrantInv
      OBVIOUS
    <2>1. /\ caller = "idle" /\ token = 0 /\ mail = "empty" /\ session = "none"
          /\ program \in DOMAIN Open /\ script = Open[program]
          /\ \A t \in Tokens : worker[t] = "none" /\ asked[t].method = "none"
      BY DEF Init, CallInit
    <2>2. QED
      BY <2>1, StartScripts, CallsAssumption DEF GrantInv, Tokens
  <1>2. CallInv /\ GrantInv => NobodyWaits
    <2> SUFFICES ASSUME CallInv, GrantInv, session = "started", NEW t \in Tokens
                 PROVE  worker[t] \in {"none", "signalled", "done"}
      BY DEF NobodyWaits
    <2>1. PICK u \in Tokens : asked[u].method = "Start" /\ request[u] \in Responses
      BY DEF GrantInv
    <2>2. u = token /\ program # "embedder"
      BY <2>1 DEF GrantInv, Starters
    <2>3. token \in Int /\ t \in Int
      BY DEF CallInv, CallTypeOK, Tokens
    <2>4. CASE t < token
      BY <2>2, <2>4 DEF GrantInv
    <2>5. CASE t = token
      <3>1. worker[t] # "listening"
        BY <2>1, <2>2, <2>5 DEF GrantInv
      <3>2. worker[t] # "starting"
        BY <2>1, <2>2, <2>5 DEF GrantInv, CallInv, Responses
      <3>3. QED
        BY <3>1, <3>2 DEF CallInv, CallTypeOK
    <2>6. CASE t > token
      BY <2>6 DEF CallInv
    <2>7. QED
      BY <2>3, <2>4, <2>5, <2>6
  <1>3. QED
    BY <1>1, <1>2, GrantStep, CallInvariant, SessionInvariant, PTL DEF Spec

=============================================================================
