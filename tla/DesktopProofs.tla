--------------------------- MODULE DesktopProofs ----------------------------
(***************************************************************************)
(* Theorems about Desktop, for any number of apps that start together, any *)
(* number of projections and windows of every size.                        *)
(***************************************************************************)
EXTENDS Desktop, SequenceTheorems, TLAPS

(***************************************************************************)
(* Type correctness                                                        *)
(***************************************************************************)

\* A step of an app or of its agent keeps the launch's types.
LEMMA LaunchStepType ==
    ASSUME LaunchTypeOK, NEW a \in Apps, LaunchSteps(a)
    PROVE  LaunchTypeOK'
  <1>1. Endpoint(a) \in Endpoints
    BY DEF Endpoint, Endpoints
  <1>2. CASE Launch(a)
    BY <1>2 DEF LaunchTypeOK, Launch, AppGoes, UiStates
  <1>3. CASE Bootstraps(a)
    <2>1. CASE ReadEndpoint(a)
      BY <2>1 DEF LaunchTypeOK, ReadEndpoint, AppGoes, UiStates
    <2>2. CASE NoLine(a)
      BY <2>2 DEF LaunchTypeOK, NoLine, AppGoes, UiStates
    <2>3. CASE Connect(a)
      BY <2>3 DEF LaunchTypeOK, Connect, AppGoes, UiStates
    <2>4. CASE Hello(a)
      BY <2>4 DEF LaunchTypeOK, Hello, AppGoes, UiStates
    <2>5. QED
      BY <1>3, <2>1, <2>2, <2>3, <2>4 DEF Bootstraps
  <1>4. CASE Serves(a)
    <2>1. CASE Truncate(a)
      BY <2>1 DEF LaunchTypeOK, Truncate, AgentGoes
    <2>2. CASE Write(a)
      <3>1. file' \in Endpoints \cup {NotJson}
        BY <1>1, <2>2 DEF Write
      <3>2. QED
        BY <2>2, <3>1 DEF LaunchTypeOK, Write, AgentGoes
    <2>3. CASE PrintPath(a)
      BY <2>3 DEF LaunchTypeOK, PrintPath, AgentGoes
    <2>4. CASE CreatePipe(a)
      BY <2>4 DEF LaunchTypeOK, CreatePipe, AgentGoes
    <2>5. CASE AgentDies(a)
      BY <2>5 DEF LaunchTypeOK, AgentDies
    <2>6. QED
      BY <1>4, <2>1, <2>2, <2>3, <2>4, <2>5 DEF Serves
  <1>5. QED
    BY <1>2, <1>3, <1>4 DEF LaunchSteps

\* A message of main names projections.
LEMMA MessageType ==
    ASSUME NEW kind \in Kinds, NEW p \in Projections, NEW q \in Projections
    PROVE  Message(kind, p, q) \in Messages
  BY DEF Message, Messages

\* What a step of the picker, of a proxy or of the user makes of a projection
\* is well-typed, and the broker keeps a group for every proxy window.
LEMMA PickerReceivesType ==
    ASSUME StreamTypeOK, PickerReceives
    PROVE  StreamTypeOK'
  <1>1. Head(toPicker) \in Messages /\ toPicker' \in Seq(Messages)
    BY DEF StreamTypeOK, PickerReceives
  <1>2. Head(toPicker).of \in Projections
    BY <1>1 DEF Messages
  <1>3. capture' \in [Projections -> BOOLEAN] /\ stopped' \in [Projections -> BOOLEAN]
    BY DEF StreamTypeOK, PickerReceives, Stop
  <1>4. source' \in [Projections -> {"idle", "asked", "grabbing", "offering", "offered", "failed"}]
    BY DEF StreamTypeOK, PickerReceives, SourceGoes
  <1>5. answered' \in [Projections -> Projections \cup {None}]
    BY <1>2 DEF StreamTypeOK, PickerReceives
  <1>6. UNCHANGED <<groups, routed, proxy, remote, plays, toProxy>>
    BY DEF PickerReceives, proxyVars
  <1>7. QED
    BY <1>1, <1>3, <1>4, <1>5, <1>6 DEF StreamTypeOK

LEMMA StreamStepType ==
    ASSUME StreamTypeOK, NEW p \in Projections,
           Start(p) \/ Grab(p) \/ Offer(p) \/ ProxyNext(p) \/ CloseProxy(p)
    PROVE  StreamTypeOK'
  <1>1. CASE Start(p)
    <2>1. toPicker' \in Seq(Messages)
      BY <1>1, MessageType DEF Start, StreamTypeOK, Kinds
    <2>2. groups' = {q \in Projections : proxy'[q] \in {"loading", "loaded"}}
      BY <1>1 DEF Start, StreamTypeOK
    <2>3. routed' \in groups'
      BY <1>1 DEF Start
    <2>4. proxy' \in [Projections -> {"none", "loading", "loaded", "closed"}]
      BY <1>1 DEF Start, StreamTypeOK
    <2>5. source' \in [Projections -> {"idle", "asked", "grabbing", "offering", "offered", "failed"}]
      BY <1>1 DEF Start, SourceGoes, StreamTypeOK
    <2>6. UNCHANGED <<capture, stopped, answered, remote, plays, toProxy>>
      BY <1>1 DEF Start
    <2>7. QED
      BY <2>1, <2>2, <2>3, <2>4, <2>5, <2>6 DEF StreamTypeOK
  <1>2. CASE Grab(p)
    BY <1>2 DEF Grab, SourceGoes, StreamTypeOK, proxyVars
  <1>3. CASE Offer(p)
    <2>1. toProxy' \in [Projections -> Seq(Messages)]
      <3>1. Message("offer", p, p) \in Messages
        BY MessageType DEF Kinds
      <3>2. CASE UNCHANGED toProxy
        BY <3>2 DEF StreamTypeOK
      <3>3. CASE /\ routed # None
                 /\ toProxy' = [toProxy EXCEPT ![routed] = Append(@, Message("offer", p, p))]
        <4>1. routed \in Projections
          BY <3>3 DEF StreamTypeOK
        <4>2. Append(toProxy[routed], Message("offer", p, p)) \in Seq(Messages)
          BY <3>1, <4>1 DEF StreamTypeOK
        <4>3. QED
          BY <3>3, <4>1, <4>2 DEF StreamTypeOK
      <3>4. QED
        BY <1>3, <3>2, <3>3 DEF Offer
    <2>2. QED
      BY <1>3, <2>1 DEF Offer, SourceGoes, StreamTypeOK, proxyVars
  <1>4. CASE Load(p)
    <2>1. groups' = {q \in Projections : proxy'[q] \in {"loading", "loaded"}}
      BY <1>4 DEF Load, StreamTypeOK
    <2>2. QED
      BY <1>4, <2>1 DEF Load, StreamTypeOK, pickerVars
  <1>5. CASE ProxyReceives(p)
    <2>1. Head(toProxy[p]) \in Messages /\ toProxy' \in [Projections -> Seq(Messages)]
      BY <1>5 DEF ProxyReceives, StreamTypeOK
    <2>2. Head(toProxy[p]).of \in Projections
      BY <2>1 DEF Messages
    <2>3. remote' \in [Projections -> Projections \cup {None}]
      BY <1>5, <2>2 DEF ProxyReceives, StreamTypeOK
    <2>4. toPicker' \in Seq(Messages)
      <3>1. Message("answer", p, p) \in Messages
        BY MessageType DEF Kinds
      <3>2. toPicker' = toPicker \/ toPicker' = Append(toPicker, Message("answer", p, p))
        BY <1>5, Zenon DEF ProxyReceives
      <3>3. toPicker \in Seq(Messages)
        BY DEF StreamTypeOK
      <3>4. QED
        BY <3>1, <3>2, <3>3
    <2>5. QED
      BY <1>5, <2>1, <2>3, <2>4 DEF ProxyReceives, StreamTypeOK, pickerVars
  <1>6. CASE Play(p)
    BY <1>6 DEF Play, StreamTypeOK, pickerVars
  <1>7. CASE CloseProxy(p)
    <2>1. toPicker' \in Seq(Messages)
      BY <1>7, MessageType DEF CloseProxy, TellClosed, StreamTypeOK, Kinds
    <2>2. groups' = {q \in Projections : proxy'[q] \in {"loading", "loaded"}}
      BY <1>7 DEF CloseProxy, StreamTypeOK
    <2>3. routed' = None
      BY <1>7 DEF CloseProxy, RouteAfter, StreamTypeOK
    <2>4. toProxy' \in [Projections -> Seq(Messages)]
      BY <1>7 DEF CloseProxy, StreamTypeOK
    <2>5. QED
      BY <1>7, <2>1, <2>2, <2>3, <2>4 DEF CloseProxy, StreamTypeOK, pickerVars
  <1>8. QED
    BY <1>1, <1>2, <1>3, <1>4, <1>5, <1>6, <1>7 DEF ProxyNext

LEMMA InitType == Init => TypeOK
  <1> SUFFICES ASSUME Init PROVE TypeOK
    OBVIOUS
  <1>1. LaunchTypeOK
    BY DEF Init, LaunchInit, LaunchTypeOK, Endpoint, Endpoints
  <1>2. StreamTypeOK
    BY DEF Init, StreamInit, StreamTypeOK
  <1>3. QED
    BY <1>1, <1>2 DEF TypeOK

LEMMA StepType == TypeOK /\ [Next]_vars => TypeOK'
  <1> SUFFICES ASSUME TypeOK, [Next]_vars PROVE TypeOK'
    OBVIOUS
  <1>0. LaunchTypeOK /\ StreamTypeOK
    BY DEF TypeOK
  <1>1. UNCHANGED launchVars => LaunchTypeOK'
    BY <1>0 DEF launchVars, LaunchTypeOK, Endpoints, PipeOf, NotJson
  <1>2. UNCHANGED streamVars => StreamTypeOK'
    BY <1>0 DEF streamVars, pickerVars, proxyVars, StreamTypeOK
  <1>3. CASE UNCHANGED vars
    BY <1>1, <1>2, <1>3 DEF vars, TypeOK
  <1>4. CASE \E a \in Apps : LaunchSteps(a) /\ UNCHANGED streamVars
    BY <1>0, <1>2, <1>4, LaunchStepType DEF TypeOK
  <1>5. CASE \E p \in Projections : /\ Start(p) \/ Grab(p) \/ Offer(p) \/ ProxyNext(p) \/ CloseProxy(p)
                                    /\ UNCHANGED launchVars
    BY <1>0, <1>1, <1>5, StreamStepType DEF TypeOK
  <1>6. CASE PickerReceives /\ UNCHANGED launchVars
    BY <1>0, <1>1, <1>6, PickerReceivesType DEF TypeOK
  <1>7. QED
    BY <1>3, <1>4, <1>5, <1>6 DEF Next, PickerNext

\* Every step keeps the types, a group of the broker for every open proxy
\* window, and a route of the picker to one of those groups only
\* (main/signaling.ts:22-53).
THEOREM TypeCorrect == Spec => []TypeOK
  BY InitType, StepType, PTL DEF Spec

(***************************************************************************)
(* The endpoint that an app has read                                       *)
(***************************************************************************)

\* The endpoint of an agent that was spawned in this launch.
Known(endpoint) == \E x \in Apps : endpoint = Endpoint(x) /\ agent[x] # "none"

\* An agent that has emptied the file, by itself or through one before it.
Emptied == lines # {} \/ \E a \in Apps : agent[a] \in {"writing", "written", "printed", "serving"}

\* The inductive invariant behind Welcome: what an earlier launch left in the
\* file is gone before any agent prints the line that an app waits for.
EndpointsKnown ==
    /\ file \in {NotJson, Endpoint(Older)} \/ Known(file)
    /\ Emptied => file = NotJson \/ Known(file)
    /\ \A a \in Apps : read[a] = NotJson \/ Known(read[a])

\* No agent is forgotten: what was known stays known.
LEMMA KnownStays ==
    ASSUME LaunchTypeOK, NEW a \in Apps, LaunchSteps(a), NEW e, Known(e)
    PROVE  Known(e)'
  <1>1. \A x \in Apps : agent[x] # "none" => agent'[x] # "none"
    <2>1. CASE Launch(a)
      BY <2>1 DEF Launch, LaunchTypeOK
    <2>2. CASE Bootstraps(a)
      BY <2>2 DEF Bootstraps, ReadEndpoint, NoLine, Connect, Hello
    <2>3. CASE Serves(a)
      BY <2>3 DEF Serves, Truncate, Write, PrintPath, CreatePipe, AgentDies, AgentGoes,
                  LaunchTypeOK
    <2>4. QED
      BY <2>1, <2>2, <2>3 DEF LaunchSteps
  <1>2. QED
    BY <1>1 DEF Known, Endpoint, PipeOf

LEMMA LaunchStepKnown ==
    ASSUME LaunchTypeOK, EndpointsKnown, NEW a \in Apps, LaunchSteps(a)
    PROVE  EndpointsKnown'
  <1>1. \A e : Known(e) => Known(e)'
    BY KnownStays
  <1>2. CASE Launch(a)
    <2>1. Emptied' => Emptied
      BY <1>2 DEF Launch, Emptied, LaunchTypeOK
    <2>2. UNCHANGED <<file, read>>
      BY <1>2 DEF Launch
    <2>3. QED
      BY <1>1, <2>1, <2>2 DEF EndpointsKnown, NotJson, Endpoint, PipeOf
  <1>3. CASE Bootstraps(a)
    <2>1. UNCHANGED <<agent, lines, file>>
      BY <1>3 DEF Bootstraps, ReadEndpoint, NoLine, Connect, Hello
    <2>2. UNCHANGED read \/ (a \in lines /\ read' = [read EXCEPT ![a] = file])
      BY <1>3 DEF Bootstraps, ReadEndpoint, NoLine, Connect, Hello
    <2>3. a \in lines => file = NotJson \/ Known(file)
      BY DEF EndpointsKnown, Emptied
    <2>4. \A b \in Apps : read'[b] = NotJson \/ Known(read'[b])
      BY <2>2, <2>3 DEF EndpointsKnown, LaunchTypeOK
    <2>5. \A b \in Apps : (read[b] = NotJson \/ Known(read[b]))'
      BY <1>1, <2>4 DEF NotJson
    <2>6. Emptied' => Emptied
      BY <2>1 DEF Emptied
    <2>7. QED
      BY <1>1, <2>1, <2>5, <2>6 DEF EndpointsKnown, NotJson, Endpoint, PipeOf
  <1>4. CASE Serves(a)
    <2>1. UNCHANGED read
      BY <1>4 DEF Serves, Truncate, Write, PrintPath, CreatePipe, AgentDies
    <2>2. \A b \in Apps : (read[b] = NotJson \/ Known(read[b]))'
      BY <1>1, <2>1 DEF EndpointsKnown, NotJson
    <2>3. CASE Truncate(a) \/ Write(a)
      <3>1. file' = NotJson \/ file' = Endpoint(a)
        BY <2>3 DEF Truncate, Write
      <3>2. agent'[a] # "none"
        BY <2>3 DEF Truncate, Write, AgentGoes, LaunchTypeOK
      <3>3. (file = NotJson \/ Known(file))'
        BY <3>1, <3>2 DEF Known, NotJson, Endpoint, PipeOf
      <3>4. QED
        BY <2>2, <3>3 DEF EndpointsKnown
    <2>4. CASE PrintPath(a) \/ CreatePipe(a) \/ AgentDies(a)
      <3>1. UNCHANGED file
        BY <2>4 DEF PrintPath, CreatePipe, AgentDies
      <3>2. Emptied' => Emptied
        BY <2>4 DEF PrintPath, CreatePipe, AgentDies, AgentGoes, Emptied, LaunchTypeOK
      <3>3. QED
        BY <1>1, <2>2, <3>1, <3>2 DEF EndpointsKnown, NotJson, Endpoint, PipeOf
    <2>5. QED
      BY <1>4, <2>3, <2>4 DEF Serves
  <1>5. QED
    BY <1>2, <1>3, <1>4 DEF LaunchSteps

\* However many apps of a user start at once and however their agents' writes
\* mix, the endpoint that an app reads is one of this launch, and an agent that
\* serves the pipe it names takes the token (endpoint.rs:4-5).
THEOREM WelcomeCorrect == Spec => []Welcome
  <1>1. Init => EndpointsKnown
    BY DEF Init, LaunchInit, EndpointsKnown, Emptied
  <1>2. TypeOK /\ EndpointsKnown /\ [Next]_vars => EndpointsKnown'
    <2> SUFFICES ASSUME TypeOK, EndpointsKnown, [Next]_vars PROVE EndpointsKnown'
      OBVIOUS
    <2>1. CASE UNCHANGED launchVars
      BY <2>1 DEF launchVars, EndpointsKnown, Emptied, Known, NotJson, Endpoint, PipeOf
    <2>2. CASE \E a \in Apps : LaunchSteps(a)
      BY <2>2, LaunchStepKnown DEF TypeOK
    <2>3. QED
      BY <2>1, <2>2 DEF Next, vars
  <1>3. EndpointsKnown => Welcome
    <2> SUFFICES ASSUME EndpointsKnown, NEW a \in Apps, read[a] # NotJson
                 PROVE  /\ read[a].token # Older /\ agent[read[a].token] # "none"
                        /\ \A b \in Behind(read[a].pipe) : Welcomes(b, a)
      BY DEF Welcome
    <2>1. PICK x \in Apps : read[a] = Endpoint(x) /\ agent[x] # "none"
      BY DEF EndpointsKnown, Known
    <2>2. read[a].token = x /\ read[a].pipe = x
      BY <2>1 DEF Endpoint, PipeOf
    <2>3. QED
      BY <2>1, <2>2, LaunchAssumption DEF Behind, Welcomes, PipeOf
  <1>4. QED
    BY <1>1, <1>2, <1>3, TypeCorrect, PTL DEF Spec

(***************************************************************************)
(* Whose window a proxy shows, and where its pointer reaches               *)
(***************************************************************************)

\* A message that reaches the projection its sender named.
Own == {m \in Messages : m.of = m.projectionId}

\* The inductive invariant behind PictureIsTrue: no message crosses over to
\* another projection, and nothing is negotiated between two of them.
OwnWindow ==
    /\ toPicker \in Seq(Own) /\ toProxy \in [Projections -> Seq(Own)]
    /\ \A p \in Projections : {remote[p], answered[p], plays[p]} \subseteq {p, None}

LEMMA OwnMessage ==
    ASSUME NEW kind \in Kinds, NEW p \in Projections
    PROVE  Message(kind, p, p) \in Own
  BY DEF Message, Messages, Own

LEMMA PickerReceivesOwn ==
    ASSUME StreamTypeOK, OwnWindow, PickerReceives
    PROVE  OwnWindow'
  <1>1. Head(toPicker) \in Own /\ toPicker' \in Seq(Own)
    BY DEF OwnWindow, PickerReceives
  <1>2. \A p \in Projections : Mine(Head(toPicker), p) => Head(toPicker).of = p
    BY <1>1 DEF Own, Mine
  <1>3. \A p \in Projections : answered'[p] \in {p, None}
    <2>1. CASE UNCHANGED answered
      BY <2>1 DEF OwnWindow
    <2>2. CASE answered' = [p \in Projections |->
                 IF p \in Takers(Head(toPicker)) /\ source[p] = "offered" /\ ~stopped[p]
                    /\ answered[p] = None
                 THEN Head(toPicker).of ELSE answered[p]]
      BY <1>2, <2>2 DEF OwnWindow, Takers
    <2>3. QED
      BY <2>1, <2>2 DEF PickerReceives
  <1>4. UNCHANGED <<remote, plays, toProxy>>
    BY DEF PickerReceives, proxyVars
  <1>5. QED
    BY <1>1, <1>3, <1>4 DEF OwnWindow

LEMMA StreamStepOwn ==
    ASSUME StreamTypeOK, OwnWindow, NEW p \in Projections,
           Start(p) \/ Grab(p) \/ Offer(p) \/ ProxyNext(p) \/ CloseProxy(p)
    PROVE  OwnWindow'
  <1>0. /\ toPicker \in Seq(Own) /\ toProxy \in [Projections -> Seq(Own)]
        /\ \A kind \in Kinds : Append(toPicker, Message(kind, p, p)) \in Seq(Own)
    BY OwnMessage DEF OwnWindow
  <1>1. CASE Start(p)
    BY <1>0, <1>1 DEF Start, OwnWindow, Kinds
  <1>2. CASE Grab(p)
    BY <1>2 DEF Grab, OwnWindow, proxyVars
  <1>3. CASE Offer(p)
    <2>1. toProxy' \in [Projections -> Seq(Own)]
      <3>1. CASE UNCHANGED toProxy
        BY <1>0, <3>1
      <3>2. CASE /\ routed # None
                 /\ toProxy' = [toProxy EXCEPT ![routed] = Append(@, Message("offer", p, p))]
        <4>1. routed \in Projections
          BY <3>2 DEF StreamTypeOK
        <4>2. Message("offer", p, p) \in Own
          BY OwnMessage DEF Kinds
        <4>3. Append(toProxy[routed], Message("offer", p, p)) \in Seq(Own)
          BY <1>0, <4>1, <4>2
        <4>4. QED
          BY <1>0, <3>2, <4>1, <4>3
      <3>3. QED
        BY <1>3, <3>1, <3>2 DEF Offer
    <2>2. QED
      BY <1>3, <2>1 DEF Offer, OwnWindow, proxyVars
  <1>4. CASE Load(p)
    BY <1>4 DEF Load, OwnWindow, pickerVars
  <1>5. CASE ProxyReceives(p)
    <2>1. Head(toProxy[p]) \in Own /\ toProxy' \in [Projections -> Seq(Own)]
      BY <1>0, <1>5 DEF ProxyReceives
    <2>2. Mine(Head(toProxy[p]), p) => Head(toProxy[p]).of = p
      BY <2>1 DEF Own, Mine
    <2>3. \A q \in Projections : remote'[q] \in {q, None}
      BY <1>5, <2>2 DEF ProxyReceives, OwnWindow, StreamTypeOK
    <2>4. toPicker' = toPicker \/ toPicker' = Append(toPicker, Message("answer", p, p))
      BY <1>5, Zenon DEF ProxyReceives
    <2>5. toPicker' \in Seq(Own)
      BY <1>0, <2>4 DEF Kinds
    <2>6. UNCHANGED <<answered, plays>>
      BY <1>5 DEF ProxyReceives, pickerVars
    <2>7. QED
      BY <2>1, <2>3, <2>5, <2>6 DEF OwnWindow
  <1>6. CASE Play(p)
    <2>1. PICK q \in Projections : remote[p] = q /\ plays' = [plays EXCEPT ![p] = q]
      BY <1>6 DEF Play
    <2>2. q = p
      BY <2>1, StreamingAssumption DEF OwnWindow
    <2>3. QED
      BY <1>6, <2>1, <2>2 DEF Play, OwnWindow, StreamTypeOK, pickerVars
  <1>7. CASE CloseProxy(p)
    <2>1. toPicker' \in Seq(Own)
      BY <1>0, <1>7 DEF CloseProxy, TellClosed, Kinds
    <2>2. toProxy' \in [Projections -> Seq(Own)]
      BY <1>0, <1>7 DEF CloseProxy
    <2>3. QED
      BY <1>7, <2>1, <2>2 DEF CloseProxy, OwnWindow, pickerVars
  <1>8. QED
    BY <1>1, <1>2, <1>3, <1>4, <1>5, <1>6, <1>7 DEF ProxyNext

\* One axis of the letterbox: a point maps into the source exactly if it is no
\* farther from the middle than the picture reaches (mapping.rs:92-102).
LEMMA AlongReaches ==
    ASSUME NEW p \in Nat, NEW length \in Nat, NEW across \in Nat, NEW scaled \in Nat
    PROVE  Map!Along(p, length, across, scaled) # Map!Nowhere
              <=> Off(2 * p - length) * across <= scaled
  <1> DEFINE u == 2 * across * p - (length * across - scaled)
             d == (2 * p - length) * across
  <1>1. u \in Int /\ d \in Int /\ u = d + scaled
    OBVIOUS
  <1>2. Off(2 * p - length) * across = IF d < 0 THEN -d ELSE d
    <2>1. CASE 2 * p - length < 0
      <3>1. Off(2 * p - length) * across = -d /\ d <= 0
        BY <2>1 DEF Off
      <3>2. QED
        BY <1>1, <3>1
    <2>2. CASE 2 * p - length >= 0
      <3>1. Off(2 * p - length) * across = d /\ d >= 0
        BY <2>2 DEF Off
      <3>2. QED
        BY <1>1, <3>1
    <2>3. QED
      BY <2>1, <2>2
  <1>3. u \in 0 .. 2 * scaled <=> Off(2 * p - length) * across <= scaled
    <2> HIDE DEF u, d
    <2> QED
      BY <1>1, <1>2
  <1>4. [u |-> u, of |-> 2 * scaled] # Map!Nowhere
    <2>1. 2 * scaled # 1
      OBVIOUS
    <2>2. QED
      BY <2>1 DEF Map!Nowhere
  <1>5. Map!Along(p, length, across, scaled)
          = IF u \in 0 .. 2 * scaled THEN [u |-> u, of |-> 2 * scaled] ELSE Map!Nowhere
    BY DEF Map!Along
  <1>6. QED
    <2> HIDE DEF u
    <2> QED
      BY <1>3, <1>4, <1>5

\* Both axes of a picture that is there (mapping.rs:68-103).
LEMMA PictureReaches ==
    ASSUME NEW screen \in Sizes, NEW pt \in Points(screen)
    PROVE  Map!MapProxyToSource(pt, screen, Source).x # Map!Nowhere <=> OnPicture(pt, screen)
  <1>1. /\ screen.w \in Nat \ {0} /\ screen.h \in Nat \ {0}
        /\ Source.w \in Nat \ {0} /\ Source.h \in Nat \ {0}
        /\ pt.x \in Nat /\ pt.y \in Nat
    BY DesktopAssumption DEF Sizes, Points
  <1>2. Map!Valid(screen) /\ Map!Valid(Source)
    BY <1>1 DEF Map!Valid
  <1>3. Map!Scaled(screen, Source) = Reach(screen) /\ Reach(screen) \in Nat
    BY <1>1 DEF Map!Scaled, Reach
  <1> DEFINE x == Map!Along(pt.x, screen.w, Source.h, Reach(screen))
             y == Map!Along(pt.y, screen.h, Source.w, Reach(screen))
  <1>4. Map!MapProxyToSource(pt, screen, Source)
          = IF x = Map!Nowhere \/ y = Map!Nowhere
            THEN [x |-> Map!Nowhere, y |-> Map!Nowhere] ELSE [x |-> x, y |-> y]
    BY <1>2, <1>3 DEF Map!MapProxyToSource
  <1>5. /\ x # Map!Nowhere <=> Off(2 * pt.x - screen.w) * Source.h <= Reach(screen)
        /\ y # Map!Nowhere <=> Off(2 * pt.y - screen.h) * Source.w <= Reach(screen)
    BY <1>1, <1>3, AlongReaches
  <1>6. QED
    <2> HIDE DEF x, y
    <2> QED
      BY <1>4, <1>5 DEF OnPicture

\* However projections are started, answered, closed and started again, a
\* proxy shows its own window, and for every size of the window and of the
\* video element a pointer reaches the source exactly from the picture
\* (topology/mapping.ts:54-56).
THEOREM PictureCorrect == Spec => []PictureIsTrue
  <1>1. Init => OwnWindow
    BY DEF Init, StreamInit, OwnWindow
  <1>2. TypeOK /\ OwnWindow /\ [Next]_vars => OwnWindow'
    <2> SUFFICES ASSUME TypeOK, OwnWindow, [Next]_vars PROVE OwnWindow'
      OBVIOUS
    <2>1. CASE UNCHANGED streamVars
      BY <2>1 DEF streamVars, pickerVars, proxyVars, OwnWindow
    <2>2. CASE \E p \in Projections :
                 Start(p) \/ Grab(p) \/ Offer(p) \/ ProxyNext(p) \/ CloseProxy(p)
      BY <2>2, StreamStepOwn DEF TypeOK
    <2>3. CASE PickerReceives
      BY <2>3, PickerReceivesOwn DEF TypeOK
    <2>4. QED
      BY <2>1, <2>2, <2>3 DEF Next, PickerNext, vars
  <1>3. OwnWindow => PictureIsTrue
    <2> SUFFICES ASSUME OwnWindow, NEW p \in Projections,
                        NEW screen \in Screens, NEW pt \in Points(screen)
                 PROVE  /\ plays[p] \in {p, None}
                        /\ Map!MapProxyToSource(pt, screen, VideoSize(p)).x # Map!Nowhere
                             <=> plays[p] # None /\ OnPicture(pt, screen)
      BY DEF PictureIsTrue, OwnWindow
    <2>1. CASE plays[p] = None
      <3>1. ~Map!Valid(VideoSize(p))
        BY <2>1 DEF VideoSize, Map!Valid
      <3>2. QED
        BY <2>1, <3>1 DEF Map!MapProxyToSource
    <2>2. CASE plays[p] # None
      <3>1. VideoSize(p) = Source /\ screen \in Sizes
        BY <2>2, DesktopAssumption DEF VideoSize
      <3>2. QED
        BY <2>2, <3>1, PictureReaches DEF OwnWindow
    <2>3. QED
      BY <2>1, <2>2
  <1>4. QED
    BY <1>1, <1>2, <1>3, TypeCorrect, PTL DEF Spec

(***************************************************************************)
(* What a closed proxy leaves of its capture                               *)
(***************************************************************************)

\* Message i under way to the picker is of this kind and about p.
At(i, kind, p) == i \in 1 .. Len(toPicker) /\ toPicker[i] = Message(kind, p, p)

\* The inductive invariant behind CloseTold: a picker that has yet to subscribe
\* to a projection reads that it was started before it reads that it was
\* closed, and a capture that it stopped while it was being asked for never
\* gets to an offer.
CloseInv ==
    \A p \in Projections :
        /\ source[p] = "idle" => proxy[p] = "none"
        /\ source[p] = "asked" => \E i \in 1 .. Len(toPicker) : At(i, "started", p)
        /\ proxy[p] = "closed" /\ ~stopped[p] =>
              \E i \in 1 .. Len(toPicker) :
                  /\ At(i, "close", p)
                  /\ source[p] = "asked" => \E j \in 1 .. i - 1 : At(j, "started", p)
        /\ source[p] \in {"idle", "asked", "grabbing"} => ~capture[p]
        /\ stopped[p] /\ source[p] \in {"offering", "offered"} => ~capture[p]

\* The capture of a closed proxy has ended, or the picker has yet to read that
\* the proxy is closed.
CloseTold ==
    \A p \in Projections :
        proxy[p] = "closed" /\ source[p] \in {"offering", "offered"} =>
            ~capture[p] \/ \E i \in 1 .. Len(toPicker) : At(i, "close", p)

\* The picker reads one message, and every other moves up by one place.
LEMMA MovesUp ==
    ASSUME toPicker \in Seq(Messages), toPicker # <<>>, toPicker' = Tail(toPicker),
           NEW i \in 1 .. Len(toPicker), i # 1
    PROVE  /\ i - 1 \in 1 .. Len(toPicker')
           /\ \A kind, p : At(i, kind, p) => At(i - 1, kind, p)'
  <1>1. /\ Len(toPicker) \in Nat /\ Len(toPicker') = Len(toPicker) - 1
        /\ toPicker'[i - 1] = toPicker[i]
    BY HeadTailProperties, LenProperties
  <1>2. QED
    BY <1>1 DEF At, Message

LEMMA PickerReceivesClose ==
    ASSUME StreamTypeOK, CloseInv, PickerReceives
    PROVE  CloseInv'
  <1> DEFINE m == Head(toPicker)
  <1>1. /\ toPicker \in Seq(Messages) /\ toPicker # <<>> /\ toPicker' = Tail(toPicker)
        /\ Len(toPicker) \in Nat /\ m = toPicker[1] /\ UNCHANGED proxy
    BY LenProperties, HeadTailProperties DEF PickerReceives, StreamTypeOK, proxyVars
  <1> SUFFICES ASSUME NEW p \in Projections
               PROVE  /\ source'[p] = "idle" => proxy'[p] = "none"
                      /\ source'[p] = "asked" => \E i \in 1 .. Len(toPicker') : At(i, "started", p)'
                      /\ proxy'[p] = "closed" /\ ~stopped'[p] =>
                            \E i \in 1 .. Len(toPicker') :
                                /\ At(i, "close", p)'
                                /\ source'[p] = "asked" => \E j \in 1 .. i - 1 : At(j, "started", p)'
                      /\ source'[p] \in {"idle", "asked", "grabbing"} => ~capture'[p]
                      /\ stopped'[p] /\ source'[p] \in {"offering", "offered"} => ~capture'[p]
    BY DEF CloseInv
  <1>2. /\ source'[p] = source[p] \/ (source[p] = "asked" /\ source'[p] = "grabbing")
        /\ capture'[p] => capture[p]
        /\ stopped[p] => stopped'[p]
        /\ stopped'[p] => stopped[p] \/ ~capture'[p]
    <2>1. CASE m.kind = "started" /\ SourceGoes(m.projectionId, "asked", "grabbing")
               /\ UNCHANGED <<capture, stopped>>
      BY <2>1 DEF SourceGoes, StreamTypeOK
    <2>2. CASE UNCHANGED <<source, capture, stopped>>
      BY <2>2
    <2>3. CASE Stop(Takers(m)) /\ UNCHANGED source
      BY <2>3 DEF Stop, StreamTypeOK
    <2>4. QED
      BY <2>1, <2>2, <2>3 DEF PickerReceives
  <1>3. At(1, "started", p) => source'[p] # "asked"
    <2>1. At(1, "started", p) => m.kind = "started" /\ m.projectionId = p
      BY <1>1 DEF At, Message
    <2>2. m.kind = "started" => SourceGoes(m.projectionId, "asked", "grabbing")
      BY DEF PickerReceives
    <2>3. QED
      BY <2>1, <2>2 DEF SourceGoes, StreamTypeOK
  <1>4. At(1, "close", p) /\ Subscribed(p) => stopped'[p]
    <2>1. At(1, "close", p) => m.kind = "close" /\ m.projectionId = p
      BY <1>1 DEF At, Message
    <2>2. m.kind = "close" => Stop(Takers(m))
      BY DEF PickerReceives
    <2>3. QED
      BY <2>1, <2>2 DEF Stop, Takers, Mine
  <1> HIDE DEF m
  <1>5. source'[p] = "asked" => \E i \in 1 .. Len(toPicker') : At(i, "started", p)'
    <2> SUFFICES ASSUME source'[p] = "asked"
                 PROVE  \E i \in 1 .. Len(toPicker') : At(i, "started", p)'
      OBVIOUS
    <2>1. PICK i \in 1 .. Len(toPicker) : At(i, "started", p)
      BY <1>2 DEF CloseInv
    <2>2. i # 1
      BY <1>3, <2>1
    <2>3. QED
      BY <1>1, <2>1, <2>2, MovesUp
  <1>6. ASSUME proxy'[p] = "closed", ~stopped'[p]
        PROVE  \E i \in 1 .. Len(toPicker') :
                   /\ At(i, "close", p)'
                   /\ source'[p] = "asked" => \E j \in 1 .. i - 1 : At(j, "started", p)'
    <2>1. PICK i \in 1 .. Len(toPicker) :
               /\ At(i, "close", p)
               /\ source[p] = "asked" => \E j \in 1 .. i - 1 : At(j, "started", p)
      BY <1>1, <1>2, <1>6 DEF CloseInv
    <2>2. i # 1
      <3>1. source[p] # "idle"
        BY <1>1, <1>6 DEF CloseInv
      <3>2. source[p] = "asked" => i # 1
        BY <2>1
      <3>3. QED
        BY <1>4, <1>6, <2>1, <3>1, <3>2 DEF Subscribed
    <2>3. i - 1 \in 1 .. Len(toPicker') /\ At(i - 1, "close", p)'
      BY <1>1, <2>1, <2>2, MovesUp
    <2>4. ASSUME source'[p] = "asked" PROVE \E j \in 1 .. (i - 1) - 1 : At(j, "started", p)'
      <3>1. PICK j \in 1 .. i - 1 : At(j, "started", p)
        BY <1>2, <2>1, <2>4
      <3>2. j # 1 /\ j \in 1 .. Len(toPicker)
        BY <1>1, <1>3, <2>4, <3>1
      <3>3. At(j - 1, "started", p)'
        BY <1>1, <3>1, <3>2, MovesUp
      <3>4. j - 1 \in 1 .. (i - 1) - 1
        BY <3>1, <3>2
      <3>5. QED
        BY <3>3, <3>4
    <2>5. QED
      BY <2>3, <2>4
  <1>7. QED
    BY <1>1, <1>2, <1>5, <1>6 DEF CloseInv

\* What is appended to the queue comes after what is on its way.
LEMMA StaysAhead ==
    ASSUME toPicker \in Seq(Messages), NEW m \in Messages, toPicker' = Append(toPicker, m)
    PROVE  /\ Len(toPicker) \in Nat /\ Len(toPicker') = Len(toPicker) + 1
           /\ toPicker'[Len(toPicker) + 1] = m
           /\ \A i, kind, p : At(i, kind, p) => At(i, kind, p)'
  <1>1. /\ Len(toPicker) \in Nat /\ Len(toPicker') = Len(toPicker) + 1
        /\ toPicker'[Len(toPicker) + 1] = m
        /\ \A i \in 1 .. Len(toPicker) : toPicker'[i] = toPicker[i]
    BY AppendProperties, LenProperties
  <1>2. QED
    BY <1>1 DEF At, Message

\* Every other step leaves the messages under way in their places.
LEMMA StreamStepClose ==
    ASSUME StreamTypeOK, CloseInv, NEW p \in Projections,
           Start(p) \/ Grab(p) \/ Offer(p) \/ ProxyNext(p) \/ CloseProxy(p)
    PROVE  CloseInv'
  <1>0. Len(toPicker) \in Nat
    BY LenProperties DEF StreamTypeOK
  <1>1. CASE Start(p)
    <2>1. /\ source[p] = "idle" /\ source' = [source EXCEPT ![p] = "asked"]
          /\ proxy' = [proxy EXCEPT ![p] = "loading"]
          /\ toPicker' = Append(toPicker, Message("started", p, p))
          /\ UNCHANGED <<capture, stopped>>
      BY <1>1 DEF Start, SourceGoes
    <2>2. Message("started", p, p) \in Messages
      BY OwnMessage DEF Kinds, Own
    <2>3. \E i \in 1 .. Len(toPicker') : At(i, "started", p)'
      <3>1. /\ Len(toPicker) + 1 \in 1 .. Len(toPicker')
            /\ toPicker'[Len(toPicker) + 1] = Message("started", p, p)
        BY <2>1, <2>2, StaysAhead DEF StreamTypeOK
      <3>2. QED
        BY <3>1 DEF At, Message
    <2>4. \A i, kind, q : At(i, kind, q) => At(i, kind, q)'
      BY <2>1, <2>2, StaysAhead DEF StreamTypeOK
    <2>5. Len(toPicker') = Len(toPicker) + 1
      BY <2>1, <2>2, StaysAhead DEF StreamTypeOK
    <2>6. \A q \in Projections \ {p} : /\ source'[q] = source[q] /\ proxy'[q] = proxy[q]
                                       /\ capture'[q] = capture[q] /\ stopped'[q] = stopped[q]
      BY <2>1 DEF StreamTypeOK
    <2>7. /\ source'[p] = "asked" /\ proxy'[p] = "loading" /\ ~capture'[p]
      BY <2>1 DEF StreamTypeOK, CloseInv
    <2>8. QED
      BY <1>0, <2>3, <2>4, <2>5, <2>6, <2>7 DEF CloseInv
  <1>2. CASE Grab(p)
    <2>1. /\ source[p] = "grabbing" /\ UNCHANGED <<stopped, proxy, toPicker>>
          /\ \/ /\ source' = [source EXCEPT ![p] = IF stopped[p] THEN "failed" ELSE "offering"]
                /\ capture' = [capture EXCEPT ![p] = TRUE]
             \/ source' = [source EXCEPT ![p] = "failed"] /\ UNCHANGED capture
      BY <1>2 DEF Grab, SourceGoes, proxyVars
    <2>2. QED
      BY <2>1 DEF CloseInv, StreamTypeOK, At
  <1>3. CASE Offer(p)
    <2>1. /\ source[p] = "offering" /\ UNCHANGED <<stopped, proxy, toPicker, capture>>
          /\ \/ source' = [source EXCEPT ![p] = "failed"]
             \/ source' = [source EXCEPT ![p] = "offered"]
      BY <1>3 DEF Offer, SourceGoes, proxyVars
    <2>2. QED
      BY <2>1 DEF CloseInv, StreamTypeOK, At
  <1>4. CASE Load(p)
    <2>1. /\ UNCHANGED <<source, capture, stopped, toPicker>>
          /\ proxy[p] = "loading" /\ proxy' = [proxy EXCEPT ![p] = "loaded"]
      BY <1>4 DEF Load, pickerVars
    <2>2. QED
      BY <2>1 DEF CloseInv, StreamTypeOK, At
  <1>5. CASE ProxyReceives(p)
    <2>1. UNCHANGED <<source, capture, stopped, proxy>>
      BY <1>5 DEF ProxyReceives, pickerVars
    <2>2. CASE UNCHANGED toPicker
      BY <2>1, <2>2 DEF CloseInv, At
    <2>3. CASE toPicker' = Append(toPicker, Message("answer", p, p))
      <3>1. Message("answer", p, p) \in Messages
        BY OwnMessage DEF Kinds, Own
      <3>2. /\ Len(toPicker') = Len(toPicker) + 1
            /\ \A i, kind, q : At(i, kind, q) => At(i, kind, q)'
        BY <2>3, <3>1, StaysAhead DEF StreamTypeOK
      <3>3. QED
        BY <1>0, <2>1, <3>2 DEF CloseInv
    <2>4. QED
      BY <1>5, <2>2, <2>3, Zenon DEF ProxyReceives
  <1>6. CASE Play(p)
    BY <1>6 DEF Play, pickerVars, CloseInv, At
  <1>7. CASE CloseProxy(p)
    <2>1. /\ UNCHANGED <<source, capture, stopped>> /\ p \in groups
          /\ proxy[p] # "none" /\ proxy' = [proxy EXCEPT ![p] = "closed"]
          /\ toPicker' = Append(toPicker, Message("close", p, p))
      BY <1>7 DEF CloseProxy, TellClosed, pickerVars, StreamTypeOK
    <2>2. Message("close", p, p) \in Messages
      BY OwnMessage DEF Kinds, Own
    <2>3. \E i \in 1 .. Len(toPicker') : i = Len(toPicker) + 1 /\ At(i, "close", p)'
      <3>1. /\ Len(toPicker) + 1 \in 1 .. Len(toPicker')
            /\ toPicker'[Len(toPicker) + 1] = Message("close", p, p)
        BY <2>1, <2>2, StaysAhead DEF StreamTypeOK
      <3>2. QED
        BY <3>1 DEF At, Message
    <2>4. /\ Len(toPicker') = Len(toPicker) + 1
          /\ \A i, kind, q : At(i, kind, q) => At(i, kind, q)'
      BY <2>1, <2>2, StaysAhead DEF StreamTypeOK
    <2>5. source[p] = "asked" =>
              \E j \in 1 .. (Len(toPicker) + 1) - 1 : At(j, "started", p)'
      BY <1>0, <2>4 DEF CloseInv
    <2>6. /\ \A q \in Projections \ {p} : proxy'[q] = proxy[q]
          /\ proxy'[p] = "closed" /\ source[p] # "idle"
      BY <2>1 DEF StreamTypeOK, CloseInv
    <2>7. QED
      BY <1>0, <2>1, <2>3, <2>4, <2>5, <2>6 DEF CloseInv
  <1>8. QED
    BY <1>1, <1>2, <1>3, <1>4, <1>5, <1>6, <1>7 DEF ProxyNext

\* However many projections are started and closed, and in whatever order main
\* and renderers get to their messages, a closed proxy's capture has ended or
\* its picker has the close before it, unless the capture was still being
\* asked for (main/signaling.ts:45-53, renderer/picker.ts:65-75).  That the picker reads it
\* is the other half of CaptureEnds.
THEOREM CloseCorrect == Spec => []CloseTold
  <1>1. Init => CloseInv
    BY DEF Init, StreamInit, CloseInv
  <1>2. TypeOK /\ CloseInv /\ [Next]_vars => CloseInv'
    <2> SUFFICES ASSUME TypeOK, CloseInv, [Next]_vars PROVE CloseInv'
      OBVIOUS
    <2>1. CASE UNCHANGED streamVars
      BY <2>1 DEF streamVars, pickerVars, proxyVars, CloseInv, At
    <2>2. CASE PickerReceives
      BY <2>2, PickerReceivesClose DEF TypeOK
    <2>3. ASSUME NEW p \in Projections,
                 Start(p) \/ Grab(p) \/ Offer(p) \/ ProxyNext(p) \/ CloseProxy(p)
          PROVE  CloseInv'
      BY <2>3, StreamStepClose DEF TypeOK
    <2>4. QED
      BY <2>1, <2>2, <2>3 DEF Next, vars, PickerNext
  <1>3. CloseInv => CloseTold
    BY DEF CloseInv, CloseTold
  <1>4. QED
    BY <1>1, <1>2, <1>3, TypeCorrect, PTL DEF Spec

=============================================================================
