----------------------------- MODULE ProxyInput -----------------------------
(***************************************************************************)
(* Input on its way from the proxy windows to the agent, through the main  *)
(* process of the desktop app: the senders of renderer/proxy.ts, the       *)
(* asynchronous handleProxyInput of main/main.ts, the client's FIFO of     *)
(* main/agent-client.ts, and the agent's session at the other end of the   *)
(* pipe (AgentSession, seen from one well-behaved client).                 *)
(*                                                                         *)
(* Every event runs handleProxyInput on its own; an await gives way to the *)
(* next event.  What a handler still has to do is a script, the sequence   *)
(* of its requests.  A script waits in the FIFO with the request it is     *)
(* awaiting at its head.                                                   *)
(***************************************************************************)
EXTENDS Naturals, Sequences

CONSTANTS
    Windows,      \* proxy windows
    Located,      \* those whose source window's rectangle the picker found
    Buttons,
    Keys,
    Spots,        \* positions in the source window
    MaxRequests,  \* bound: main takes an event below so many open requests
    MayRefuse,    \* the agent's desktop may refuse an injection
    MayDie        \* the agent may crash on its own

ASSUME ProxyAssumption ==
    /\ Located \subseteq Windows
    /\ Buttons \cap Keys = {}
    /\ MaxRequests \in Nat \ {0}
    /\ {MayRefuse, MayDie} \subseteq BOOLEAN

VARIABLES
    open,      \* proxy windows that exist
    pending,   \* AgentClient::pending, as scripts
    wire,      \* requests written to the pipe and not read by the agent
    replies,   \* requests answered whose replies are under way
    socket,    \* the client's end of the pipe
    agent,     \* the agent and its session
    quitting,  \* whether before-quit was emitted
    down,      \* what the source sees pressed
    pointer    \* where the source's pointer is

vars == <<open, pending, wire, replies, socket, agent, quitting, down, pointer>>

source == <<down, pointer>>

MoveTo(s) == [kind |-> "move", at |-> s]

Enumerate == [kind |-> "enumerate"]

ReleaseAll == [kind |-> "release"]

\* A move or a button carries where it was made.
Moves(w) == [kind : {"move"}, window : {w}, at : Spots]
ButtonEvents(w) ==
    [kind : {"button"}, window : {w}, input : Buttons, press : BOOLEAN, at : Spots]
KeyEvents(w) == [kind : {"key"}, window : {w}, input : Keys, press : BOOLEAN]

Events(w) == Moves(w) \cup ButtonEvents(w) \cup KeyEvents(w)

Orders == UNION {ButtonEvents(w) \cup KeyEvents(w) : w \in Windows}

Requests == [kind : {"move"}, at : Spots] \cup {Enumerate, ReleaseAll} \cup Orders

Scripts == {<<r>> : r \in Requests}
           \cup {<<MoveTo(e.at), e>> : e \in UNION {ButtonEvents(w) : w \in Located}}

\* The elements of s that are in S, in their order: SelectSeq for a set.
Kept(s, S) ==
    LET kept[n \in 0 .. Len(s)] ==
            IF n = 0 THEN <<>>
            ELSE IF s[n] \in S THEN Append(kept[n - 1], s[n]) ELSE kept[n - 1]
    IN  kept[Len(s)]

-----------------------------------------------------------------------------
(* The renderers and the windows                                           *)

\* The window is closed, or its renderer crashes.  What it sent and main has
\* not handled is lost with it; the agent is not told.
ProxyGone(w) ==
    /\ w \in open /\ open' = open \ {w}
    /\ UNCHANGED <<pending, wire, replies, socket, agent, quitting, source>>

-----------------------------------------------------------------------------
(* The main process                                                        *)

\* Mutant of Script: only a press moves the pointer first.
ScriptLiftsAtOnce(e) ==
    IF e.kind = "move" THEN IF e.window \in Located THEN <<MoveTo(e.at)>> ELSE <<>>
    ELSE IF e.kind = "button" /\ e.window \in Located /\ e.press
         THEN <<MoveTo(e.at), e>> ELSE <<e>>

\* The requests handleProxyInput makes for an event, each after the reply to
\* the one before.  Without a rectangle there is nowhere to move to.
Script(e) ==
    IF e.kind = "move" THEN IF e.window \in Located THEN <<MoveTo(e.at)>> ELSE <<>>
    ELSE IF e.kind = "button" /\ e.window \in Located
         THEN <<MoveTo(e.at), e>> ELSE <<e>>

\* Mutant of Queued: the newest request is the next to be answered.
QueuedFirst(s, queue) == <<s>> \o queue

\* request: the resolver is pushed ...
Queued(s, queue) == Append(queue, s)

\* ... and the request written, which a destroyed socket ignores.
Written(r) == IF socket = "open" THEN Append(wire, r) ELSE wire

\* A handler goes on with its next request, if it has one.
Continue(s, queue) ==
    IF s = <<>>
    THEN pending' = queue /\ UNCHANGED wire
    ELSE pending' = Queued(s, queue) /\ wire' = Written(Head(s))

\* A message of sendProxyInput arrives.  Any event may follow any other: a
\* button can come up over a letterbox bar, a key while the window has no
\* focus, and neither is sent.
HandleProxyInput(w) ==
    /\ w \in open /\ Len(pending) < MaxRequests
    /\ socket # "none"
    /\ \E e \in Events(w) : Continue(Script(e), pending)
    /\ UNCHANGED <<open, replies, socket, agent, quitting, source>>

\* The picker asks for the windows while proxies are in use.
EnumerateWindows ==
    /\ socket # "none" /\ Len(pending) < MaxRequests
    /\ Continue(<<Enumerate>>, pending)
    /\ UNCHANGED <<open, replies, socket, agent, quitting, source>>

\* onData: the oldest resolver takes the reply, and its handler goes on.
OnData ==
    /\ socket = "open" /\ replies # <<>> /\ pending # <<>>
    /\ replies' = Tail(replies)
    /\ Continue(Tail(Head(pending)), Tail(pending))
    /\ UNCHANGED <<open, socket, agent, quitting, source>>

\* The handlers that go on after the reply they await.
Unfinished == {s \in Scripts : Len(s) > 1}

\* Mutant of FailAllPending: a handler that is through is kept.
FailAllKeepsAll ==
    /\ socket = "destroyed" /\ socket' = "closed"
    /\ pending' = [i \in 1 .. Len(pending) |-> Tail(pending[i])]
    /\ UNCHANGED <<open, wire, replies, agent, quitting, source>>

\* The socket's close event: failAllPending resolves every request, and the
\* handlers that go on push requests that are never written.
FailAllPending ==
    /\ socket = "destroyed" /\ socket' = "closed"
    /\ LET on == Kept(pending, Unfinished) IN
       pending' = [i \in 1 .. Len(on) |-> Tail(on[i])]
    /\ UNCHANGED <<open, wire, replies, agent, quitting, source>>

\* before-quit: releaseAllInput is not awaited, so the socket is destroyed
\* with whatever part of the requests has reached the pipe.
Quit ==
    /\ socket # "none" /\ ~quitting /\ quitting' = TRUE
    /\ pending' = Queued(<<ReleaseAll>>, pending)
    /\ IF socket = "open"
       THEN /\ \E n \in 0 .. Len(wire) + 1 : wire' = SubSeq(Written(ReleaseAll), 1, n)
            /\ socket' = "destroyed"
            /\ replies' = <<>>
       ELSE UNCHANGED <<wire, socket, replies>>
    /\ UNCHANGED <<open, agent, source>>

\* The other end is gone.
SocketDies ==
    /\ socket = "open" /\ agent # "serving"
    /\ socket' = "destroyed" /\ replies' = <<>>
    /\ UNCHANGED <<open, pending, wire, agent, quitting, source>>

-----------------------------------------------------------------------------
(* The agent                                                               *)

\* What is pressed after a request that is not refused.
Obeyed(r) ==
    IF r.kind = "release" THEN {}
    ELSE IF r.kind \notin {"button", "key"} THEN down
    ELSE IF r.press THEN down \cup {r.input}
    ELSE down \ {r.input}

\* What a request does to the source if it is not refused.
Obey(r) ==
    /\ down' = Obeyed(r)
    /\ pointer' = IF r.kind = "move" THEN r.at ELSE pointer

\* The session reads a request, handles it and writes the reply.
Serve ==
    /\ agent = "serving" /\ wire # <<>>
    /\ wire' = Tail(wire)
    /\ replies' = IF socket = "open" THEN Append(replies, Head(wire)) ELSE replies
    /\ \/ Obey(Head(wire))
       \/ MayRefuse /\ Head(wire).kind # "release" /\ UNCHANGED source
    /\ UNCHANGED <<open, pending, socket, agent, quitting>>

\* The session ends with release_all: at the end of file, or on a read or a
\* write that fails once the client's end is gone.
SessionEnds ==
    /\ agent = "serving" /\ socket \in {"destroyed", "closed"}
    /\ agent' = "ended" /\ wire' = <<>> /\ down' = {}
    /\ UNCHANGED <<open, pending, replies, socket, quitting, pointer>>

\* The agent is killed: by child.kill on quitting, or it crashes.
AgentKilled ==
    /\ agent = "serving" /\ (quitting \/ MayDie)
    /\ agent' = "killed"
    /\ UNCHANGED <<open, pending, wire, replies, socket, quitting, source>>

-----------------------------------------------------------------------------
(* Specification                                                           *)

\* Bootstrap has connected to the agent, or gone on without one.
Init ==
    /\ open = Windows
    /\ pending = <<>> /\ wire = <<>> /\ replies = <<>>
    /\ \/ socket = "open" /\ agent = "serving"
       \/ socket = "none" /\ agent = "ended"
    /\ quitting = FALSE
    /\ down = {}
    /\ pointer \in Spots

Client == OnData \/ FailAllPending \/ SocketDies

Agent == Serve \/ SessionEnds

Next ==
    \/ \E w \in Windows : HandleProxyInput(w) \/ ProxyGone(w)
    \/ Client \/ Agent \/ EnumerateWindows \/ Quit \/ AgentKilled

\* The event loop serves every source of events, and the agent its client.
\* Operators, windows and crashes promise nothing; kill takes effect.
Spec ==
    /\ Init /\ [][Next]_vars
    /\ WF_vars(OnData) /\ WF_vars(FailAllPending) /\ WF_vars(SocketDies)
    /\ WF_vars(Agent)
    /\ WF_vars(quitting /\ AgentKilled)

-----------------------------------------------------------------------------
(* Properties                                                              *)

TypeOK ==
    /\ open \subseteq Windows
    /\ pending \in Seq(Scripts)
    /\ wire \in Seq(Requests)
    /\ replies \in Seq(Requests)
    /\ socket \in {"none", "open", "destroyed", "closed"}
    /\ agent \in {"serving", "ended", "killed"}
    /\ quitting \in BOOLEAN
    /\ down \subseteq Buttons \cup Keys
    /\ pointer \in Spots

\* "The agent answers one response per request in order, so a simple FIFO of
\* pending resolvers is sufficient" (main/agent-client.ts:7-8): with handlers
\* overlapping at will, the resolver at the front is the one whose request
\* the next reply answers.
RepliesMatch ==
    socket = "open" =>
        /\ Len(pending) = Len(replies) + Len(wire)
        /\ \A i \in 1 .. Len(pending) : Head(pending[i]) = (replies \o wire)[i]

\* "The click lands at the correct spot" (docs/testing.md:44): when the
\* source handles a button, its pointer is where the click was made.
ClickLands ==
    [][wire # <<>> /\ wire' = Tail(wire) /\ Head(wire).kind = "button" /\ down' # down
          => pointer = Head(wire).at]_vars

\* "Never leave input held on the source if we tear down" (main/main.ts:192).
QuitLetsGo == quitting ~> down = {}
=============================================================================
