---------------------------- MODULE AgentSession ----------------------------
(***************************************************************************)
(* The agent's request sessions: Session in crates/agent/src/ipc.rs, served*)
(* by the connection loops of agent/src/pipe.rs and agent/src/tcp.rs,      *)
(* which are the same loop over two transports.  Every accepted connection *)
(* gets a task and a session of its own; all of them inject into the one   *)
(* desktop through the one injector.                                       *)
(*                                                                         *)
(* A session's own state is touched by its task alone, so a request that   *)
(* injects once is one step; release_all injects once per held input and   *)
(* other sessions run in between.  A request's content is chosen when it is*)
(* read: pending counts what the client sent and the task has not read.    *)
(***************************************************************************)
EXTENDS Naturals, FiniteSets

CONSTANTS
    Conns,        \* connections
    Buttons,      \* mouse buttons, released first
    Keys,         \* scancodes
    Unmapped,     \* keys the injector accepts and drops
    MaxPending,   \* bound: requests a client has outstanding
    MayRefuse,    \* the desktop may refuse injection for a while
    MaySilence,   \* a network path may die without closing the connection
    MayDie        \* the agent process may be killed

Inputs == Buttons \cup Keys

ASSUME InputAssumption ==
    /\ Buttons \cap Keys = {}
    /\ Unmapped \subseteq Keys
    /\ MaxPending \in Nat \ {0}
    /\ {MayRefuse, MaySilence, MayDie} \subseteq BOOLEAN

VARIABLES
    link,      \* per connection: how the transport is
    pending,   \* per connection: requests sent and not read
    stage,     \* per connection: where its task is
    auth,      \* Session::authenticated
    held,      \* Session::held_buttons and held_scancodes
    draining,  \* what release_all took out of held and has not injected yet
    down,      \* what the desktop sees pressed
    refusing,  \* whether the desktop refuses injection now
    stuck,     \* history: pressed inputs whose release was refused or whose agent died
    alive      \* whether the agent runs

vars == <<link, pending, stage, auth, held, draining, down, refusing, stuck, alive>>

session == <<auth, held, draining>>
desktop == <<down, refusing, stuck>>

Links == {"none", "up", "closed", "silent"}

\* "release" is release_all on request, "close" release_all after the loop.
Stages == {"none", "read", "reply", "release", "close", "ended"}

-----------------------------------------------------------------------------
(* Injection                                                               *)

\* Whether injecting i is reported to fail: an unmapped key is dropped before
\* the desktop is asked, and that counts as a success.
Refuses(i) == refusing /\ i \notin Unmapped

\* What is pressed once the injector pressed or lifted i.
Pressed(i) == IF i \in Unmapped THEN down ELSE down \cup {i}

Lifted(i) == down \ {i}

-----------------------------------------------------------------------------
(* Clients and the world                                                   *)

Connect(c) ==
    /\ alive /\ link[c] = "none" /\ stage[c] \in {"none", "ended"}
    /\ link' = [link EXCEPT ![c] = "up"]
    /\ pending' = [pending EXCEPT ![c] = 0]
    /\ UNCHANGED <<stage, session, desktop, alive>>

Send(c) ==
    /\ link[c] = "up" /\ pending[c] < MaxPending
    /\ pending' = [pending EXCEPT ![c] = @ + 1]
    /\ UNCHANGED <<link, stage, session, desktop, alive>>

\* The client closes or crashes: what it sent can still be read.
Disconnect(c) ==
    /\ link[c] = "up" /\ link' = [link EXCEPT ![c] = "closed"]
    /\ UNCHANGED <<pending, stage, session, desktop, alive>>

\* The cable is pulled: nothing more arrives, not even an end of file.
GoSilent(c) ==
    /\ MaySilence /\ link[c] = "up" /\ link' = [link EXCEPT ![c] = "silent"]
    /\ UNCHANGED <<pending, stage, session, desktop, alive>>

\* UIPI, the secure desktop, a portal that withdraws its session.
DesktopChangesMind ==
    /\ MayRefuse /\ refusing' = ~refusing
    /\ UNCHANGED <<link, pending, stage, session, down, stuck, alive>>

\* The process is killed: its sessions and their books are gone, and what
\* they pressed stays pressed.
AgentKilled ==
    /\ MayDie /\ alive /\ alive' = FALSE
    /\ link' = [c \in Conns |-> "none"]
    /\ pending' = [c \in Conns |-> 0]
    /\ stage' = [c \in Conns |-> "none"]
    /\ auth' = [c \in Conns |-> FALSE]
    /\ held' = [c \in Conns |-> {}]
    /\ draining' = [c \in Conns |-> {}]
    /\ stuck' = stuck \cup down
    /\ UNCHANGED <<down, refusing>>

\* A new agent knows nothing of what the last one pressed.
AgentStarted ==
    /\ ~alive /\ alive' = TRUE
    /\ UNCHANGED <<link, pending, stage, session, desktop>>

-----------------------------------------------------------------------------
(* The connection task                                                     *)

\* The accept loop spawns a task with a new session.
Accept(c) ==
    /\ alive /\ link[c] # "none" /\ stage[c] \in {"none", "ended"}
    /\ stage' = [stage EXCEPT ![c] = "read"]
    /\ auth' = [auth EXCEPT ![c] = FALSE]
    /\ held' = [held EXCEPT ![c] = {}]
    /\ draining' = [draining EXCEPT ![c] = {}]
    /\ UNCHANGED <<link, pending, desktop, alive>>

\* Mutant of Reads: a request is made of nothing.
ReadsUnsent(c) ==
    /\ alive /\ stage[c] = "read"
    /\ pending' = [pending EXCEPT ![c] = @ - 1]
    /\ UNCHANGED <<link, alive>>

\* read_line returns a line of which the task makes a request.
Reads(c) ==
    /\ alive /\ stage[c] = "read" /\ pending[c] > 0
    /\ pending' = [pending EXCEPT ![c] = @ - 1]
    /\ UNCHANGED <<link, alive>>

Replies(c) == stage' = [stage EXCEPT ![c] = "reply"]

\* Hello with the token and the version of this agent.
Hello(c) ==
    /\ Reads(c) /\ ~auth[c] /\ auth' = [auth EXCEPT ![c] = TRUE] /\ Replies(c)
    /\ UNCHANGED <<held, draining, desktop>>

\* Malformed requests, rejected and repeated Hellos, anything before Hello,
\* Ping, EnumerateWindows and InjectMouseMove: a reply, and nothing held.
Answer(c) ==
    /\ Reads(c) /\ Replies(c) /\ UNCHANGED <<session, desktop>>

\* A blank line is skipped without a reply.
SkipBlank(c) == Reads(c) /\ UNCHANGED <<stage, session, desktop>>

\* Mutant of Press: held is updated whether or not the injection worked.
PressHeldAnyway(c, i) ==
    /\ Reads(c) /\ auth[c] /\ Replies(c)
    /\ held' = [held EXCEPT ![c] = @ \cup {i}]
    /\ down' = IF Refuses(i) THEN down ELSE Pressed(i)
    /\ UNCHANGED <<auth, draining, refusing, stuck>>

\* InjectMouseButton or InjectKey, down.
Press(c, i) ==
    /\ Reads(c) /\ auth[c] /\ Replies(c)
    /\ IF Refuses(i)
       THEN UNCHANGED <<held, down>>
       ELSE /\ down' = Pressed(i)
            /\ held' = [held EXCEPT ![c] = @ \cup {i}]
    /\ UNCHANGED <<auth, draining, refusing, stuck>>

\* InjectMouseButton or InjectKey, up.
Lift(c, i) ==
    /\ Reads(c) /\ auth[c] /\ Replies(c)
    /\ IF Refuses(i)
       THEN UNCHANGED <<held, down>>
       ELSE /\ down' = Lifted(i)
            /\ held' = [held EXCEPT ![c] = @ \ {i}]
    /\ stuck' = stuck \cap down'
    /\ UNCHANGED <<auth, draining, refusing>>

\* Mutant of Drain: the held sets are cleared and nothing is injected.
DrainForgets(c, next) ==
    /\ stage' = [stage EXCEPT ![c] = next]
    /\ held' = [held EXCEPT ![c] = {}]
    /\ UNCHANGED <<auth, draining, desktop>>

\* release_all begins: the held sets are drained before anything is injected.
Drain(c, next) ==
    /\ stage' = [stage EXCEPT ![c] = next]
    /\ draining' = [draining EXCEPT ![c] = held[c]]
    /\ held' = [held EXCEPT ![c] = {}]
    /\ UNCHANGED <<auth, desktop>>

ReleaseAllInput(c) == Reads(c) /\ auth[c] /\ Drain(c, "release")

\* One injection of release_all, its error ignored.  Buttons come first.
ReleaseOne(c, i) ==
    /\ alive /\ stage[c] \in {"release", "close"} /\ i \in draining[c]
    /\ draining[c] \cap Buttons # {} => i \in Buttons
    /\ draining' = [draining EXCEPT ![c] = @ \ {i}]
    /\ IF Refuses(i)
       THEN stuck' = stuck \cup ({i} \cap down) /\ UNCHANGED down
       ELSE down' = Lifted(i) /\ stuck' = stuck \ {i}
    /\ UNCHANGED <<link, pending, stage, auth, held, refusing, alive>>

\* release_all is through: reply to the request, or end the task.
ReleaseDone(c) ==
    /\ alive /\ draining[c] = {}
    /\ \/ stage[c] = "release" /\ Replies(c) /\ UNCHANGED link
       \/ /\ stage[c] = "close"
          /\ stage' = [stage EXCEPT ![c] = "ended"]
          /\ link' = [link EXCEPT ![c] = "none"]
    /\ UNCHANGED <<pending, session, desktop, alive>>

ReplyWritten(c) ==
    /\ alive /\ stage[c] = "reply" /\ stage' = [stage EXCEPT ![c] = "read"]
    /\ UNCHANGED <<link, pending, session, desktop, alive>>

\* Mutant of ReplyFails: the write's error leaves the loop by `?'.
ReplyFailsEarly(c) ==
    /\ alive /\ stage[c] = "reply" /\ link[c] \in {"closed", "silent"}
    /\ stage' = [stage EXCEPT ![c] = "ended"]
    /\ link' = [link EXCEPT ![c] = "none"]
    /\ UNCHANGED <<pending, session, desktop, alive>>

\* write_response fails once the other end is gone.
ReplyFails(c) ==
    /\ alive /\ stage[c] = "reply" /\ link[c] \in {"closed", "silent"}
    /\ Drain(c, "close") /\ UNCHANGED <<link, pending, alive>>

\* A message over MAX_MESSAGE_BYTES ends the connection.
TooLarge(c) == Reads(c) /\ Drain(c, "close")

\* Mutant of ReadEnds: the task returns without release_all.
ReadEndsEarly(c) ==
    /\ alive /\ stage[c] = "read" /\ link[c] = "closed"
    /\ stage' = [stage EXCEPT ![c] = "ended"]
    /\ link' = [link EXCEPT ![c] = "none"]
    /\ UNCHANGED <<pending, session, desktop, alive>>

\* End of file, or a read error, which may lose what was still unread.
ReadEnds(c) ==
    /\ alive /\ stage[c] = "read" /\ link[c] = "closed"
    /\ Drain(c, "close") /\ UNCHANGED <<link, pending, alive>>

-----------------------------------------------------------------------------
(* Specifications                                                          *)

Init ==
    /\ link = [c \in Conns |-> "none"]
    /\ pending = [c \in Conns |-> 0]
    /\ stage = [c \in Conns |-> "none"]
    /\ auth = [c \in Conns |-> FALSE]
    /\ held = [c \in Conns |-> {}]
    /\ draining = [c \in Conns |-> {}]
    /\ down = {}
    /\ refusing = FALSE
    /\ stuck = {}
    /\ alive = TRUE

Client(c) == Connect(c) \/ Send(c) \/ Disconnect(c) \/ GoSilent(c)

Request(c) ==
    \/ Hello(c) \/ Answer(c) \/ SkipBlank(c) \/ ReleaseAllInput(c) \/ TooLarge(c)
    \/ \E i \in Inputs : Press(c, i) \/ Lift(c, i)

Task(c) ==
    \/ Accept(c) \/ Request(c) \/ ReleaseDone(c)
    \/ ReplyWritten(c) \/ ReplyFails(c) \/ ReadEnds(c)
    \/ \E i \in Inputs : ReleaseOne(c, i)

Next ==
    \/ \E c \in Conns : Client(c) \/ Task(c)
    \/ DesktopChangesMind \/ AgentKilled \/ AgentStarted

\* The runtime schedules every task that can run; clients promise nothing.
Spec == Init /\ [][Next]_vars /\ \A c \in Conns : WF_vars(Task(c))

-----------------------------------------------------------------------------
(* Properties                                                              *)

TypeOK ==
    /\ link \in [Conns -> Links]
    /\ pending \in [Conns -> 0 .. MaxPending]
    /\ stage \in [Conns -> Stages]
    /\ auth \in [Conns -> BOOLEAN]
    /\ held \in [Conns -> SUBSET Inputs]
    /\ draining \in [Conns -> SUBSET Inputs]
    /\ down \subseteq Inputs
    /\ refusing \in BOOLEAN
    /\ stuck \subseteq Inputs
    /\ alive \in BOOLEAN

\* "Every key and button currently held by this session" is tracked
\* (agent/src/ipc.rs:157-160): whatever the desktop sees pressed is held by
\* some session, or about to be released by one, or the desktop refused to
\* release it, or the agent that pressed it was killed.  Sessions share the
\* desktop, fail and end in any order.
Accounted ==
    \A i \in down : i \in stuck \/ \E c \in Conns : i \in held[c] \cup draining[c]

\* A task that ended, on whatever path out of its loop, has released what its
\* session held, and only an authenticated session that is being served holds
\* anything (agent/src/ipc.rs:193-218, pipe.rs:94-98, tcp.rs:101-106).
OnlyServedSessionsHold ==
    \A c \in Conns :
        /\ stage[c] \in {"none", "ended"} => held[c] = {} /\ draining[c] = {}
        /\ ~auth[c] => held[c] = {} /\ draining[c] = {}

\* As long as this agent served no other connection, a session's books are exact:
\* what it is thought to hold is pressed, also when the desktop refuses some of
\* the injections in between (agent/src/ipc.rs:234-258).
HeldIsDown ==
    \A c \in Conns :
        (\A d \in Conns \ {c} : stage[d] = "none")
          => (held[c] \cup draining[c]) \ Unmapped \subseteq down

\* "A crash of the desktop app can never leave a modifier stuck on the source
\* machine" (agent/src/pipe.rs:5-6): once every client has closed or crashed,
\* nothing stays pressed unless another one connects.  It takes an agent that
\* lives and a desktop that accepts the releases.
ClosedLetsGo ==
    LET NoClient == \A c \in Conns : link[c] \in {"none", "closed"} IN
    [](alive /\ ~refusing) => (NoClient ~> down = {} \/ ~NoClient)

\* "However the peer went away - clean disconnect, crash, or cable pull -
\* anything it was holding must be released" (agent/src/tcp.rs:101-102).
SilentLetsGo == (\A c \in Conns : link[c] = "silent") ~> down = {}
=============================================================================
