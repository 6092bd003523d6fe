------------------------- MODULE AgentSessionProofs -------------------------
(***************************************************************************)
(* What the agent's sessions hold, for any number of connections, buttons  *)
(* and keys, whatever clients, network and desktop do.                     *)
(***************************************************************************)
EXTENDS AgentSession, TLAPS

\* Where a task may have inputs pressed, and where inputs taken out for
\* release: release_all empties the held sets before it injects, and leaves
\* its loop with nothing taken out.
ReleasePhases ==
    \A c \in Conns :
        /\ stage[c] \notin {"release", "close"} => draining[c] = {}
        /\ stage[c] \notin {"read", "reply"} => held[c] = {}

-----------------------------------------------------------------------------
LEMMA PendingBound == MaxPending \in Nat /\ MaxPending > 0
  BY InputAssumption DEF InputAssumption

LEMMA InitType == Init => TypeOK
  <1> SUFFICES ASSUME Init PROVE TypeOK
    OBVIOUS
  <1>1. pending \in [Conns -> 0 .. MaxPending] /\ alive \in BOOLEAN
    BY PendingBound DEF Init
  <1>2. link \in [Conns -> Links] /\ stage \in [Conns -> Stages]
    BY DEF Init, Links, Stages
  <1>3. auth \in [Conns -> BOOLEAN] /\ refusing \in BOOLEAN
    BY DEF Init
  <1>4. held \in [Conns -> SUBSET Inputs] /\ draining \in [Conns -> SUBSET Inputs]
    BY DEF Init
  <1>5. QED
    BY <1>1, <1>2, <1>3, <1>4 DEF Init, TypeOK

LEMMA StepType == TypeOK /\ [Next]_vars => TypeOK'
  <1> SUFFICES ASSUME TypeOK, [Next]_vars PROVE TypeOK'
    OBVIOUS
  <1> USE DEF TypeOK, Links, Stages
  <1>1. CASE UNCHANGED vars
    BY <1>1 DEF vars, session, desktop
  <1>2. CASE DesktopChangesMind \/ AgentKilled \/ AgentStarted
    <2>1. CASE DesktopChangesMind \/ AgentStarted
      BY <2>1 DEF DesktopChangesMind, AgentStarted, session, desktop
    <2>2. CASE AgentKilled
      <3>1. pending' \in [Conns -> 0 .. MaxPending] /\ link' \in [Conns -> Links]
        BY <2>2, PendingBound DEF AgentKilled
      <3>2. stage' \in [Conns -> Stages] /\ auth' \in [Conns -> BOOLEAN]
        BY <2>2 DEF AgentKilled
      <3>3. held' \in [Conns -> SUBSET Inputs] /\ draining' \in [Conns -> SUBSET Inputs]
        BY <2>2 DEF AgentKilled
      <3>4. QED
        BY <2>2, <3>1, <3>2, <3>3 DEF AgentKilled
    <2>3. QED
      BY <1>2, <2>1, <2>2
  <1>3. ASSUME NEW c \in Conns, Client(c) PROVE TypeOK'
    <2>1. CASE Connect(c)
      BY <2>1, PendingBound DEF Connect, session, desktop
    <2>2. CASE Send(c)
      BY <2>2, PendingBound DEF Send, session, desktop
    <2>3. CASE Disconnect(c) \/ GoSilent(c)
      BY <2>3 DEF Disconnect, GoSilent, session, desktop
    <2>4. QED
      BY <1>3, <2>1, <2>2, <2>3 DEF Client
  <1>4. ASSUME NEW c \in Conns, Task(c) PROVE TypeOK'
    <2>0. Reads(c) => pending' \in [Conns -> 0 .. MaxPending]
      BY PendingBound DEF Reads
    <2>1. CASE Accept(c)
      BY <2>1 DEF Accept, desktop
    <2>2. CASE Hello(c) \/ Answer(c) \/ SkipBlank(c)
      BY <2>0, <2>2 DEF Hello, Answer, SkipBlank, Reads, Replies, session, desktop
    <2>3. CASE ReleaseAllInput(c) \/ TooLarge(c)
      BY <2>0, <2>3 DEF ReleaseAllInput, TooLarge, Reads, Drain, desktop
    <2>4. CASE ReplyFails(c) \/ ReadEnds(c)
      BY <2>4 DEF ReplyFails, ReadEnds, Drain, desktop
    <2>5. CASE ReleaseDone(c) \/ ReplyWritten(c)
      BY <2>5 DEF ReleaseDone, ReplyWritten, Replies, session, desktop
    <2>6. ASSUME NEW i \in Inputs, Press(c, i) \/ Lift(c, i) PROVE TypeOK'
      <3>1. pending' \in [Conns -> 0 .. MaxPending] /\ link' = link /\ alive' = alive
        BY <2>0, <2>6 DEF Press, Lift, Reads
      <3>2. CASE Press(c, i)
        BY <3>1, <3>2 DEF Press, Refuses, Pressed, Replies
      <3>3. CASE Lift(c, i)
        BY <3>1, <3>3 DEF Lift, Refuses, Lifted, Replies
      <3>4. QED
        BY <2>6, <3>2, <3>3
    <2>7. ASSUME NEW i \in Inputs, ReleaseOne(c, i) PROVE TypeOK'
      BY <2>7 DEF ReleaseOne, Refuses, Lifted
    <2>8. QED
      BY <1>4, <2>1, <2>2, <2>3, <2>4, <2>5, <2>6, <2>7 DEF Task, Request
  <1>5. QED
    BY <1>1, <1>2, <1>3, <1>4 DEF Next

\* Every variable keeps its type, and no task reads a request that was not
\* sent: pending never falls below zero.
THEOREM TypeCorrect == Spec => []TypeOK
  BY InitType, StepType, PTL DEF Spec

-----------------------------------------------------------------------------
LEMMA StepReleasePhases == TypeOK /\ ReleasePhases /\ [Next]_vars => ReleasePhases'
  <1> SUFFICES ASSUME TypeOK, ReleasePhases, [Next]_vars PROVE ReleasePhases'
    OBVIOUS
  <1> USE DEF TypeOK, ReleasePhases
  <1>1. CASE UNCHANGED vars
    BY <1>1 DEF vars
  <1>2. CASE DesktopChangesMind \/ AgentKilled \/ AgentStarted
    BY <1>2 DEF DesktopChangesMind, AgentKilled, AgentStarted, session
  <1>3. ASSUME NEW c \in Conns, Client(c) PROVE ReleasePhases'
    BY <1>3 DEF Client, Connect, Send, Disconnect, GoSilent, session
  <1>4. ASSUME NEW c \in Conns, Task(c) PROVE ReleasePhases'
    <2>1. CASE Accept(c)
      BY <2>1 DEF Accept
    <2>2. CASE Hello(c) \/ Answer(c) \/ SkipBlank(c)
      BY <2>2 DEF Hello, Answer, SkipBlank, Reads, Replies, session
    <2>3. CASE ReleaseAllInput(c) \/ TooLarge(c)
      BY <2>3 DEF ReleaseAllInput, TooLarge, Reads, Drain
    <2>4. CASE ReplyFails(c) \/ ReadEnds(c)
      BY <2>4 DEF ReplyFails, ReadEnds, Drain
    <2>5. CASE ReleaseDone(c) \/ ReplyWritten(c)
      BY <2>5 DEF ReleaseDone, ReplyWritten, Replies, session
    <2>6. ASSUME NEW i \in Inputs, Press(c, i) \/ Lift(c, i) PROVE ReleasePhases'
      BY <2>6 DEF Press, Lift, Reads, Replies
    <2>7. ASSUME NEW i \in Inputs, ReleaseOne(c, i) PROVE ReleasePhases'
      BY <2>7 DEF ReleaseOne
    <2>8. QED
      BY <1>4, <2>1, <2>2, <2>3, <2>4, <2>5, <2>6, <2>7 DEF Task, Request
  <1>5. QED
    BY <1>1, <1>2, <1>3, <1>4 DEF Next

\* Outside release_all nothing is taken out, and while it runs nothing is held.
LEMMA PhasesInvariant == Spec => []ReleasePhases
  <1>1. Init => ReleasePhases
    BY DEF Init, ReleasePhases
  <1>2. QED
    BY <1>1, TypeCorrect, StepReleasePhases, PTL DEF Spec

-----------------------------------------------------------------------------
LEMMA StepAccounted ==
    TypeOK /\ ReleasePhases /\ Accounted /\ [Next]_vars => Accounted'
  <1> SUFFICES ASSUME TypeOK, ReleasePhases, Accounted, [Next]_vars,
                      NEW j \in down'
               PROVE  j \in stuck' \/ \E d \in Conns : j \in held'[d] \cup draining'[d]
    BY DEF Accounted
  <1>0. j \in down => \/ j \in stuck
                     \/ \E d \in Conns : j \in held[d] \cup draining[d]
    BY DEF Accounted
  <1> USE DEF TypeOK, ReleasePhases
  <1>1. CASE UNCHANGED vars
    BY <1>0, <1>1 DEF vars
  <1>2. CASE DesktopChangesMind \/ AgentKilled \/ AgentStarted
    BY <1>0, <1>2 DEF DesktopChangesMind, AgentKilled, AgentStarted, session, desktop
  <1>3. ASSUME NEW c \in Conns, Client(c)
        PROVE  j \in stuck' \/ \E d \in Conns : j \in held'[d] \cup draining'[d]
    BY <1>0, <1>3 DEF Client, Connect, Send, Disconnect, GoSilent, session, desktop
  <1>4. ASSUME NEW c \in Conns, Task(c)
        PROVE  j \in stuck' \/ \E d \in Conns : j \in held'[d] \cup draining'[d]
    <2>1. CASE Accept(c)
      BY <1>0, <2>1 DEF Accept, desktop
    <2>2. CASE Hello(c) \/ Answer(c) \/ SkipBlank(c)
      BY <1>0, <2>2 DEF Hello, Answer, SkipBlank, Reads, Replies, session, desktop
    <2>3. CASE ReleaseAllInput(c) \/ TooLarge(c)
      BY <1>0, <2>3 DEF ReleaseAllInput, TooLarge, Reads, Drain, desktop
    <2>4. CASE ReplyFails(c) \/ ReadEnds(c)
      BY <1>0, <2>4 DEF ReplyFails, ReadEnds, Drain, desktop
    <2>5. CASE ReleaseDone(c) \/ ReplyWritten(c)
      BY <1>0, <2>5 DEF ReleaseDone, ReplyWritten, Replies, session, desktop
    <2>6. ASSUME NEW i \in Inputs, Press(c, i)
          PROVE  j \in stuck' \/ \E d \in Conns : j \in held'[d] \cup draining'[d]
      BY <1>0, <2>6 DEF Press, Refuses, Pressed
    <2>7. ASSUME NEW i \in Inputs, Lift(c, i)
          PROVE  j \in stuck' \/ \E d \in Conns : j \in held'[d] \cup draining'[d]
      BY <1>0, <2>7 DEF Lift, Refuses, Lifted
    <2>8. ASSUME NEW i \in Inputs, ReleaseOne(c, i)
          PROVE  j \in stuck' \/ \E d \in Conns : j \in held'[d] \cup draining'[d]
      BY <1>0, <2>8 DEF ReleaseOne, Refuses, Lifted
    <2>9. QED
      BY <1>4, <2>1, <2>2, <2>3, <2>4, <2>5, <2>6, <2>7, <2>8 DEF Task, Request
  <1>5. QED
    BY <1>1, <1>2, <1>3, <1>4 DEF Next

\* Whatever the desktop sees pressed is held by some session, about to be
\* released by one, or its release was refused or its agent killed
\* (agent/src/ipc.rs:157-160, 269-280), for any number of concurrent sessions.
THEOREM AccountedCorrect == Spec => []Accounted
  <1>1. Init => Accounted
    BY DEF Init, Accounted
  <1>2. QED
    BY <1>1, TypeCorrect, PhasesInvariant, StepAccounted, PTL DEF Spec

-----------------------------------------------------------------------------
LEMMA StepServed ==
    TypeOK /\ ReleasePhases /\ OnlyServedSessionsHold /\ [Next]_vars
      => OnlyServedSessionsHold'
  <1> SUFFICES ASSUME TypeOK, ReleasePhases, OnlyServedSessionsHold, [Next]_vars
               PROVE  OnlyServedSessionsHold'
    OBVIOUS
  <1> USE DEF TypeOK, ReleasePhases, OnlyServedSessionsHold
  <1>1. CASE UNCHANGED vars
    BY <1>1 DEF vars
  <1>2. CASE DesktopChangesMind \/ AgentKilled \/ AgentStarted
    BY <1>2 DEF DesktopChangesMind, AgentKilled, AgentStarted, session
  <1>3. ASSUME NEW c \in Conns, Client(c) PROVE OnlyServedSessionsHold'
    BY <1>3 DEF Client, Connect, Send, Disconnect, GoSilent, session
  <1>4. ASSUME NEW c \in Conns, Task(c) PROVE OnlyServedSessionsHold'
    <2>1. CASE Accept(c)
      BY <2>1 DEF Accept
    <2>2. CASE Hello(c) \/ Answer(c) \/ SkipBlank(c)
      BY <2>2 DEF Hello, Answer, SkipBlank, Reads, Replies, session
    <2>3. CASE ReleaseAllInput(c) \/ TooLarge(c)
      BY <2>3 DEF ReleaseAllInput, TooLarge, Reads, Drain
    <2>4. CASE ReplyFails(c) \/ ReadEnds(c)
      BY <2>4 DEF ReplyFails, ReadEnds, Drain
    <2>5. CASE ReleaseDone(c) \/ ReplyWritten(c)
      BY <2>5 DEF ReleaseDone, ReplyWritten, Replies, session
    <2>6. ASSUME NEW i \in Inputs, Press(c, i) \/ Lift(c, i)
          PROVE  OnlyServedSessionsHold'
      BY <2>6 DEF Press, Lift, Reads, Replies
    <2>7. ASSUME NEW i \in Inputs, ReleaseOne(c, i) PROVE OnlyServedSessionsHold'
      BY <2>7 DEF ReleaseOne
    <2>8. QED
      BY <1>4, <2>1, <2>2, <2>3, <2>4, <2>5, <2>6, <2>7 DEF Task, Request
  <1>5. QED
    BY <1>1, <1>2, <1>3, <1>4 DEF Next

\* Every path out of the connection loop has released what the session held
\* before the task ends, and no request before Hello presses anything
\* (agent/src/ipc.rs:193-218, pipe.rs:94-98, tcp.rs:101-106).
THEOREM ServedCorrect == Spec => []OnlyServedSessionsHold
  <1>1. Init => OnlyServedSessionsHold
    BY DEF Init, OnlyServedSessionsHold
  <1>2. QED
    BY <1>1, TypeCorrect, PhasesInvariant, StepServed, PTL DEF Spec

-----------------------------------------------------------------------------
\* The books of a session that is the only one served stay exact.
LEMMA StepHeld ==
    TypeOK /\ ReleasePhases /\ HeldIsDown /\ [Next]_vars => HeldIsDown'
  <1> SUFFICES ASSUME TypeOK, ReleasePhases, HeldIsDown, [Next]_vars, NEW e \in Conns,
                      \A d \in Conns \ {e} : stage'[d] = "none"
               PROVE  (held'[e] \cup draining'[e]) \ Unmapped \subseteq down'
    BY DEF HeldIsDown
  <1> DEFINE Exact == (held'[e] \cup draining'[e]) \ Unmapped \subseteq down'
  <1>a. (\A d \in Conns \ {e} : stage[d] = "none")
          => (held[e] \cup draining[e]) \ Unmapped \subseteq down
    BY DEF HeldIsDown
  <1> USE DEF TypeOK, ReleasePhases
  <1>1. CASE UNCHANGED vars
    BY <1>a, <1>1 DEF vars
  <1>2. CASE DesktopChangesMind \/ AgentKilled \/ AgentStarted
    BY <1>a, <1>2 DEF DesktopChangesMind, AgentKilled, AgentStarted, session, desktop
  <1>3. ASSUME NEW c \in Conns, Client(c) PROVE Exact
    BY <1>a, <1>3 DEF Client, Connect, Send, Disconnect, GoSilent, session, desktop
  <1>4. ASSUME NEW c \in Conns, Task(c) PROVE Exact
    <2>0. stage'[c] # "none"
      BY <1>4 DEF Task, Request, Accept, Hello, Answer, SkipBlank, ReleaseAllInput,
                  TooLarge, Press, Lift, Reads, Replies, Drain, ReplyFails, ReadEnds,
                  ReleaseDone, ReplyWritten, ReleaseOne, session
    <2>c. c = e
      BY <2>0
    <2>x. \A d \in Conns \ {e} : stage[d] = "none"
      BY <1>4, <2>c DEF Task, Request, Accept, Hello, Answer, SkipBlank, ReleaseAllInput,
                  TooLarge, Press, Lift, Reads, Replies, Drain, ReplyFails, ReadEnds,
                  ReleaseDone, ReplyWritten, ReleaseOne, session
    <2>b. (held[e] \cup draining[e]) \ Unmapped \subseteq down
      BY <1>a, <2>x
    <2>1. CASE Accept(c)
      BY <2>b, <2>c, <2>1 DEF Accept, desktop
    <2>2. CASE Hello(c) \/ Answer(c) \/ SkipBlank(c)
      BY <2>b, <2>c, <2>2 DEF Hello, Answer, SkipBlank, Reads, Replies, session, desktop
    <2>3. CASE ReleaseAllInput(c) \/ TooLarge(c)
      BY <2>b, <2>c, <2>3 DEF ReleaseAllInput, TooLarge, Reads, Drain, desktop
    <2>4. CASE ReplyFails(c) \/ ReadEnds(c)
      BY <2>b, <2>c, <2>4 DEF ReplyFails, ReadEnds, Drain, desktop
    <2>5. CASE ReleaseDone(c) \/ ReplyWritten(c)
      BY <2>b, <2>c, <2>5 DEF ReleaseDone, ReplyWritten, Replies, session, desktop
    <2>6. ASSUME NEW i \in Inputs, Press(c, i) PROVE Exact
      BY <2>b, <2>c, <2>6 DEF Press, Refuses, Pressed
    <2>7. ASSUME NEW i \in Inputs, Lift(c, i) PROVE Exact
      BY <2>b, <2>c, <2>7 DEF Lift, Refuses, Lifted, Reads
    <2>8. ASSUME NEW i \in Inputs, ReleaseOne(c, i) PROVE Exact
      BY <2>b, <2>c, <2>8 DEF ReleaseOne, Refuses, Lifted
    <2>9. QED
      BY <1>4, <2>1, <2>2, <2>3, <2>4, <2>5, <2>6, <2>7, <2>8 DEF Task, Request
  <1>5. QED
    BY <1>1, <1>2, <1>3, <1>4 DEF Next

\* What a session thinks it holds is pressed, also when the desktop refuses
\* injections in between (agent/src/ipc.rs:234-258), as long as this agent
\* serves no other connection.  With two served it is not: one session's
\* release lifts what the other holds.
THEOREM HeldCorrect == Spec => []HeldIsDown
  <1>1. Init => HeldIsDown
    BY DEF Init, HeldIsDown
  <1>2. QED
    BY <1>1, TypeCorrect, PhasesInvariant, StepHeld, PTL DEF Spec

-----------------------------------------------------------------------------
\* An agent that runs on leaves nothing behind that is not refused.
LEMMA StepNothingStuck ==
    ASSUME [Next]_vars, alive', ~refusing, stuck = {}
    PROVE  stuck' = {}
  <1>1. CASE UNCHANGED vars
    BY <1>1 DEF vars
  <1>2. CASE DesktopChangesMind \/ AgentKilled \/ AgentStarted
    BY <1>2 DEF DesktopChangesMind, AgentKilled, AgentStarted, desktop
  <1>3. ASSUME NEW c \in Conns, Client(c) PROVE stuck' = {}
    BY <1>3 DEF Client, Connect, Send, Disconnect, GoSilent, desktop
  <1>4. ASSUME NEW c \in Conns, Task(c) PROVE stuck' = {}
    <2>1. CASE Accept(c) \/ ReleaseDone(c) \/ ReplyWritten(c) \/ ReplyFails(c) \/ ReadEnds(c)
      BY <2>1 DEF Accept, ReleaseDone, ReplyWritten, ReplyFails, ReadEnds, Drain, desktop
    <2>2. CASE Request(c)
      BY <2>2 DEF Request, Hello, Answer, SkipBlank, ReleaseAllInput, TooLarge, Press, Lift,
                  Drain, desktop
    <2>3. ASSUME NEW i \in Inputs, ReleaseOne(c, i) PROVE stuck' = {}
      BY <2>3 DEF ReleaseOne, Refuses
    <2>4. QED
      BY <1>4, <2>1, <2>2, <2>3 DEF Task
  <1>5. QED
    BY <1>1, <1>2, <1>3, <1>4 DEF Next

\* "A crash of the desktop app can never leave a modifier stuck on the source
\* machine" (agent/src/pipe.rs:5-6): while the agent runs and no release is
\* refused, nothing is pressed once every task has ended, whatever sessions
\* shared the desktop and in whatever order they failed.  This is the safety
\* of ClosedLetsGo; that every task does end stays with TLC.
THEOREM ClosedCorrect ==
    Spec /\ [](alive /\ ~refusing)
      => []((\A c \in Conns : stage[c] \in {"none", "ended"}) => down = {})
  <1> DEFINE Runs == alive /\ ~refusing
             Clean == stuck = {}
             LetsGo == (\A c \in Conns : stage[c] \in {"none", "ended"}) => down = {}
  <1>1. Init => Clean
    BY DEF Init
  <1>2. Clean /\ Runs /\ Runs' /\ [Next]_vars => Clean'
    BY StepNothingStuck
  <1>3. Clean /\ Accounted /\ OnlyServedSessionsHold => LetsGo
    BY DEF Accounted, OnlyServedSessionsHold
  <1>4. QED
    <2> HIDE DEF Runs, Clean, LetsGo
    <2>1. Spec /\ []Runs => []LetsGo
      BY <1>1, <1>2, <1>3, AccountedCorrect, ServedCorrect, PTL DEF Spec
    <2>2. QED
      BY <2>1 DEF Runs, LetsGo

=============================================================================
