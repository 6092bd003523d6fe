--------------------------- MODULE HandoffProofs ----------------------------
(***************************************************************************)
(* Theorems about Handoff, for every screen, every motion, every backlog   *)
(* and every number of presses.                                            *)
(***************************************************************************)
EXTENDS HandoffHistory, TLAPS

(***************************************************************************)
(* Lemmas on the operators the steps are built from                        *)
(***************************************************************************)

\* Clamping onto a non-empty interval lands in it (handoff.rs:130-131).
LEMMA ClampInRange ==
    ASSUME NEW v \in Int, NEW lo \in Int, NEW hi \in Int, lo <= hi
    PROVE  Clamp(v, lo, hi) \in lo .. hi
  BY DEF Clamp

\* The machine stays a machine under every event (core/src/kvm.rs:110-146).
LEMMA MachineClosed ==
    ASSUME NEW m \in Machine, NEW e \in KvmEvent
    PROVE  On(m, e) \in Machine
  BY DEF On, Release, Machine, KvmState, KvmEvent, Releases

\* "Release is unconditional" (core/src/kvm.rs:10-12): each of the four
\* releasing events ends in Local from every state, armed or not.
LEMMA ReleaseUnconditional ==
    ASSUME NEW m \in Machine, NEW e \in Releases
    PROVE  ~GrabActive(On(m, e)) /\ ~On(m, e).armed
  BY DEF On, Release, Machine, KvmState, Releases, GrabActive

\* The anchor lies on the screen.
LEMMA AnchorOnScreen == Anchor \in Screen
  BY ScreenAssumption DEF Anchor, Screen

(***************************************************************************)
(* Type correctness                                                        *)
(***************************************************************************)

LEMMA InitType == Init => TypeOK
  <1> SUFFICES ASSUME Init PROVE TypeOK
    OBVIOUS
  <1>1. machine \in Machine
    BY DEF Init, NewMachine, Machine, KvmState
  <1>2. remote \in 0 .. RemoteWidth - 1
    BY ScreenAssumption DEF Init
  <1>3. queue \in Seq(MouseEvent)
    BY DEF Init
  <1>4. presses \in Nat /\ dx \in Int /\ cursor \in Screen
    BY DEF Init
  <1>5. grab \in BOOLEAN /\ expired \in BOOLEAN /\ moving \in BOOLEAN
    BY DEF Init
  <1>6. pc \in Points
    BY DEF Init, Points
  <1>7. hand \in HandEvent /\ warp \in WarpStages
    BY DEF Init, NoEvent, HandEvent, WarpStages
  <1>8. QED
    BY <1>1, <1>2, <1>3, <1>4, <1>5, <1>6, <1>7 DEF TypeOK

\* A real event on its way through the hook to the pointer.
LEMMA StepHandType == TypeOK /\ HandStep => TypeOK'
  <1> SUFFICES ASSUME TypeOK, HandStep PROVE TypeOK'
    OBVIOUS
  <1>0. hand.x \in Int /\ hand \in HandEvent /\ NoEvent \in HandEvent
    BY DEF TypeOK, HandEvent, NoEvent
  <1>1. CASE HookDecides
    <2>1. Swallow(FALSE) \in BOOLEAN
      BY DEF Swallow, TypeOK
    <2>2. hand' \in HandEvent
      BY <1>0, <1>1, <2>1 DEF HookDecides, HandEvent
    <2>3. QED
      BY <1>1, <2>2 DEF TypeOK, HookDecides
  <1>2. CASE HookSends
    <2>1. queue' \in Seq(MouseEvent)
      BY <1>0, <1>2 DEF HookSends, TypeOK, MouseEvent
    <2>2. hand' \in HandEvent
      BY <1>0, <1>2 DEF HookSends, HandEvent
    <2>3. QED
      BY <1>2, <2>1, <2>2 DEF TypeOK, HookSends
  <1>3. CASE PointerFollows
    <2>1. Left + Width - 1 \in Int /\ Left <= Left + Width - 1 /\ Left \in Int
      BY ScreenAssumption
    <2>2. cursor' \in Screen
      BY <1>0, <1>3, <2>1, ClampInRange DEF PointerFollows, Screen
    <2>3. QED
      BY <1>0, <1>3, <2>2 DEF TypeOK, PointerFollows
  <1>4. QED
    BY <1>1, <1>2, <1>3 DEF HandStep

\* The driver's warp, on the same way.
LEMMA StepWarpType == TypeOK /\ WarpStep => TypeOK'
  <1> SUFFICES ASSUME TypeOK, WarpStep PROVE TypeOK'
    OBVIOUS
  <1>1. CASE HookSeesWarp
    <2>1. Anchor \in Int
      BY AnchorOnScreen, ScreenAssumption DEF Screen
    <2>2. queue' \in Seq(MouseEvent) /\ warp' \in WarpStages
      BY <1>1, <2>1 DEF HookSeesWarp, TypeOK, MouseEvent, WarpStages
    <2>3. QED
      BY <1>1, <2>2 DEF TypeOK, HookSeesWarp
  <1>2. CASE PointerWarped
    BY <1>2, AnchorOnScreen DEF TypeOK, PointerWarped, WarpStages
  <1>3. QED
    BY <1>1, <1>2 DEF WarpStep

LEMMA StepType == TypeOK /\ [Next]_vars => TypeOK'
  <1> SUFFICES ASSUME TypeOK, [Next]_vars PROVE TypeOK'
    OBVIOUS
  <1> USE DEF Points
  <1>1. CASE CheckDeadline
    BY <1>1 DEF TypeOK, CheckDeadline
  <1>2. CASE PollHotkey
    <2>1. On(machine, "EmergencyRelease") \in Machine
      BY MachineClosed DEF TypeOK, KvmEvent, Releases
    <2>2. QED
      BY <1>2, <2>1 DEF TypeOK, PollHotkey
  <1>3. CASE QueueDrained
    BY <1>3 DEF TypeOK, QueueDrained
  <1>4. CASE SkipInjected
    BY <1>4 DEF TypeOK, SkipInjected
  <1>5. CASE WatchEdge
    <2> DEFINE event == IF AtRightEdge(Head(queue).x) THEN "EdgeReached" ELSE "EdgeLeft"
    <2>1. On(machine, event) \in Machine
      BY MachineClosed DEF TypeOK, KvmEvent
    <2>2. machine' = On(machine, event) /\ queue' = Tail(queue) /\ queue # <<>>
      BY <1>5 DEF WatchEdge
    <2>3. pc' \in Points /\ remote' \in 0 .. RemoteWidth - 1
      BY <1>5, ScreenAssumption DEF WatchEdge, TypeOK
    <2>4. QED
      BY <1>5, <2>1, <2>2, <2>3 DEF TypeOK, WatchEdge
  <1>6. CASE GrabOn
    BY <1>6 DEF TypeOK, GrabOn
  <1>7. CASE WarpToAnchor
    BY <1>7 DEF TypeOK, WarpToAnchor, SetCursorPosition, WarpStages
  <1>8. CASE Forward
    <2>1. Tail(queue) \in Seq(MouseEvent) /\ Head(queue).x \in Int
      <3>1. queue \in Seq(MouseEvent) /\ queue # <<>>
        BY <1>8 DEF Forward, TypeOK
      <3>2. Head(queue) \in MouseEvent /\ Tail(queue) \in Seq(MouseEvent)
        BY <3>1
      <3>3. QED
        BY <3>2 DEF MouseEvent
    <2>2. queue' \in Seq(MouseEvent) /\ warp' \in WarpStages
      BY <1>8, <2>1 DEF Forward, SetCursorPosition, TypeOK, WarpStages
    <2>3. dx' \in Int
      BY <1>8, <2>1, AnchorOnScreen, ScreenAssumption DEF Forward, Screen
    <2>4. remote' \in 0 .. RemoteWidth - 1
      <3>1. remote + dx' \in Int /\ 0 <= RemoteWidth - 1 /\ RemoteWidth - 1 \in Int
        BY <2>3, ScreenAssumption DEF TypeOK
      <3>2. remote' = Clamp(remote + dx', 0, RemoteWidth - 1)
        BY <1>8 DEF Forward
      <3>3. QED
        BY <3>1, <3>2, ClampInRange
    <2>5. QED
      BY <1>8, <2>2, <2>3, <2>4 DEF TypeOK, Forward
  <1>9. CASE GrabOff
    BY <1>9 DEF TypeOK, GrabOff
  <1>10. CASE Cleanup
    <2>1. On(machine, "PeerEnded") \in Machine
      BY MachineClosed DEF TypeOK, KvmEvent, Releases
    <2>2. QED
      BY <1>10, <2>1 DEF TypeOK, Cleanup
  <1>11. CASE ClearGrab
    BY <1>11 DEF TypeOK, ClearGrab
  <1>12. CASE Connected \/ ConnectFails
    BY <1>12 DEF TypeOK, Connected, ConnectFails
  <1>13. CASE PeerAnswers
    <2>1. On(machine, "ReturnedAcrossEdge") \in Machine
      BY MachineClosed DEF TypeOK, KvmEvent, Releases
    <2>2. QED
      BY <1>13, <2>1 DEF TypeOK, PeerAnswers
  <1>14. CASE PeerLost
    BY <1>14 DEF TypeOK, PeerLost
  <1>15. CASE OperatorMoves
    <2>1. PICK d \in Motion :
            hand' = [stage |-> "proposed", x |-> cursor + d, swallowed |-> FALSE]
      BY <1>15 DEF OperatorMoves
    <2>2. cursor + d \in Int
      BY ScreenAssumption, EnvironmentAssumption DEF TypeOK, Screen
    <2>3. hand' \in HandEvent
      BY <2>1, <2>2 DEF HandEvent
    <2>4. QED
      BY <1>15, <2>3 DEF TypeOK, OperatorMoves
  <1>16. CASE OperatorRests
    BY <1>16 DEF TypeOK, OperatorRests
  <1>17. CASE HotkeyPressed
    BY <1>17 DEF TypeOK, HotkeyPressed
  <1>18. CASE DeadlinePasses
    BY <1>18 DEF TypeOK, DeadlinePasses
  <1>19. CASE Finished \/ UNCHANGED vars
    BY <1>19 DEF TypeOK, Finished, vars
  <1>20. CASE HandStep
    BY <1>20, StepHandType
  <1>21. CASE WarpStep
    BY <1>21, StepWarpType
  <1>22. QED
    BY <1>1, <1>2, <1>3, <1>4, <1>5, <1>6, <1>7, <1>8, <1>9, <1>10, <1>11, <1>12,
       <1>13, <1>14, <1>15, <1>16, <1>17, <1>18, <1>19, <1>20, <1>21
    DEF Next, Driver, Peer, Environment

\* Every reachable state of the driver, its two threads and their
\* environment is well-typed (agent/src/handoff.rs:43-173): the pointer stays
\* on the screen and the remote pointer on the peer's.
THEOREM TypeCorrect == Spec => []TypeOK
  <1>1. QED
    BY InitType, StepType, PTL DEF Spec

(***************************************************************************)
(* The grab flag and the state machine                                     *)
(***************************************************************************)

LEMMA InitPhases == Init => GrabPhases
  BY DEF Init, GrabPhases, GrabAgrees, NewMachine, GrabActive

LEMMA StepPhases == TypeOK /\ GrabPhases /\ [Next]_vars => GrabPhases'
  <1> SUFFICES ASSUME TypeOK, GrabPhases, [Next]_vars PROVE GrabPhases'
    OBVIOUS
  <1> USE DEF GrabPhases, GrabAgrees
  <1>0. machine \in Machine /\ pc \in Points
    BY DEF TypeOK
  <1>1. CASE CheckDeadline
    BY <1>1 DEF CheckDeadline, GrabActive
  <1>2. CASE PollHotkey
    <2>1. ~GrabActive(On(machine, "EmergencyRelease"))
      BY <1>0, ReleaseUnconditional DEF Releases
    <2>2. CASE presses > 0 /\ GrabActive(machine)
      BY <1>2, <2>1, <2>2 DEF PollHotkey, ReleasesControl, GrabActive
    <2>3. CASE ~(presses > 0) \/ ~GrabActive(machine)
      BY <1>2, <2>1, <2>3 DEF PollHotkey, ReleasesControl, GrabActive
    <2>4. QED
      BY <2>2, <2>3
  <1>3. CASE QueueDrained
    BY <1>3 DEF QueueDrained, GrabActive
  <1>4. CASE SkipInjected
    BY <1>4 DEF SkipInjected, GrabActive
  <1>5. CASE WatchEdge
    <2> DEFINE event == IF AtRightEdge(Head(queue).x) THEN "EdgeReached" ELSE "EdgeLeft"
    <2>1. pc = "drain" /\ ~GrabActive(machine) /\ grab' = grab
      BY <1>5 DEF WatchEdge
    <2>2. machine' = On(machine, event)
      BY <1>5 DEF WatchEdge
    <2>3. CASE Captures(machine, event)
      <3>1. pc' = "grabOn"
        BY <1>5, <2>3 DEF WatchEdge
      <3>2. QED
        BY <2>1, <2>2, <2>3, <3>1 DEF Captures, GrabActive
    <2>4. CASE ~Captures(machine, event)
      <3>1. pc' = pc
        BY <1>5, <2>4 DEF WatchEdge
      <3>2. QED
        BY <2>1, <2>2, <2>4, <3>1 DEF Captures, GrabActive
    <2>5. QED
      BY <2>3, <2>4
  <1>6. CASE GrabOn
    BY <1>6 DEF GrabOn, GrabActive
  <1>7. CASE WarpToAnchor
    BY <1>7 DEF WarpToAnchor, GrabActive
  <1>8. CASE Forward
    BY <1>8 DEF Forward, GrabActive
  <1>9. CASE GrabOff
    BY <1>9 DEF GrabOff, GrabActive
  <1>10. CASE Cleanup
    <2>1. ~GrabActive(On(machine, "PeerEnded"))
      BY <1>0, ReleaseUnconditional DEF Releases
    <2>2. QED
      BY <1>10, <2>1 DEF Cleanup, GrabActive
  <1>11. CASE ClearGrab
    BY <1>11 DEF ClearGrab, GrabActive
  <1>12. CASE Connected \/ ConnectFails
    BY <1>12 DEF Connected, ConnectFails, GrabActive
  <1>13. CASE PeerAnswers
    <2>1. ~GrabActive(On(machine, "ReturnedAcrossEdge"))
      BY <1>0, ReleaseUnconditional DEF Releases
    <2>2. pc = "await" /\ grab /\ grab' = grab /\ GrabActive(machine)
      BY <1>13 DEF PeerAnswers
    <2>3. CASE remote <= 0 /\ dx < 0
      BY <1>13, <2>1, <2>2, <2>3 DEF PeerAnswers, ReleasesControl, GrabActive
    <2>4. CASE ~(remote <= 0 /\ dx < 0)
      BY <1>13, <2>2, <2>4 DEF PeerAnswers, GrabActive
    <2>5. QED
      BY <2>3, <2>4
  <1>14. CASE PeerLost
    BY <1>14 DEF PeerLost, GrabActive
  <1>15. CASE Environment \/ HandStep \/ WarpStep
    <2>1. UNCHANGED <<pc, machine, grab>>
      BY <1>15 DEF Environment, OperatorMoves, OperatorRests, HotkeyPressed,
                   DeadlinePasses, HandStep, HookDecides, HookSends, PointerFollows,
                   WarpStep, HookSeesWarp, PointerWarped
    <2>2. QED
      BY <2>1 DEF GrabActive
  <1>16. CASE Finished \/ UNCHANGED vars
    BY <1>16 DEF Finished, vars, GrabActive
  <1>17. QED
    BY <1>1, <1>2, <1>3, <1>4, <1>5, <1>6, <1>7, <1>8, <1>9, <1>10, <1>11, <1>12,
       <1>13, <1>14, <1>15, <1>16
    DEF Next, Driver, Peer

\* At every point of the driver's loop the flag is what the table of phases
\* says (agent/src/handoff.rs:97-165).
THEOREM PhasesCorrect == Spec => []GrabPhases
  <1>1. QED
    BY InitType, InitPhases, StepType, StepPhases, PTL DEF Spec

\* The grab flag never drifts from the machine, and no path out of the
\* session leaves it on (core/src/kvm.rs:96-100, agent/src/handoff.rs:93-94).
THEOREM GrabCorrect == Spec => []GrabAgrees
  <1>1. GrabPhases => GrabAgrees
    BY DEF GrabPhases
  <1>2. QED
    BY <1>1, PhasesCorrect, PTL

(***************************************************************************)
(* The driver implements InputControl                                      *)
(***************************************************************************)

\* Every step of the driver, of the two threads or of the environment is a
\* step of InputControl or leaves control and the grab alone.
LEMMA StepControls ==
    TypeOK /\ GrabPhases /\ [Next]_vars => [Control!CNext]_(Control!cvars)
  <1> SUFFICES ASSUME TypeOK, GrabPhases, [Next]_vars
               PROVE  Control!CNext \/ UNCHANGED <<machine.state, grab>>
    BY DEF Control!cvars
  <1> USE DEF GrabPhases, GrabAgrees
  <1>0. machine \in Machine
    BY DEF TypeOK
  <1>a. GrabActive(machine) <=> machine.state = "Remote"
    BY DEF GrabActive
  <1>b. machine.state \in {"Local", "Remote"}
    BY <1>0 DEF Machine, KvmState
  <1>c. ASSUME NEW e \in Releases PROVE On(machine, e).state = "Local"
    BY <1>0, <1>c, MachineClosed, ReleaseUnconditional DEF GrabActive, Machine, KvmState, KvmEvent
  <1>1. CASE PollHotkey
    <2>1. CASE presses > 0
      <3>1. machine'.state = "Local" /\ grab' = grab
        BY <1>1, <2>1, <1>c DEF PollHotkey, Releases
      <3>2. CASE GrabActive(machine)
        BY <1>1, <1>a, <3>1, <3>2 DEF PollHotkey, Control!CNext, Control!ComeBack
      <3>3. CASE ~GrabActive(machine)
        BY <1>a, <1>b, <3>1, <3>3
      <3>4. QED
        BY <3>2, <3>3
    <2>2. CASE ~(presses > 0)
      BY <1>1, <2>2 DEF PollHotkey
    <2>3. QED
      BY <2>1, <2>2
  <1>2. CASE WatchEdge
    <2>1. machine.state = "Local" /\ ~grab /\ grab' = grab
      BY <1>2, <1>a, <1>b DEF WatchEdge, TypeOK
    <2>2. machine'.state \in {"Local", "Remote"}
      BY <1>2, <1>0, StepType DEF TypeOK, Machine, KvmState
    <2>3. QED
      BY <2>1, <2>2 DEF Control!CNext, Control!HandOver
  <1>3. CASE GrabOn
    BY <1>3, <1>a DEF GrabOn, Control!CNext, Control!TakeGrab
  <1>4. CASE GrabOff
    BY <1>4, <1>a, <1>b DEF GrabOff, Control!CNext, Control!DropGrab
  <1>5. CASE Cleanup
    <2>1. machine'.state = "Local" /\ grab' = grab
      BY <1>5, <1>c DEF Cleanup, Releases
    <2>2. CASE GrabActive(machine)
      BY <1>5, <1>a, <2>1, <2>2 DEF Cleanup, Control!CNext, Control!ComeBack
    <2>3. CASE ~GrabActive(machine)
      BY <1>a, <1>b, <2>1, <2>3
    <2>4. QED
      BY <2>2, <2>3
  <1>6. CASE ClearGrab
    <2>1. machine.state = "Local" /\ UNCHANGED machine /\ grab' = FALSE
      BY <1>6, <1>a, <1>b DEF ClearGrab
    <2>2. grab \in BOOLEAN
      BY DEF TypeOK
    <2>3. QED
      BY <2>1, <2>2 DEF Control!CNext, Control!DropGrab
  <1>7. CASE PeerAnswers
    <2>1. grab /\ GrabActive(machine) /\ grab' = grab
      BY <1>7 DEF PeerAnswers
    <2>2. machine' = machine \/ machine'.state = "Local"
      BY <1>7, <1>c DEF PeerAnswers, Releases
    <2>3. QED
      BY <1>a, <2>1, <2>2 DEF Control!CNext, Control!ComeBack
  <1>8. CASE CheckDeadline \/ QueueDrained \/ SkipInjected \/ WarpToAnchor \/ Forward
    BY <1>8 DEF CheckDeadline, QueueDrained, SkipInjected, WarpToAnchor, Forward
  <1>9. CASE Connected \/ ConnectFails \/ PeerLost
    BY <1>9 DEF Connected, ConnectFails, PeerLost
  <1>10. CASE Environment \/ Finished \/ UNCHANGED vars
    BY <1>10 DEF Environment, OperatorMoves, OperatorRests, HotkeyPressed,
                 DeadlinePasses, Finished, vars
  <1>11. CASE HandStep \/ WarpStep
    BY <1>11 DEF HandStep, HookDecides, HookSends, PointerFollows, WarpStep,
                 HookSeesWarp, PointerWarped
  <1>12. QED
    BY <1>1, <1>2, <1>3, <1>4, <1>5, <1>6, <1>7, <1>8, <1>9, <1>10, <1>11
    DEF Next, Driver, Peer

\* The driver implements the safety half of InputControl: the grab follows
\* the machine, never leads it, and control does not change hands twice while
\* the grab is behind (agent/src/handoff.rs:95-165, core/src/kvm.rs:96-103).
THEOREM ControlImplemented == Spec => Control!CSafety
  <1>1. Init => Control!CInit
    BY DEF Init, NewMachine, Control!CInit
  <1>2. QED
    BY <1>1, TypeCorrect, PhasesCorrect, StepControls, PTL DEF Spec, Control!CSafety

(***************************************************************************)
(* What gets past the flag                                                 *)
(***************************************************************************)

\* The hook has let this event through, or is about to.
LetThrough == hand.stage \in {"decided", "passed"} /\ ~hand.swallowed

\* Whoever has strayed once in a capture has used up the event that was
\* decided on before the flag was set: the inductive invariant behind
\* OneStrayMove.
StraysAccounted ==
    /\ hand.stage = "passed" => ~hand.swallowed
    /\ strays \in {0, 1}
    /\ strays = 1 => grab /\ ~LetThrough

LEMMA StepStrays == TypeOK /\ StraysAccounted /\ [HNext]_hvars => StraysAccounted'
  <1> SUFFICES ASSUME TypeOK, StraysAccounted, [HNext]_hvars PROVE StraysAccounted'
    OBVIOUS
  <1> USE DEF StraysAccounted, LetThrough
  <1>0. hand \in HandEvent /\ grab \in BOOLEAN
    BY DEF TypeOK
  <1>1. CASE UNCHANGED hvars
    BY <1>1 DEF hvars, vars
  <1>2. CASE HNext
    <2>0. strays' = IF ~grab' THEN 0 ELSE IF PointerStrays THEN strays + 1 ELSE strays
      BY <1>2 DEF HNext
    <2>1. CASE UNCHANGED <<cursor, hand>>
      <3>1. ~PointerStrays
        BY <2>1 DEF PointerStrays
      <3>2. QED
        BY <2>0, <2>1, <3>1
    <2>2. CASE OperatorMoves
      <3>1. hand'.stage = "proposed" /\ UNCHANGED <<grab, cursor>>
        BY <2>2 DEF OperatorMoves
      <3>2. QED
        BY <2>0, <3>1 DEF PointerStrays
    <2>3. CASE HookDecides
      <3>1. /\ hand'.stage = "decided" /\ hand'.swallowed = Swallow(FALSE)
            /\ UNCHANGED <<grab, cursor>>
        BY <1>0, <2>3 DEF HookDecides, HandEvent
      <3>2. grab => hand'.swallowed
        BY <3>1 DEF Swallow
      <3>3. QED
        BY <2>0, <3>1, <3>2 DEF PointerStrays
    <2>4. CASE HookSends
      <3>1. UNCHANGED <<grab, cursor>> /\ hand.stage = "decided"
        BY <2>4 DEF HookSends
      <3>2. CASE hand.swallowed
        <4>1. hand'.stage = "none"
          BY <2>4, <3>2 DEF HookSends, NoEvent
        <4>2. QED
          BY <2>0, <3>1, <4>1 DEF PointerStrays
      <3>3. CASE ~hand.swallowed
        <4>1. hand'.stage = "passed" /\ ~hand'.swallowed
          BY <1>0, <2>4, <3>3 DEF HookSends, HandEvent
        <4>2. QED
          BY <2>0, <3>1, <3>3, <4>1 DEF PointerStrays
      <3>4. QED
        BY <3>2, <3>3
    <2>5. CASE PointerFollows
      <3>1. hand.stage = "passed" /\ hand'.stage = "none" /\ UNCHANGED grab
        BY <2>5 DEF PointerFollows, NoEvent
      <3>2. strays = 0
        BY <3>1
      <3>3. QED
        BY <2>0, <3>1, <3>2 DEF PointerStrays
    <2>6. CASE PointerWarped
      <3>1. cursor' = Anchor /\ UNCHANGED <<grab, hand>>
        BY <2>6 DEF PointerWarped
      <3>2. ~PointerStrays
        BY <3>1 DEF PointerStrays
      <3>3. QED
        BY <2>0, <3>1, <3>2
    <2>7. Next
      BY <1>2 DEF HNext
    <2>8. CASE Driver
      BY <2>1, <2>8 DEF Driver, CheckDeadline, PollHotkey, QueueDrained, SkipInjected,
                  WatchEdge, GrabOn, WarpToAnchor, Forward, GrabOff, Cleanup, ClearGrab
    <2>9. CASE Peer
      BY <2>1, <2>9 DEF Peer, Connected, ConnectFails, PeerAnswers, PeerLost
    <2>10. CASE OperatorRests \/ HotkeyPressed \/ DeadlinePasses \/ HookSeesWarp \/ Finished
      BY <2>1, <2>10 DEF OperatorRests, HotkeyPressed, DeadlinePasses, HookSeesWarp,
                         Finished, vars
    <2>11. QED
      BY <2>2, <2>3, <2>4, <2>5, <2>6, <2>7, <2>8, <2>9, <2>10
      DEF Next, Environment, HandStep, WarpStep
  <1>3. QED
    BY <1>1, <1>2

\* HandoffHistory adds nothing to the behaviours of Handoff.
LEMMA HistoryType == HSpec => []TypeOK
  <1>1. HInit => TypeOK
    BY InitType DEF HInit
  <1>2. TypeOK /\ [HNext]_hvars => TypeOK'
    BY StepType DEF HNext, hvars
  <1>3. QED
    BY <1>1, <1>2, PTL DEF HSpec

\* In every capture at most one move gets past the flag: of an event whose
\* fate the hook had decided before the flag was set, for every motion and
\* whether or not warps are granted (hook.rs:98-119, handoff.rs:119-129).
THEOREM OneStrayCorrect == HSpec => []OneStrayMove
  <1>1. HInit => StraysAccounted
    BY DEF HInit, Init, NoEvent, StraysAccounted
  <1>2. StraysAccounted => OneStrayMove
    BY DEF StraysAccounted, OneStrayMove
  <1>3. QED
    BY <1>1, <1>2, HistoryType, StepStrays, PTL DEF HSpec

(***************************************************************************)
(* No capture follows a release without motion away from the edge          *)
(***************************************************************************)

\* Crossing is armed only if motion away from the edge was received since the
\* last release: the inductive invariant behind CaptureFollowsLeaving.
ArmedAfterLeaving == machine.armed => leftEdge

\* While a step keeps the machine, it keeps the invariant.
LEMMA UnchangedMachine ==
    ASSUME HNext, machine' = machine, ArmedAfterLeaving, leftEdge \in BOOLEAN
    PROVE  ArmedAfterLeaving'
  BY DEF HNext, ArmedAfterLeaving, ControlReleased

LEMMA StepArmed ==
    TypeOK /\ leftEdge \in BOOLEAN /\ ArmedAfterLeaving /\ [HNext]_hvars
      => leftEdge' \in BOOLEAN /\ ArmedAfterLeaving'
  <1> SUFFICES ASSUME TypeOK, leftEdge \in BOOLEAN, ArmedAfterLeaving, [HNext]_hvars
               PROVE  leftEdge' \in BOOLEAN /\ ArmedAfterLeaving'
    OBVIOUS
  <1>0. machine \in Machine
    BY DEF TypeOK
  <1>1. leftEdge' \in BOOLEAN
    BY DEF HNext, hvars
  <1>2. CASE UNCHANGED hvars
    BY <1>1, <1>2 DEF hvars, vars, ArmedAfterLeaving
  <1>3. CASE HNext
    <2>1. CASE \E e \in Releases : machine' = On(machine, e)
      <3>1. ~machine'.armed
        BY <1>0, <2>1, ReleaseUnconditional
      <3>2. QED
        BY <1>1, <3>1 DEF ArmedAfterLeaving
    <2>2. CASE machine' = machine
      BY <1>1, <1>3, <2>2, UnchangedMachine
    <2>3. CASE WatchEdge
      <3>1. pc = "drain" /\ queue # <<>> /\ queue' = Tail(queue)
            /\ ~Head(queue).injected /\ ~GrabActive(machine)
        BY <2>3 DEF WatchEdge
      <3>2. CASE AtRightEdge(Head(queue).x)
        <4>1. machine' = On(machine, "EdgeReached")
          BY <2>3, <3>2 DEF WatchEdge
        <4>2. machine'.armed = machine.armed
          BY <1>0, <4>1 DEF On, Releases, Machine
        <4>3. ~ControlReleased /\ ~OffEdgeReceived
          BY <3>1, <3>2 DEF ControlReleased, OffEdgeReceived
        <4>4. leftEdge' = leftEdge
          BY <1>3, <4>3 DEF HNext
        <4>5. QED
          BY <1>1, <4>2, <4>4 DEF ArmedAfterLeaving
      <3>3. CASE ~AtRightEdge(Head(queue).x)
        <4>1. ~ControlReleased /\ OffEdgeReceived
          BY <3>1, <3>3 DEF ControlReleased, OffEdgeReceived
        <4>2. leftEdge' = TRUE
          BY <1>3, <4>1 DEF HNext
        <4>3. QED
          BY <1>1, <4>2 DEF ArmedAfterLeaving
      <3>4. QED
        BY <3>2, <3>3
    <2>4. \/ \E e \in Releases : machine' = On(machine, e)
          \/ machine' = machine
          \/ WatchEdge
      <3>1. Next
        BY <1>3 DEF HNext
      <3>2. CASE Driver
        BY <3>2 DEF Driver, Releases, CheckDeadline, PollHotkey, QueueDrained,
                    SkipInjected, GrabOn, WarpToAnchor, Forward, GrabOff, Cleanup,
                    ClearGrab
      <3>3. CASE Peer
        BY <3>3 DEF Peer, Releases, Connected, ConnectFails, PeerAnswers, PeerLost
      <3>4. CASE Environment \/ Finished
        BY <3>4 DEF Environment, OperatorMoves, OperatorRests, HotkeyPressed,
                    DeadlinePasses, Finished, vars
      <3>5. CASE HandStep \/ WarpStep
        BY <3>5 DEF HandStep, HookDecides, HookSends, PointerFollows, WarpStep,
                    HookSeesWarp, PointerWarped
      <3>6. QED
        BY <3>1, <3>2, <3>3, <3>4, <3>5 DEF Next
    <2>5. QED
      BY <2>1, <2>2, <2>3, <2>4
  <1>4. QED
    BY <1>2, <1>3

\* Only an armed machine is captured, and only WatchEdge captures.
LEMMA CaptureNeedsArmed ==
    ASSUME NEW m \in Machine, NEW e \in KvmEvent,
           ~GrabActive(m), GrabActive(On(m, e))
    PROVE  m.armed
  BY DEF On, Release, Machine, KvmState, KvmEvent, Releases, GrabActive

\* "Crossing stays disarmed until the pointer leaves" (core/src/kvm.rs:13-16),
\* whatever the hook had queued when control came back and whether or not the
\* OS granted the warps: every capture is preceded, since the last release,
\* by a real event away from the edge.
THEOREM CaptureCorrect == HSpec => CaptureFollowsLeaving
  <1> DEFINE Armed == TypeOK /\ leftEdge \in BOOLEAN /\ ArmedAfterLeaving
             Good == ControlTaken => leftEdge
  <1>1. HInit => Armed
    BY InitType DEF HInit, ArmedAfterLeaving
  <1>2. Armed /\ [HNext]_hvars => Armed'
    BY StepType, StepArmed DEF HNext, hvars
  <1>3. Armed /\ [HNext]_hvars => [Good]_hvars
    <2> SUFFICES ASSUME Armed, HNext, ControlTaken PROVE leftEdge
      BY DEF hvars
    <2>0. machine \in Machine /\ Next
      BY DEF TypeOK, HNext
    <2>1. \E e \in KvmEvent : machine' = On(machine, e)
      <3>1. CASE Driver
        BY <3>1 DEF Driver, KvmEvent, Releases, ControlTaken, GrabActive, CheckDeadline,
                    PollHotkey, QueueDrained, SkipInjected, WatchEdge, GrabOn,
                    WarpToAnchor, Forward, GrabOff, Cleanup, ClearGrab
      <3>2. CASE Peer
        BY <3>2 DEF Peer, KvmEvent, Releases, ControlTaken, GrabActive, Connected,
                    ConnectFails, PeerAnswers, PeerLost
      <3>3. CASE Environment \/ Finished
        BY <3>3 DEF Environment, OperatorMoves, OperatorRests, HotkeyPressed,
                    DeadlinePasses, Finished, vars, ControlTaken, GrabActive
      <3>4. CASE HandStep \/ WarpStep
        BY <3>4 DEF HandStep, HookDecides, HookSends, PointerFollows, WarpStep,
                    HookSeesWarp, PointerWarped, ControlTaken, GrabActive
      <3>5. QED
        BY <2>0, <3>1, <3>2, <3>3, <3>4 DEF Next
    <2>2. machine.armed
      BY <2>0, <2>1, CaptureNeedsArmed DEF ControlTaken
    <2>3. QED
      BY <2>2 DEF ArmedAfterLeaving
  <1> HIDE DEF Armed, Good
  <1>4. HSpec => [][Good]_hvars
    BY <1>1, <1>2, <1>3, PTL DEF HSpec
  <1>5. QED
    BY <1>4 DEF CaptureFollowsLeaving, Good

=============================================================================
