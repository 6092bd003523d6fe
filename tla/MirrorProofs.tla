---------------------------- MODULE MirrorProofs ----------------------------
(***************************************************************************)
(* Proofs about Coordinates and Mirror, for screens, hands and squares of  *)
(* any size.                                                               *)
(***************************************************************************)
EXTENDS Mirror, SequenceTheorems, TLAPS

(***************************************************************************)
(* The map                                                                 *)
(***************************************************************************)

\* A product below to * from is divided to less than to, and not below 0.
LEMMA QuotientRange ==
    ASSUME NEW pos \in Nat, NEW from \in Nat, NEW to \in Nat, 0 < pos, pos < from, 0 < to
    PROVE  /\ (pos * to) \div from \in 0 .. to - 1
           /\ (pos * to) % from = 0 => (pos * to) \div from >= 1
  <1> DEFINE p == pos * to
             q == p \div from
             r == p % from
  <1>1. p \in Nat /\ p > 0
    BY Z3
  <1>2. p < from * to
    BY Z3
  <1> HIDE DEF p
  <1>3. q \in Int /\ r \in 0 .. from - 1 /\ p = from * q + r
    BY <1>1, Z3
  <1> HIDE DEF q, r
  <1>4. q < to
    <2>1. SUFFICES ASSUME q >= to PROVE FALSE
      BY <1>3
    <2>2. from * q >= from * to
      BY <1>3, <2>1, Z3
    <2>3. QED
      BY <1>1, <1>2, <1>3, <2>2, Z3
  <1>5. q >= 0
    <2>1. SUFFICES ASSUME q <= -1 PROVE FALSE
      BY <1>3
    <2>2. from * q <= -from
      BY <1>3, <2>1, Z3
    <2>3. QED
      BY <1>1, <1>3, <2>2
  <1>6. r = 0 => q # 0
    BY <1>1, <1>3, Z3
  <1>7. QED
    BY <1>3, <1>4, <1>5, <1>6 DEF p, q, r

\* Whatever the sizes, the pointer's place and the rounding, the mapped
\* position is on the peer's screen or one pixel beyond it.
LEMMA MapRange ==
    ASSUME NEW pos \in Int, NEW from \in Nat \ {0}, NEW to \in Nat \ {0}, NEW short \in BOOLEAN
    PROVE  MapEdgeCrossing(pos, from, to, short) \in 0 .. to
  <1>1. CASE pos <= 0 \/ pos >= from
    BY <1>1 DEF MapEdgeCrossing
  <1>2. CASE pos > 0 /\ pos < from
    <2> DEFINE q == (pos * to) \div from
               whole == (pos * to) % from = 0
    <2>1. q \in 0 .. to - 1 /\ (whole => q >= 1)
      BY <1>2, QuotientRange
    <2>2. MapEdgeCrossing(pos, from, to, short) = IF short /\ whole THEN q - 1 ELSE q
      BY <1>2 DEF MapEdgeCrossing
    <2> HIDE DEF q, whole
    <2>3. QED
      BY <2>1, <2>2
  <1>3. QED
    BY <1>1, <1>2

LEMMA MappedRange == ASSUME NEW x \in Hands PROVE Mapped(x) \in 0 .. RemoteWidth
  <1>1. (x \in Short) \in BOOLEAN /\ x \in Int
    BY WidthAssumption
  <1>2. QED
    BY <1>1, MapRange, WidthAssumption DEF Mapped

(***************************************************************************)
(* Types                                                                   *)
(***************************************************************************)

\* TypeOK is not inductive: that the demo has a corner left while it waits for
\* an answer keeps its walk a sequence.
TypeInv == TypeOK /\ (at["demo"] = "await" => walk # <<>>)

LEMMA InitType == Init => TypeInv
  <1> SUFFICES ASSUME Init PROVE TypeInv
    OBVIOUS
  <1>1. Corners \in Seq(Int)
    BY WidthAssumption DEF Corners
  <1>2. "mirror" \in Clients /\ "demo" \in Clients /\ 0 \in 0 .. RemoteWidth
    BY WidthAssumption DEF Clients
  <1>3. at["demo"] = "connect" /\ target["mirror"] = 0
    BY <1>2 DEF Init
  <1>4. /\ at \in [Clients -> {"connect", "run", "await", "done"}]
        /\ target \in [Clients -> Int]
        /\ stage \in [Clients -> {"none", "asked", "ok", "error"} \cup Locks]
    BY DEF Init
  <1>5. walk \in Seq(Int) /\ expired \in BOOLEAN /\ drifted \in BOOLEAN
    BY <1>1 DEF Init
  <1>6. QED
    BY <1>2, <1>3, <1>4, <1>5 DEF Init, TypeInv, TypeOK

LEMMA OnScreenType == ASSUME NEW x \in Int PROVE OnScreen(x) \in Screen
  BY WidthAssumption DEF OnScreen, Between, Screen

LEMMA StepType == TypeInv /\ [Next]_vars => TypeInv'
  <1> SUFFICES ASSUME TypeInv, [Next]_vars PROVE TypeInv'
    OBVIOUS
  <1> USE WidthAssumption DEF TypeInv, TypeOK, clientVars, peerVars
  <1>1. CASE UNCHANGED vars
    BY <1>1 DEF vars
  <1>2. ASSUME NEW c \in Clients, Connect(c) \/ Lost(c) \/ MirrorStops \/ DemoEnds PROVE TypeInv'
    BY <1>2 DEF Connect, Lost, MirrorStops, DemoEnds, Clients
  <1>3. ASSUME NEW c \in Clients, Answer(c) PROVE TypeInv'
    <2>1. walk' \in Seq(Int) /\ last' \in 0 .. RemoteWidth \cup {Unknown}
      <3>1. CASE c = "mirror"
        BY <1>3, <3>1 DEF Answer
      <3>2. CASE c = "demo"
        <4>1. Tail(walk) \in Seq(Int)
          BY <1>3, <3>2, HeadTailProperties DEF Answer
        <4>2. QED
          BY <1>3, <3>2, <4>1 DEF Answer
      <3>3. QED
        BY <3>1, <3>2 DEF Clients
    <2>2. QED
      BY <1>3, <2>1 DEF Answer, Clients
  <1>4. CASE MirrorMoves
    <2>1. Mapped(hand) \in 0 .. RemoteWidth
      BY <1>4, MappedRange DEF MirrorMoves
    <2>2. QED
      BY <1>4, <2>1 DEF MirrorMoves, Send, Clients
  <1>5. CASE DemoMoves
    <2>1. Head(walk) \in Int
      BY <1>5, HeadTailProperties DEF DemoMoves
    <2>2. QED
      BY <1>5, <2>1 DEF DemoMoves, Send, Clients
  <1>6. CASE HandMoves \/ TimeOver
    BY <1>6 DEF HandMoves, TimeOver
  <1>7. CASE PeerMoves
    <2>1. drifted' \in BOOLEAN
      BY <1>7, Zenon DEF PeerMoves
    <2>2. QED
      BY <1>7, <2>1 DEF PeerMoves
  <1>8. ASSUME NEW c \in Clients, Lock(c) PROVE TypeInv'
    BY <1>8 DEF Lock, Locks, Clients
  <1>9. ASSUME NEW c \in Clients, Home(c) PROVE TypeInv'
    <2>1. OnScreen(pointer - HomeDelta) \in Screen
      <3>1. pointer - HomeDelta \in Int
        BY HomeAssumption DEF Screen
      <3>2. QED
        BY <3>1, OnScreenType
    <2>2. QED
      BY <1>9, <2>1 DEF Home, Locks, Clients
  <1>10. ASSUME NEW c \in Clients, Move(c) PROVE TypeInv'
    <2>1. OnScreen(pointer + delta) \in Screen
      <3>1. pointer + delta \in Int
        BY DEF Screen
      <3>2. QED
        BY <3>1, OnScreenType
    <2>2. drifted' \in BOOLEAN
      BY <1>10, Zenon DEF Move
    <2>3. QED
      BY <1>10, <2>1, <2>2 DEF Move, Locks, Clients
  <1>11. ASSUME NEW c \in Clients, Inject(c) PROVE TypeInv'
    <2>0. Pixels(target[c]) \subseteq Screen
      BY DEF Pixels
    <2>1. pointer' \in Screen
      BY <1>11, <2>0 DEF Inject
    <2>2. UNCHANGED <<clientVars, target, peer, belief, delta, drifted>>
      BY <1>11 DEF Inject
    <2>3. stage' \in [Clients -> {"none", "asked", "ok", "error"} \cup Locks]
      BY <1>11 DEF Inject
    <2>4. QED
      BY <2>1, <2>2, <2>3
  <1>12. QED
    BY <1>1, <1>2, <1>3, <1>4, <1>5, <1>6, <1>7, <1>8, <1>9, <1>10, <1>11
       DEF Next, ClientSteps, PeerSteps, Clients

\* Types; kvm_mirror asks for at most the one pixel beyond the screen.
THEOREM TypeCorrect == Spec => []TypeOK
  <1>1. TypeInv => TypeOK
    BY DEF TypeInv
  <1>2. QED
    BY <1>1, InitType, StepType, PTL DEF Spec

(***************************************************************************)
(* Belief and truth                                                        *)
(***************************************************************************)

\* What the lock guarantees, and what a client and the peer know of each other.
Serving ==
    /\ \A c, d \in Clients : stage[c] \in Locks /\ stage[d] \in Locks => c = d
    /\ \A c \in Clients : at[c] \in {"connect", "run"} => stage[c] = "none"
    /\ \A c \in Clients : stage[c] = "homing" => belief = Unknown
    /\ \A c \in Clients : stage[c] = "moving" => belief = target[c]
    /\ peer = "windows" => belief = Unknown /\ \A c \in Clients : stage[c] \notin Locks

BeliefInv == Serving /\ BeliefIsTruth

LEMMA InitBelief == Init => BeliefInv
  BY DEF Init, BeliefInv, Serving, BeliefIsTruth, Locks

LEMMA StepBelief == TypeInv /\ BeliefInv /\ [Next]_vars => BeliefInv'
  <1> SUFFICES ASSUME TypeInv, BeliefInv, [Next]_vars PROVE BeliefInv'
    OBVIOUS
  <1> USE DEF BeliefInv, Serving, BeliefIsTruth, Locks
  <1>0. /\ pointer \in Int /\ 0 <= pointer /\ pointer < PeerWidth /\ delta \in Int
        /\ belief \in Int \cup {Unknown} /\ Unknown \notin Int
        /\ target \in [Clients -> Int] /\ DOMAIN stage = Clients /\ DOMAIN at = Clients
        /\ PeerWidth \in Nat \ {0} /\ HomeDelta \in Nat /\ HomeDelta >= PeerWidth
        /\ drifted \in BOOLEAN /\ peer \in {"portal", "windows"}
    BY WidthAssumption, HomeAssumption DEF TypeInv, TypeOK, Screen
  <1>1. CASE UNCHANGED <<at, target, stage, peer, belief, delta, pointer, drifted>>
    BY <1>1
  <1>2. ASSUME NEW c \in Clients, Connect(c) \/ Lost(c) PROVE BeliefInv'
    BY <1>0, <1>2 DEF Connect, Lost, peerVars
  <1>3. CASE MirrorStops \/ DemoEnds
    BY <1>0, <1>3 DEF MirrorStops, DemoEnds, peerVars, Clients
  <1>4. ASSUME NEW c \in Clients, NEW x, Send(c, x) PROVE BeliefInv'
    BY <1>0, <1>4 DEF Send, peerVars
  <1>5. ASSUME NEW c \in Clients, Answer(c) PROVE BeliefInv'
    BY <1>0, <1>5 DEF Answer, peerVars
  <1>6. ASSUME NEW c \in Clients, Lock(c) PROVE BeliefInv'
    BY <1>0, <1>6 DEF Lock, clientVars
  <1>7. ASSUME NEW c \in Clients, Home(c) PROVE BeliefInv'
    <2>1. OnScreen(pointer - HomeDelta) = 0
      BY <1>0 DEF OnScreen, Between
    <2>2. QED
      BY <1>0, <1>7, <2>1 DEF Home, clientVars
  <1>8. ASSUME NEW c \in Clients, Move(c) PROVE BeliefInv'
    <2>1. ~drifted => pointer = belief - delta
      BY <1>0, <1>8 DEF Move
    <2>2. target[c] \in Int /\ belief = target[c]
      BY <1>0, <1>8 DEF Move
    <2>3. ~drifted /\ target[c] \in Screen => OnScreen(pointer + delta) = belief
      BY <1>0, <2>1, <2>2 DEF OnScreen, Between, Screen
    <2>4. QED
      BY <1>0, <1>8, <2>2, <2>3 DEF Move, clientVars
  <1>9. ASSUME NEW c \in Clients, Inject(c) PROVE BeliefInv'
    BY <1>0, <1>9 DEF Inject, clientVars
  <1>10. CASE PeerMoves
    BY <1>0, <1>10 DEF PeerMoves, clientVars
  <1>11. CASE HandMoves \/ TimeOver
    BY <1>11 DEF HandMoves, TimeOver, peerVars
  <1>12. QED
    BY <1>1, <1>2, <1>3, <1>4, <1>5, <1>6, <1>7, <1>8, <1>9, <1>10, <1>11
       DEF Next, ClientSteps, PeerSteps, MirrorMoves, DemoMoves, Clients, vars, clientVars, peerVars

\* The injector knows where the pointer is, whoever uses it at the same time.
THEOREM BeliefCorrect == Spec => []BeliefIsTruth
  <1>1. BeliefInv => BeliefIsTruth
    BY DEF BeliefInv
  <1>2. QED
    BY <1>1, InitType, StepType, InitBelief, StepBelief, PTL DEF Spec

(***************************************************************************)
(* The peer's pointer at the hand's place                                  *)
(***************************************************************************)

\* The size on the command line is the peer's, which normalized coordinates can
\* tell apart and an i32 can hold.
SameScreen == RemoteWidth = PeerWidth /\ PeerWidth <= 65536 /\ PeerWidth < Half

\* A number below the divisor is what is left over.
LEMMA SmallRemainder == ASSUME NEW n \in Nat, NEW d \in Nat, n < d PROVE n % d = n
  <1> DEFINE q == n \div d
             r == n % d
  <1>1. q \in Int /\ r \in 0 .. d - 1 /\ n = d * q + r
    BY Z3
  <1> HIDE DEF q, r
  <1>2. ASSUME q >= 1 PROVE FALSE
    <2>1. d * q >= d
      BY <1>1, <1>2, Z3
    <2>2. QED
      BY <1>1, <2>1
  <1>3. ASSUME q <= -1 PROVE FALSE
    <2>1. d * q <= -d
      BY <1>1, <1>3, Z3
    <2>2. QED
      BY <1>1, <2>1
  <1>4. q = 0
    BY <1>1, <1>2, <1>3
  <1>5. QED
    BY <1>1, <1>4 DEF r

\* The quotient of to_absolute_virtual, f being 65535, and what the division
\* leaves over.
LEMMA NormalizedQuotient ==
    ASSUME NEW f \in Nat \ {0}, NEW x \in Nat, NEW d \in Nat \ {0}
    PROVE  /\ (x * f) \div d \in Nat
           /\ \E r \in 0 .. d - 1 : x * f = ((x * f) \div d) * d + r
           /\ x <= d => (x * f) \div d <= f
           /\ x > d => (x * f) \div d >= f
  <1> DEFINE p == x * f
             q == p \div d
             r == p % d
  <1>1. p \in Nat
    BY Z3
  <1>2. (x <= d => p <= d * f) /\ (x > d => p >= d * f) /\ d * f \in Nat
    BY Z3
  <1> HIDE DEF p
  <1>3. q \in Int /\ r \in 0 .. d - 1 /\ p = d * q + r
    BY <1>1, Z3
  <1> HIDE DEF q, r
  <1>4. d * q = q * d /\ d * q \in Int
    BY <1>3, Z3
  <1>5. q >= 0
    <2>1. SUFFICES ASSUME q <= -1 PROVE FALSE
      BY <1>3
    <2>2. d * q <= -d
      BY <1>3, <2>1, Z3
    <2>3. QED
      BY <1>1, <1>3, <2>2
  <1>6. ASSUME x <= d, q >= f + 1 PROVE FALSE
    <2>1. d * q >= d * f + d
      BY <1>3, <1>6, Z3
    <2>2. QED
      BY <1>2, <1>3, <1>4, <1>6, <2>1
  <1>7. ASSUME x > d, q <= f - 1 PROVE FALSE
    <2>1. d * q <= d * f - d
      BY <1>3, <1>7, Z3
    <2>2. QED
      BY <1>2, <1>3, <1>4, <1>7, <2>1
  <1>8. q \in Nat /\ (x <= d => q <= f) /\ (x > d => q >= f) /\ r \in 0 .. d - 1 /\ p = q * d + r
    BY <1>3, <1>4, <1>5, <1>6, <1>7
  <1>9. QED
    <2>1. \E k \in 0 .. d - 1 : p = q * d + k
      BY <1>8, Zenon
    <2>2. QED
      BY <1>8, <2>1, Zenon DEF p, q

\* Less than the distance of two pixels away.
Near(off, f) == -f < off /\ off < f

\* The pixels next to a normalized position m of a screen with w + 1 pixels.
LEMMA NextPixels ==
    ASSUME NEW f \in Nat \ {0}, NEW w \in Nat, w <= f, NEW m \in Int, NEW x \in 0 .. w + 1,
           w = 0 => m = 0,
           w >= 1 /\ x <= w => \E r \in 0 .. w - 1 : x * f = m + r,
           w >= 1 /\ x = w + 1 => m = f * w
    PROVE  /\ \E p \in 0 .. w : Near(p * f - m, f)
           /\ \A p \in 0 .. w : Near(p * f - m, f) => p - x \in {-1, 0}
  <1>1. CASE w = 0
    <2>1. m = 0 /\ x \in {0, 1} /\ 0 * f = 0
      BY <1>1
    <2>2. 0 \in 0 .. w /\ Near(0 * f - m, f)
      BY <1>1, <2>1 DEF Near
    <2>3. ASSUME NEW p \in 0 .. w PROVE p - x \in {-1, 0}
      BY <1>1, <2>1
    <2>4. QED
      BY <2>2, <2>3
  <1>2. CASE w >= 1 /\ x <= w
    <2>1. PICK r \in 0 .. w - 1 : x * f = m + r
      BY <1>2
    <2>2. r \in Nat /\ r < f
      BY <2>1
    <2>3. x \in 0 .. w /\ Near(x * f - m, f)
      <3>1. x * f - m = r
        BY <2>1, Z3
      <3>2. QED
        BY <1>2, <2>2, <3>1 DEF Near
    <2>4. ASSUME NEW p \in 0 .. w, Near(p * f - m, f) PROVE p - x \in {-1, 0}
      <3>1. p * f - m = (p - x) * f + r
        BY <2>1, Z3
      <3>2. ASSUME p - x >= 1 PROVE FALSE
        <4>1. (p - x) * f >= f
          BY <3>2, Z3
        <4>2. QED
          BY <2>2, <2>4, <3>1, <4>1 DEF Near
      <3>3. ASSUME p - x <= -2 PROVE FALSE
        <4>1. (p - x) * f <= -2 * f
          BY <3>3, Z3
        <4>2. QED
          BY <2>2, <2>4, <3>1, <4>1 DEF Near
      <3>4. QED
        BY <3>2, <3>3
    <2>5. QED
      BY <2>3, <2>4
  <1>3. CASE w >= 1 /\ x = w + 1
    <2>1. m = f * w /\ w * f - m = 0
      BY <1>3, Z3
    <2>2. w \in 0 .. w /\ Near(w * f - m, f)
      BY <1>3, <2>1 DEF Near
    <2>3. ASSUME NEW p \in 0 .. w, Near(p * f - m, f) PROVE p - x \in {-1, 0}
      <3>1. p * f - m = (p - w) * f
        BY <2>1, Z3
      <3>2. ASSUME p - w <= -1 PROVE FALSE
        <4>1. (p - w) * f <= -f
          BY <3>2, Z3
        <4>2. QED
          BY <2>3, <3>1, <4>1 DEF Near
      <3>3. QED
        BY <1>3, <3>2
    <2>4. QED
      BY <2>2, <2>3
  <1>4. QED
    BY <1>1, <1>2, <1>3

\* On Windows a position of the screen, or the one pixel beyond it, comes out
\* at its own pixel or the one before it, and at one at least.
LEMMA WindowsAims ==
    ASSUME SameScreen, NEW x \in 0 .. RemoteWidth
    PROVE  Pixels(x) # {} /\ \A p \in Pixels(x) : p - x \in {-1, 0}
  <1> DEFINE f == 65535
             w == PeerWidth - 1
             d == IF w > 1 THEN w ELSE 1
             q == (x * f) \div d
             n == ToAbsoluteVirtual(x, 0, RemoteWidth)
             m == n * w
  <1>0. /\ w \in Nat /\ w <= f /\ RemoteWidth = PeerWidth /\ f \in Nat \ {0}
        /\ x \in Nat /\ x \in 0 .. w + 1 /\ d \in Nat \ {0} /\ Screen = 0 .. w
    BY WidthAssumption, HalfAssumption DEF SameScreen, Screen
  <1>1. Wrap(x - 0) = x
    <2>1. Half \in Nat /\ x \in Nat /\ x < Half
      BY WidthAssumption, HalfAssumption DEF SameScreen
    <2>2. x + Half \in Nat /\ 2 * Half \in Nat /\ x + Half < 2 * Half /\ x - 0 = x
      BY <2>1
    <2>3. (x + Half) % (2 * Half) = x + Half
      BY <2>2, SmallRemainder
    <2>4. QED
      BY <2>1, <2>2, <2>3 DEF Wrap
  <1>2. n = Between(q, 0, f)
    BY <1>0, <1>1 DEF ToAbsoluteVirtual
  <1>3. w >= 1 => d = w
    BY <1>0
  <1>4. Pixels(x) = {p \in 0 .. w : Near(p * f - m, f)}
    BY <1>0 DEF Pixels, NextTo, Near
  <1> HIDE DEF f, d
  <1>5. q \in Nat /\ (x <= d => q <= f) /\ (x > d => q >= f)
        /\ \E r \in 0 .. d - 1 : x * f = q * d + r
    BY <1>0, NormalizedQuotient, Zenon
  <1> HIDE DEF q, n, w
  <1>6. n \in Int /\ (x <= d => n = q) /\ (x > d => n = f)
    BY <1>0, <1>2, <1>5 DEF Between
  <1>7. m \in Int /\ (w = 0 => m = 0)
    BY <1>0, <1>6
  <1>8. w >= 1 /\ x <= w => \E r \in 0 .. w - 1 : x * f = m + r
    <2> SUFFICES ASSUME w >= 1, x <= w PROVE \E r \in 0 .. w - 1 : x * f = m + r
      OBVIOUS
    <2>1. d = w /\ n = q
      BY <1>3, <1>6
    <2>2. q * d = m
      BY <2>1
    <2>3. PICK r \in 0 .. d - 1 : x * f = q * d + r
      BY <1>5
    <2> HIDE DEF m
    <2>4. x * f = m + r
      BY <2>2, <2>3
    <2>5. QED
      BY <2>1, <2>3, <2>4
  <1>9. w >= 1 /\ x = w + 1 => m = f * w
    BY <1>0, <1>3, <1>6
  <1> HIDE DEF m
  <1>10. /\ \E p \in 0 .. w : Near(p * f - m, f)
         /\ \A p \in 0 .. w : Near(p * f - m, f) => p - x \in {-1, 0}
    BY <1>0, <1>7, <1>8, <1>9, NextPixels, Zenon
  <1>11. QED
    BY <1>4, <1>10

\* Where the peer's pointer is if it follows x.
Follows(x) ==
    IF peer = "portal" THEN pointer = x ELSE SameScreen => pointer - x \in {-1, 0}

\* Between two requests of kvm_mirror, the peer's pointer is where it was told
\* to go, if the demo has not moved it and nothing parted belief and pointer.
KeepsUp ==
    (/\ at["mirror"] = "run" /\ last # Unknown
     /\ ~drifted /\ walk = Corners /\ stage["demo"] = "none") => Follows(last)

\* Nobody but kvm_mirror has moved the pointer; the demo may wait for the lock.
Undisturbed == ~drifted /\ walk = Corners /\ stage["demo"] \notin {"moving", "ok"}

Reached(x) == Follows(x) /\ (peer = "portal" => belief = x)

\* The inductive invariant behind KeepsUp: the position is kept until the next
\* one is reached, and the demo's corners never come back.
AimInv ==
    /\ Len(walk) <= Len(Corners)
    /\ Undisturbed =>
         /\ last # Unknown /\ stage["mirror"] \notin {"moving", "ok"} => Reached(last)
         /\ stage["mirror"] = "ok" => Reached(target["mirror"])

LEMMA StepAim == TypeInv /\ BeliefInv /\ AimInv /\ [Next]_vars => AimInv'
  <1> SUFFICES ASSUME TypeInv, BeliefInv, AimInv, [Next]_vars PROVE AimInv'
    OBVIOUS
  <1> USE DEF AimInv, Undisturbed, Reached, Follows
  <1>0. /\ pointer \in Screen /\ Screen \subseteq Int /\ delta \in Int
        /\ belief \in Int \cup {Unknown} /\ Unknown \notin Int
        /\ last \in 0 .. RemoteWidth \cup {Unknown} /\ 0 .. RemoteWidth \subseteq Int
        /\ target \in [Clients -> Int] /\ DOMAIN stage = Clients /\ DOMAIN at = Clients
        /\ target["mirror"] \in 0 .. RemoteWidth
        /\ drifted \in BOOLEAN /\ peer \in {"portal", "windows"}
        /\ walk \in Seq(Int) /\ Clients = {"mirror", "demo"}
    BY WidthAssumption DEF TypeInv, TypeOK, Screen, Clients
  <1>1. CASE UNCHANGED <<last, walk, target, stage, peerVars>>
    BY <1>1 DEF peerVars
  <1>2. CASE UNCHANGED <<last, walk, peerVars>> /\ \E c \in Clients, x \in Int : Send(c, x)
    <2>1. PICK c \in Clients : \E x \in Int : Send(c, x)
      BY <1>2
    <2>2. stage[c] = "none" /\ stage' = [stage EXCEPT ![c] = "asked"]
      BY <2>1 DEF Send, BeliefInv, Serving
    <2>3. CASE c = "mirror"
      <3>1. stage'["mirror"] = "asked" /\ stage'["demo"] = stage["demo"]
        BY <1>0, <2>2, <2>3
      <3>2. stage["mirror"] = "none"
        BY <2>2, <2>3
      <3>3. QED
        BY <1>2, <3>1, <3>2 DEF peerVars
    <2>4. CASE c = "demo"
      <3>1. stage["demo"] = "none" /\ stage'["mirror"] = stage["mirror"]
        BY <1>0, <2>2, <2>4
      <3>2. target'["mirror"] = target["mirror"]
        BY <1>0, <2>1, <2>4 DEF Send
      <3>3. QED
        BY <1>2, <3>1, <3>2 DEF peerVars
    <2>5. QED
      BY <1>0, <2>3, <2>4
  <1>3. CASE Answer("mirror")
    <2>1. UNCHANGED <<walk, peerVars>>
      BY <1>3 DEF Answer
    <2>2. stage["mirror"] \in {"ok", "error"} /\ stage' = [stage EXCEPT !["mirror"] = "none"]
          /\ last' = IF stage["mirror"] = "ok" THEN target["mirror"] ELSE last
      BY <1>3 DEF Answer
    <2>3. QED
      BY <1>0, <2>1, <2>2 DEF peerVars
  <1>4. CASE Answer("demo")
    <2>1. /\ UNCHANGED <<last, peerVars>> /\ target'["mirror"] = target["mirror"]
          /\ stage["demo"] \in {"ok", "error"} /\ stage' = [stage EXCEPT !["demo"] = "none"]
          /\ walk' = IF stage["demo"] = "ok" THEN Tail(walk) ELSE walk
          /\ at["demo"] = "await"
      BY <1>0, <1>4 DEF Answer
    <2>2. CASE stage["demo"] = "ok"
      <3>1. walk # <<>>
        BY <2>1 DEF TypeInv
      <3>2. Len(Tail(walk)) = Len(walk) - 1 /\ Len(walk) \in Nat
        BY <1>0, <3>1
      <3>3. walk' # Corners /\ Len(walk') <= Len(Corners)
        <4>1. walk' = Tail(walk)
          BY <2>1, <2>2
        <4>2. Len(walk') < Len(Corners) /\ Len(Corners) \in Nat
          <5>1. Len(Corners) = 5
            BY DEF Corners
          <5>2. QED
            BY <3>2, <4>1, <5>1
        <4>3. QED
          BY <4>2
      <3>4. QED
        BY <3>3
    <2>3. CASE stage["demo"] = "error"
      BY <1>0, <2>1, <2>3 DEF peerVars
    <2>4. QED
      BY <2>1, <2>2, <2>3
  <1>5. ASSUME NEW c \in Clients, Lock(c) PROVE AimInv'
    <2>1. UNCHANGED <<last, walk, target, peer, pointer, drifted>> /\ peer = "portal"
          /\ stage[c] = "asked"
      BY <1>5 DEF Lock, clientVars
    <2>2. CASE belief = Unknown
      BY <1>0, <1>5, <2>1, <2>2 DEF Lock
    <2>3. CASE belief # Unknown
      BY <1>0, <1>5, <2>1, <2>3 DEF Lock
    <2>4. QED
      BY <2>2, <2>3
  <1>6. ASSUME NEW c \in Clients, Home(c) PROVE AimInv'
    <2>1. UNCHANGED <<last, walk, target, peer, drifted>> /\ stage[c] = "homing"
      BY <1>6 DEF Home, clientVars
    <2>2. belief = Unknown /\ peer = "portal"
      BY <1>0, <2>1 DEF BeliefInv, Serving, Locks
    <2>3. stage' = [stage EXCEPT ![c] = "moving"] \/ stage' = [stage EXCEPT ![c] = "error"]
      BY <1>6, Zenon DEF Home
    <2>4. QED
      BY <1>0, <2>1, <2>2, <2>3
  <1>7. ASSUME NEW c \in Clients, Move(c) PROVE AimInv'
    <2>1. UNCHANGED <<last, walk, target, peer, belief>> /\ stage[c] = "moving"
      BY <1>7 DEF Move, clientVars
    <2>2. belief = target[c] /\ peer = "portal" /\ belief \in Int
      BY <1>0, <2>1 DEF BeliefInv, Serving, Locks
    <2>3. CASE drifted'
      BY <2>1, <2>3
    <2>4. CASE ~drifted'
      <3>1. ~drifted /\ target[c] \in Screen /\ pointer' = OnScreen(pointer + delta)
            /\ stage' = [stage EXCEPT ![c] = "ok"]
        BY <1>0, <1>7, <2>4 DEF Move
      <3>2. pointer = belief - delta
        BY <2>1, <2>2, <3>1, WidthAssumption DEF BeliefInv, BeliefIsTruth
      <3>3. pointer' = target[c]
        <4>1. pointer + delta = target[c]
          BY <1>0, <2>2, <3>2
        <4>2. QED
          BY <3>1, <4>1, WidthAssumption DEF OnScreen, Between, Screen
      <3>4. CASE c = "mirror"
        BY <1>0, <2>1, <2>2, <3>1, <3>3, <3>4
      <3>5. CASE c = "demo"
        BY <1>0, <2>1, <3>1, <3>5
      <3>6. QED
        BY <1>0, <3>4, <3>5
    <2>5. QED
      BY <2>3, <2>4
  <1>8. ASSUME NEW c \in Clients, Inject(c) PROVE AimInv'
    <2>1. UNCHANGED <<last, walk, target, peer, drifted>> /\ stage[c] = "asked" /\ peer = "windows"
      BY <1>8 DEF Inject, clientVars
    <2>2. CASE c = "mirror" /\ stage' = [stage EXCEPT ![c] = "ok"] /\ pointer' \in Pixels(target[c])
      <3>1. SameScreen => pointer' - target["mirror"] \in {-1, 0}
        BY <1>0, <2>2, WindowsAims
      <3>2. QED
        BY <1>0, <2>1, <2>2, <3>1
    <2>3. CASE c = "demo" /\ stage' = [stage EXCEPT ![c] = "ok"]
      BY <1>0, <2>1, <2>3
    <2>4. CASE UNCHANGED pointer /\ stage' = [stage EXCEPT ![c] = "error"]
      BY <1>0, <2>1, <2>4
    <2>5. QED
      BY <1>0, <1>8, <2>2, <2>3, <2>4 DEF Inject
  <1>9. CASE PeerMoves
    <2>1. UNCHANGED <<last, walk, target, stage, peer, belief>>
          /\ drifted' = (peer = "windows" \/ belief # Unknown)
      BY <1>9 DEF PeerMoves, clientVars
    <2>2. CASE drifted'
      BY <2>1, <2>2
    <2>3. CASE ~drifted'
      <3>1. belief = Unknown /\ peer = "portal" /\ ~drifted
        BY <1>0, <1>9, <2>1, <2>3 DEF PeerMoves
      <3>2. QED
        BY <1>0, <2>1, <3>1
    <2>4. QED
      BY <2>2, <2>3
  <1>10. CASE HandMoves \/ TimeOver \/ MirrorStops \/ DemoEnds \/ \E c \in Clients : Connect(c) \/ Lost(c)
    BY <1>1, <1>10 DEF HandMoves, TimeOver, MirrorStops, DemoEnds, Connect, Lost
  <1>11. CASE MirrorMoves
    <2>1. Mapped(hand) \in Int
      BY <1>0, <1>11, MappedRange DEF MirrorMoves, TypeInv, TypeOK
    <2>2. QED
      BY <1>0, <1>2, <1>11, <2>1 DEF MirrorMoves, Send
  <1>12. CASE DemoMoves
    <2>1. Head(walk) \in Int
      BY <1>0, <1>12 DEF DemoMoves
    <2>2. QED
      BY <1>0, <1>2, <1>12, <2>1 DEF DemoMoves, Send
  <1>13. QED
    BY <1>0, <1>1, <1>3, <1>4, <1>5, <1>6, <1>7, <1>8, <1>9, <1>10, <1>11, <1>12
       DEF Next, ClientSteps, PeerSteps, vars, clientVars

\* While kvm_mirror is the only one to move it, the peer's pointer is where the
\* hand was last seen, exactly through the portal ("every absolute move is
\* exact", platform-linux/src/pointer.rs:18), and at that pixel or the one
\* before on Windows, if the command line has the peer's size.
THEOREM AimCorrect == Spec => []KeepsUp
  <1>1. Init => AimInv
    <2> SUFFICES ASSUME Init PROVE AimInv
      OBVIOUS
    <2>1. walk = Corners /\ last = Unknown /\ stage["mirror"] = "none"
      BY DEF Init, Clients
    <2>2. Len(Corners) = 5
      BY DEF Corners
    <2>3. QED
      BY <2>1, <2>2 DEF AimInv
  <1>2. TypeInv /\ BeliefInv /\ AimInv => KeepsUp
    BY DEF BeliefInv, Serving, AimInv, KeepsUp, Undisturbed, Reached, Clients
  <1>3. QED
    BY <1>1, <1>2, StepAim, InitType, StepType, InitBelief, StepBelief, PTL DEF Spec

=============================================================================
