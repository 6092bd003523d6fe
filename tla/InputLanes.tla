----------------------------- MODULE InputLanes -----------------------------
(***************************************************************************)
(* What the desktop app promises about forwarded buttons and keys, without *)
(* handlers, promises, sockets or replies.                                 *)
(*                                                                         *)
(* Every proxy window has a lane for its buttons and one for its keys.     *)
(* What is told in a lane is delivered in that order, once, and none is    *)
(* left out while the connection lasts; lanes do not wait for each other.  *)
(* A connection that breaks forgets the ends of lanes, and the source lets *)
(* go of everything when it notices.                                       *)
(***************************************************************************)
EXTENDS Sequences, SequencesExt

CONSTANTS
    Lanes,      \* the lanes
    Orders,     \* records with an input and whether to press it
    MayRefuse   \* the source may refuse an injection

VARIABLES lane, open, down

lvars == <<lane, open, down>>

\* What is pressed after an order.
Obeyed(o) == IF o.press THEN down \cup {o.input} ELSE down \ {o.input}

LInit == lane = [l \in Lanes |-> <<>>] /\ open \in BOOLEAN /\ down = {}

Tell(l) ==
    /\ open
    /\ \E o \in Orders : lane' = [lane EXCEPT ![l] = Append(@, o)]
    /\ UNCHANGED <<open, down>>

Deliver(l) ==
    /\ lane[l] # <<>>
    /\ lane' = [lane EXCEPT ![l] = Tail(@)]
    /\ \/ down' = Obeyed(Head(lane[l]))
       \/ MayRefuse /\ down' = down
    /\ UNCHANGED open

Forget == \A l \in Lanes : IsPrefix(lane'[l], lane[l])

Break == open /\ ~open' /\ Forget /\ UNCHANGED down

LetGo == ~open /\ down' = {} /\ Forget /\ UNCHANGED open

LNext == (\E l \in Lanes : Tell(l) \/ Deliver(l)) \/ Break \/ LetGo

LSpec ==
    /\ LInit /\ [][LNext]_lvars
    /\ \A l \in Lanes : WF_lvars(open /\ Deliver(l))

=============================================================================
