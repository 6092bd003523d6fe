----------------------------- MODULE ProxyLanes -----------------------------
(***************************************************************************)
(* ProxyInput as an implementation of InputLanes.  A window's lane for its *)
(* buttons runs over two queues: what is on the pipe, and behind that what *)
(* the handlers send once their moves are answered.                        *)
(***************************************************************************)
EXTENDS ProxyInput, SequencesExt

Lanes == Windows \X {"button", "key"}

OfLane(l) == IF l[2] = "button" THEN ButtonEvents(l[1]) ELSE KeyEvents(l[1])

InLane(requests, l) == Kept(requests, OfLane(l))

\* What handlers still have to request, in the order of their replies.
ToCome == LET on == Kept(pending, Unfinished) IN [i \in 1 .. Len(on) |-> Head(Tail(on[i]))]

Promise == INSTANCE InputLanes WITH
    lane <- [l \in Lanes |->
               InLane(wire, l) \o IF socket = "open" THEN InLane(ToCome, l) ELSE <<>>],
    open <- socket = "open"

\* Overlapping handlers, a FIFO of resolvers, lost sockets and a quitting app
\* still deliver each window's buttons and each window's keys in the order in
\* which main handled them, each once (main/main.ts:138-171,
\* main/agent-client.ts:60-88): no button comes up before it went down.
ImplementsLanes == Promise!LSpec
=============================================================================
