----------------------------- MODULE PortalCall -----------------------------
(***************************************************************************)
(* One call of an XDG portal method and the wait for its Response          *)
(* (platform-linux/src/portal_call.rs and request.rs).                     *)
(*                                                                         *)
(* A caller makes one call at a time; call number t runs under token t.    *)
(* Beside the caller run the worker threads, one per call, that listen for *)
(* the Response signal of their request, and the portal with its user, who *)
(* may answer before the method call returns, long after the caller gave   *)
(* up, or never.  A worker outlives its call until a signal reaches it.    *)
(***************************************************************************)
EXTENDS Integers

CONSTANT MaxCalls  \* bound: calls made on one connection

ASSUME CallsAssumption == MaxCalls \in Nat \ {0}

VARIABLES
    caller,   \* where call_and_await is
    token,    \* the number of the current or last call
    worker,   \* per call, where its thread is
    request,  \* per call, the Request object at the portal or its response
    mail,     \* resp_rx of the current call
    result    \* what the last call returned

callVars == <<caller, token, worker, request, mail, result>>

Tokens == 1 .. MaxCalls

\* What a Response can say.  "hollow" is a success without the entries the
\* method's caller reads; "ended" is any code above 1 or an unreadable body.
Responses == {"success", "hollow", "cancelled", "ended"}

\* Mutant of ResponseCode: the code is handed on as it came.
RawCode(code) == code

\* ResponseCode::from_raw and the match on it.
ResponseCode(code) ==
    IF code = "cancelled" THEN "denied" ELSE IF code = "ended" THEN "bus" ELSE "ok"

Answered(t) == request[t] \in Responses

CallInit ==
    /\ caller = "idle" /\ token = 0 /\ mail = "empty" /\ result = "none"
    /\ worker = [t \in Tokens |-> "none"]
    /\ request = [t \in Tokens |-> "none"]

\* Every `return' of call_and_await drops resp_rx.
Returns(r) == caller' = "idle" /\ mail' = "empty" /\ result' = r

-----------------------------------------------------------------------------
(* The caller                                                              *)

\* A fresh handle token and a thread of its own for every call.
Spawn ==
    /\ caller = "idle" /\ token < MaxCalls
    /\ caller' = "subscribe" /\ token' = token + 1 /\ result' = "none"
    /\ worker' = [worker EXCEPT ![token + 1] = "starting"]
    /\ UNCHANGED <<request, mail>>

\* Mutant of WorkerSubscribes: the caller is let go before the match rule
\* is in place.
ReadyTooSoon(t) ==
    /\ \/ caller = "subscribe" /\ token = t /\ caller' = "issue" /\ UNCHANGED worker
       \/ t \in Tokens /\ worker[t] = "starting" /\ worker' = [worker EXCEPT ![t] = "listening"]
          /\ UNCHANGED caller
    /\ UNCHANGED <<token, request, mail, result>>

\* receive_signal("Response") and ready_tx.send(Ok(())).
WorkerSubscribes(t) ==
    /\ caller = "subscribe" /\ token = t /\ worker[t] = "starting"
    /\ worker' = [worker EXCEPT ![t] = "listening"] /\ caller' = "issue"
    /\ UNCHANGED <<token, request, mail, result>>

\* The proxy or the match rule fails: ready_tx.send(Err(e)).
WorkerFails(t) ==
    /\ caller = "subscribe" /\ token = t /\ worker[t] = "starting"
    /\ worker' = [worker EXCEPT ![t] = "done"] /\ Returns("bus")
    /\ UNCHANGED <<token, request>>

\* DynArgs::call: the method call leaves, and the portal creates a Request
\* under the path that request_path predicts from the token.
Issue ==
    /\ caller = "issue" /\ caller' = "reply"
    /\ request' = [request EXCEPT ![token] = "open"]
    /\ UNCHANGED <<token, worker, mail, result>>

\* The call is refused with a D-Bus error and no Request comes to be.
IssueFails ==
    /\ caller = "issue" /\ Returns("bus")
    /\ UNCHANGED <<token, worker, request>>

Replied ==
    /\ caller = "reply" /\ caller' = "await"
    /\ UNCHANGED <<token, worker, request, mail, result>>

\* The reply is lost although the portal acts on the call.
ReplyLost ==
    /\ caller = "reply" /\ Returns("bus")
    /\ UNCHANGED <<token, worker, request>>

\* recv_timeout finds a message.
Take ==
    /\ caller = "await" /\ mail # "empty"
    /\ Returns(IF mail = "nothing" THEN "bus" ELSE ResponseCode(mail))
    /\ UNCHANGED <<token, worker, request>>

\* Mutant of Deadline: recv without a timeout.
NoDeadline == FALSE /\ UNCHANGED callVars

\* RESPONSE_TIMEOUT passes with nothing in the channel.
Deadline ==
    /\ caller = "await" /\ mail = "empty" /\ Returns("timedOut")
    /\ UNCHANGED <<token, worker, request>>

-----------------------------------------------------------------------------
(* The workers and the portal                                              *)

\* The portal answers a Request.  Only a match rule in place hears it.
PortalAnswers(t, code) ==
    /\ request[t] = "open" /\ request' = [request EXCEPT ![t] = code]
    /\ worker' = IF worker[t] = "listening"
                 THEN [worker EXCEPT ![t] = "signalled"] ELSE worker
    /\ UNCHANGED <<caller, token, mail, result>>

\* Mutant of Deliver: one channel for all calls.
DeliverToAny(t, m) == mail' = IF caller # "idle" THEN m ELSE mail

\* resp_tx.send: nobody reads it once the call has returned.
Deliver(t, m) == mail' = IF caller # "idle" /\ token = t THEN m ELSE mail

\* signals.next() yields the Response; the thread ends.
WorkerReceives(t) ==
    /\ worker[t] = "signalled" /\ worker' = [worker EXCEPT ![t] = "done"]
    /\ Deliver(t, request[t])
    /\ UNCHANGED <<caller, token, request, result>>

\* signals.next() yields None: the bus has gone.
StreamEnds(t) ==
    /\ worker[t] = "listening" /\ worker' = [worker EXCEPT ![t] = "done"]
    /\ Deliver(t, "nothing")
    /\ UNCHANGED <<caller, token, request, result>>

-----------------------------------------------------------------------------
(* Properties                                                              *)

CallTypeOK ==
    /\ caller \in {"idle", "subscribe", "issue", "reply", "await"}
    /\ token \in 0 .. MaxCalls
    /\ worker \in [Tokens -> {"none", "starting", "listening", "signalled", "done"}]
    /\ request \in [Tokens -> {"none", "open"} \cup Responses]
    /\ mail \in {"empty", "nothing"} \cup Responses
    /\ result \in {"none", "ok", "denied", "timedOut", "bus"}

\* However early the portal answers, a Response to the call under way is not
\* lost: the worker has it or the caller's channel does (portal_call.rs:53-54
\* "a caller that subscribes afterwards can miss it and then wait forever").
ResponseHeard ==
    caller # "idle" /\ token > 0 /\ Answered(token)
        => worker[token] = "signalled" \/ mail # "empty"

\* What a call returns is the verdict on its own request, never a late one on
\* an earlier request: Denied only when the user declined this very request
\* (portal.rs:34-35 "A decision, not a fault"), success only when it succeeded.
OutcomeHonest ==
    /\ result = "denied" => request[token] = "cancelled"
    /\ result = "ok" => request[token] \in {"success", "hollow"}

\* Every call returns, even if nobody ever answers the dialog
\* (portal_call.rs:26-27 "an unanswered prompt must not pin a caller forever").
CallsReturn == caller # "idle" ~> caller = "idle"
=============================================================================
