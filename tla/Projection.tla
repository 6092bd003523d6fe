----------------------------- MODULE Projection -----------------------------
(***************************************************************************)
(* The projection lifecycle: the machine of crates/core/src/projection.rs  *)
(* and its mirror of apps/desktop/src/projection/state.ts, each translated *)
(* from its own text.                                                      *)
(*                                                                         *)
(* No program drives the machines yet, so their surroundings are assumed:  *)
(* both read the same events in the same order, the mirror some events     *)
(* later; what reports that a step of the setup is done comes at most once *)
(* per setup, true, but at any time and in any order; the user, the        *)
(* network and the lock screen may speak at any time.                      *)
(***************************************************************************)
EXTENDS Integers, Sequences

CONSTANT MaxLag  \* bound: events the mirror has not read yet

ASSUME LagAssumption == MaxLag \in Nat

VARIABLES
    state,   \* the machine of the source
    mirror,  \* the machine of the destination
    behind,  \* the events the mirror has yet to read, with where they led the source
    done     \* the steps of this setup that have been done

vars == <<state, mirror, behind, done>>

States == {"Local", "Selecting", "Authorizing", "CaptureStarting", "Negotiating",
           "WaitingForFirstFrame", "RemoteActive", "HandoffPreparing", "HandoffCommitting",
           "Returning", "Suspended", "Error", "Closed"}

Events == {"Select", "AuthorizeGranted", "AuthorizeDenied", "CaptureStarted",
           "CaptureFailed", "NegotiationComplete", "NegotiationFailed", "FirstFrame",
           "FirstFrameTimeout", "HandoffRequested", "HandoffCommitted", "HandoffAborted",
           "ReturnRequested", "ReturnComplete", "Suspend", "Resume", "Disconnect", "Fault",
           "Close"}

\* The steps of a setup, each with the event that reports it.
Report == [window |-> "AuthorizeGranted", permission |-> "AuthorizeGranted",
           capture |-> "CaptureStarted", media |-> "NegotiationComplete",
           frame |-> "FirstFrame"]

Steps == DOMAIN Report

CanForwardInput(s) == s = "RemoteActive"

\* Mutant of Lost: a handoff that commits is the one state that lists no loss.
LostUnlessCommitting(s, e) ==
    /\ e \in {"Disconnect", "Fault"}
    /\ s \notin {"Local", "Error", "Closed", "HandoffCommitting"}

\* A loss or a fault, in the states that list them.
Lost(s, e) ==
    /\ e \in {"Disconnect", "Fault"}
    /\ s \in {"Selecting", "Authorizing", "CaptureStarting", "Negotiating",
              "WaitingForFirstFrame", "RemoteActive", "HandoffPreparing",
              "HandoffCommitting", "Suspended", "Returning"}

\* Mutant of Continues: a resume is taken for the first frame.
ContinuesSetUp(s, e) ==
    \/ s \in {"Suspended", "WaitingForFirstFrame"} /\ e = "Resume"
    \/ s \in {"HandoffPreparing", "HandoffCommitting"} /\ e = "HandoffAborted"

\* Mutant of Continues: a resume revives what has failed.
ContinuesFailed(s, e) ==
    \/ s \in {"Suspended", "Error"} /\ e = "Resume"
    \/ s \in {"HandoffPreparing", "HandoffCommitting"} /\ e = "HandoffAborted"

\* What was live is live again.
Continues(s, e) ==
    \/ s = "HandoffPreparing" /\ e \in {"HandoffAborted", "NegotiationFailed"}
    \/ s = "HandoffCommitting" /\ e \in {"HandoffCommitted", "HandoffAborted"}
    \/ s = "Suspended" /\ e = "Resume"

\* The other rows of the match: where an event that a state lists leads.
Onward ==
    [Local               |-> [Select |-> "Selecting"],
     Selecting           |-> [AuthorizeGranted |-> "Authorizing"],
     Authorizing         |-> [AuthorizeGranted |-> "CaptureStarting", AuthorizeDenied |-> "Error"],
     CaptureStarting     |-> [CaptureStarted |-> "Negotiating", CaptureFailed |-> "Error"],
     Negotiating         |-> [NegotiationComplete |-> "WaitingForFirstFrame",
                              NegotiationFailed |-> "Error"],
     WaitingForFirstFrame |-> [FirstFrame |-> "RemoteActive", FirstFrameTimeout |-> "Error"],
     RemoteActive        |-> [HandoffRequested |-> "HandoffPreparing",
                              ReturnRequested |-> "Returning", Suspend |-> "Suspended"],
     HandoffPreparing    |-> [NegotiationComplete |-> "HandoffCommitting"],
     Suspended           |-> [ReturnRequested |-> "Returning"],
     Returning           |-> [ReturnComplete |-> "Local"]]

\* ProjectionStateMachine::on.  An illegal event is an error and leaves the
\* state; no legal event but Close leads from a state to itself.
On(s, e) ==
    IF e = "Close" THEN "Closed"
    ELSE IF Continues(s, e) THEN "RemoteActive"
    ELSE IF Lost(s, e) THEN "Error"
    ELSE IF s \in DOMAIN Onward /\ e \in DOMAIN Onward[s] THEN Onward[s][e]
    ELSE s

Faulted(s, e) == IF e \in {"Disconnect", "Fault"} THEN "Error" ELSE s

\* The arms of the mirror's switch, as far as each goes before it ends in
\* `return faulted()'.
Arm(s, e) ==
    IF s = "Selecting" /\ e = "AuthorizeGranted" THEN "Authorizing"
    ELSE IF s = "Authorizing" /\ e = "AuthorizeGranted" THEN "CaptureStarting"
    ELSE IF s = "Authorizing" /\ e = "AuthorizeDenied" THEN "Error"
    ELSE IF s = "CaptureStarting" /\ e = "CaptureStarted" THEN "Negotiating"
    ELSE IF s = "CaptureStarting" /\ e = "CaptureFailed" THEN "Error"
    ELSE IF s = "Negotiating" /\ e = "NegotiationComplete" THEN "WaitingForFirstFrame"
    ELSE IF s = "Negotiating" /\ e = "NegotiationFailed" THEN "Error"
    ELSE IF s = "WaitingForFirstFrame" /\ e = "FirstFrame" THEN "RemoteActive"
    ELSE IF s = "WaitingForFirstFrame" /\ e = "FirstFrameTimeout" THEN "Error"
    ELSE IF s = "RemoteActive" /\ e = "HandoffRequested" THEN "HandoffPreparing"
    ELSE IF s \in {"RemoteActive", "Suspended"} /\ e = "ReturnRequested" THEN "Returning"
    ELSE IF s = "RemoteActive" /\ e = "Suspend" THEN "Suspended"
    ELSE IF s = "HandoffPreparing" /\ e = "NegotiationComplete" THEN "HandoffCommitting"
    ELSE IF s = "HandoffPreparing" /\ e \in {"HandoffAborted", "NegotiationFailed"} THEN "RemoteActive"
    ELSE IF s = "HandoffCommitting" /\ e \in {"HandoffCommitted", "HandoffAborted"} THEN "RemoteActive"
    ELSE IF s = "Suspended" /\ e = "Resume" THEN "RemoteActive"
    ELSE IF s = "Returning" /\ e = "ReturnComplete" THEN "Local"
    ELSE Faulted(s, e)

\* `on' and `transition' of the mirror.
Mirrored(s, e) ==
    IF e = "Close" THEN "Closed"
    ELSE IF s \in {"Error", "Closed"} THEN s
    ELSE IF s = "Local" THEN IF e = "Select" THEN "Selecting" ELSE s
    ELSE Arm(s, e)

-----------------------------------------------------------------------------
(* The two machines and their surroundings                                 *)

Init == state = "Local" /\ mirror = "Local" /\ behind = <<>> /\ done = {}

Apply(e) ==
    /\ Len(behind) < MaxLag
    /\ state' = On(state, e)
    /\ behind' = Append(behind, [event |-> e, led |-> On(state, e)])
    /\ UNCHANGED mirror

\* A step of the setup is done and reported.
Done(step) ==
    /\ state # "Local" /\ step \notin done /\ done' = done \cup {step}
    /\ Apply(Report[step])

\* A handoff negotiates anew, and may be told so more than once.
HandoffNegotiated ==
    /\ state \in {"HandoffPreparing", "HandoffCommitting"} /\ UNCHANGED done
    /\ Apply("NegotiationComplete")

\* Everything else that happens to a projection; a selection begins anew.
Happens(e) ==
    /\ e \notin {Report[step] : step \in Steps}
    /\ done' = IF state = "Local" /\ e = "Select" THEN {} ELSE done
    /\ Apply(e)

MirrorReads ==
    /\ behind # <<>> /\ behind' = Tail(behind)
    /\ mirror' = Mirrored(mirror, Head(behind).event)
    /\ UNCHANGED <<state, done>>

Next == \/ \E step \in Steps : Done(step)
        \/ \E e \in Events : Happens(e)
        \/ HandoffNegotiated \/ MirrorReads

Spec == Init /\ [][Next]_vars

-----------------------------------------------------------------------------
(* Properties                                                              *)

\* Types; a setup has begun whenever one of its steps is done.
TypeOK ==
    /\ state \in States /\ mirror \in States
    /\ behind \in Seq([event : Events, led : States]) /\ Len(behind) <= MaxLag
    /\ done \subseteq Steps

\* Where the mirror stands before the i-th event it has yet to read.
Standing(i) == IF i = 1 THEN mirror ELSE behind[i - 1].led

\* The two tables are one: every event will lead the mirror where it led the
\* source, so both sides go through the same states and gate input alike
\* (state.ts:4-5 "must agree on the projection lifecycle exactly").
MirrorAgrees ==
    /\ \A i \in DOMAIN behind : Mirrored(Standing(i), behind[i].event) = behind[i].led
    /\ state = Standing(Len(behind) + 1)

\* Input is forwarded only after every step of this very setup was done,
\* whatever the order the reports came in (projection.rs:109-111 "can never
\* drive the source during setup").
LiveWasSetUp == CanForwardInput(state) => done = Steps

PhaseNames ==
    [Local |-> "local", RemoteActive |-> "live", HandoffPreparing |-> "held",
     HandoffCommitting |-> "held", Suspended |-> "held", Returning |-> "returning",
     Error |-> "failed", Closed |-> "closed"]

PhaseOf(s) == IF s \in DOMAIN PhaseNames THEN PhaseNames[s] ELSE "setup"

Phased == INSTANCE ProjectionPhases WITH phase <- PhaseOf(state)

\* The machine keeps the promise of ProjectionPhases (projection.rs:6-10).
ImplementsPhases == Phased!Spec
=============================================================================
