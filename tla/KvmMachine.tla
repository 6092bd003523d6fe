----------------------------- MODULE KvmMachine -----------------------------
(***************************************************************************)
(* The KVM handoff state machine of crates/core/src/kvm.rs, as operators   *)
(* on a record [state, armed].  The machine is a value the handoff driver  *)
(* owns: whoever drives it (see Handoff) decides when an event is fed.     *)
(***************************************************************************)
EXTENDS Naturals

KvmState == {"Local", "Remote"}

Releases == {"EmergencyRelease", "PeerLost", "PeerEnded", "ReturnedAcrossEdge"}

KvmEvent == Releases \cup {"EdgeReached", "EdgeLeft"}

Machine == [state : KvmState, armed : BOOLEAN]

\* KvmMachine::new: local, and armed because nothing was released yet.
NewMachine == [state |-> "Local", armed |-> TRUE]

\* KvmMachine::grab_active, the single source of truth for the grab.
GrabActive(m) == m.state = "Remote"

\* Mutant of Release: only a capture is undone, crossing stays armed.
ReleaseStaysArmed(m) == [m EXCEPT !.state = "Local"]

\* KvmMachine::release: disarms from any state.
Release(m) == [state |-> "Local", armed |-> FALSE]

\* KvmMachine::on, the state half of it.
On(m, e) ==
    CASE e \in Releases    -> Release(m)
      [] e = "EdgeLeft"    -> [m EXCEPT !.armed = TRUE]
      [] e = "EdgeReached" -> IF m.armed THEN [m EXCEPT !.state = "Remote"] ELSE m

\* KvmMachine::on, the KvmOutcome half of it.
Captures(m, e) == ~GrabActive(m) /\ GrabActive(On(m, e))

ReleasesControl(m, e) == GrabActive(m) /\ ~GrabActive(On(m, e))

=============================================================================
