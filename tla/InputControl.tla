---------------------------- MODULE InputControl ----------------------------
(***************************************************************************)
(* What the handoff driver promises about the operator's mouse, without    *)
(* threads, queues, peers or pointers.                                     *)
(*                                                                         *)
(* control  where input is going, as the state machine sees it             *)
(* grab     whether the mouse hook swallows local motion                   *)
(*                                                                         *)
(* The flag is a copy of the machine's state that another thread reads.    *)
(* The promise (core/src/kvm.rs:96-103, platform-windows/src/hook.rs:10-13,*)
(* agent/src/handoff.rs:93-94) is that the copy follows the machine: it    *)
(* never leads it, it always catches up, and control cannot change hands   *)
(* twice while the copy is behind.                                         *)
(***************************************************************************)
VARIABLES control, grab

cvars == <<control, grab>>

CInit == control = "Local" /\ grab = FALSE

HandOver == control = "Local" /\ ~grab /\ control' = "Remote" /\ UNCHANGED grab

TakeGrab == control = "Remote" /\ ~grab /\ grab' = TRUE /\ UNCHANGED control

ComeBack == control = "Remote" /\ grab /\ control' = "Local" /\ UNCHANGED grab

DropGrab == control = "Local" /\ grab /\ grab' = FALSE /\ UNCHANGED control

CNext == HandOver \/ TakeGrab \/ ComeBack \/ DropGrab

CSafety == CInit /\ [][CNext]_cvars

\* The copy always catches up; nobody promises a capture or a release.
CSpec == CSafety /\ WF_cvars(TakeGrab) /\ WF_cvars(DropGrab)

=============================================================================
