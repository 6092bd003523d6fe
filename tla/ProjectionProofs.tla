-------------------------- MODULE ProjectionProofs --------------------------
(***************************************************************************)
(* Proofs about Projection: the two transition tables agree on every state *)
(* and event, so the mirror goes through the states of the source however  *)
(* far it lags; input is forwarded only after a whole setup; and the       *)
(* machine implements ProjectionPhases.                                    *)
(***************************************************************************)
EXTENDS Projection, SequenceTheorems, TLAPS

(***************************************************************************)
(* The tables                                                              *)
(***************************************************************************)

LEMMA OnType == ASSUME NEW s \in States, NEW e \in Events PROVE On(s, e) \in States
  BY DEF On, Onward, Continues, Lost, States

\* projection.rs and state.ts are one table (state.ts:4-8).
LEMMA TablesAgree ==
    ASSUME NEW s \in States, NEW e \in Events
    PROVE  Mirrored(s, e) = On(s, e)
  <1>1. CASE e = "Close"
    BY <1>1 DEF On, Mirrored
  <1>2. CASE e # "Close" /\ s \in {"Local", "Error", "Closed"}
    BY <1>2 DEF On, Onward, Mirrored, Arm, Faulted, Continues, Lost, Events
  <1>3. CASE e # "Close" /\ s \in {"Selecting", "Authorizing", "CaptureStarting"}
    BY <1>3 DEF On, Onward, Mirrored, Arm, Faulted, Continues, Lost, Events
  <1>4. CASE e # "Close" /\ s \in {"Negotiating", "WaitingForFirstFrame"}
    BY <1>4 DEF On, Onward, Mirrored, Arm, Faulted, Continues, Lost, Events
  <1>5. CASE e # "Close" /\ s \in {"RemoteActive", "Suspended", "Returning"}
    BY <1>5 DEF On, Onward, Mirrored, Arm, Faulted, Continues, Lost, Events
  <1>6. CASE e # "Close" /\ s \in {"HandoffPreparing", "HandoffCommitting"}
    BY <1>6 DEF On, Onward, Mirrored, Arm, Faulted, Continues, Lost, Events
  <1>7. QED
    BY <1>1, <1>2, <1>3, <1>4, <1>5, <1>6 DEF States

(***************************************************************************)
(* Steps                                                                   *)
(***************************************************************************)

\* Every step but the mirror's is an event of the source.
LEMMA StepIsEvent ==
    ASSUME Next, ~MirrorReads
    PROVE  \E e \in Events : Apply(e)
  <1>1. ASSUME NEW step \in Steps, Done(step) PROVE \E e \in Events : Apply(e)
    <2>1. Report[step] \in Events
      BY DEF Steps, Report, Events
    <2>2. QED
      BY <1>1, <2>1 DEF Done
  <1>2. CASE HandoffNegotiated
    BY <1>2 DEF HandoffNegotiated, Events
  <1>3. QED
    BY <1>1, <1>2 DEF Next, Happens

Entries == [event : Events, led : States]

LEMMA StepType == TypeOK /\ [Next]_vars => TypeOK'
  <1> SUFFICES ASSUME TypeOK, [Next]_vars PROVE TypeOK'
    OBVIOUS
  <1> USE DEF TypeOK
  <1>0. MaxLag \in Nat
    BY LagAssumption
  <1>1. CASE UNCHANGED vars
    BY <1>1 DEF vars
  <1>2. CASE MirrorReads
    <2>0. behind \in Seq(Entries) /\ behind # <<>> /\ Len(behind) \in Nat
      BY <1>2 DEF MirrorReads, Entries
    <2>1. Head(behind) \in Entries /\ Tail(behind) \in Seq(Entries) /\ Len(Tail(behind)) <= MaxLag
      <3>1. /\ Head(behind) \in Entries /\ Tail(behind) \in Seq(Entries)
            /\ Len(Tail(behind)) = Len(behind) - 1
        BY <2>0, HeadTailProperties
      <3>2. QED
        BY <1>0, <2>0, <3>1
    <2>2. mirror' \in States
      BY <1>2, <2>1, TablesAgree, OnType DEF MirrorReads, Entries
    <2>3. QED
      BY <1>2, <2>1, <2>2 DEF MirrorReads, Entries
  <1>3. ASSUME NEW e \in Events, Apply(e), done' \subseteq Steps PROVE TypeOK'
    <2>1. On(state, e) \in States
      BY OnType
    <2>2. [event |-> e, led |-> On(state, e)] \in Entries
      BY <2>1 DEF Entries
    <2>3. behind' \in Seq(Entries) /\ Len(behind') <= MaxLag
      BY <1>0, <1>3, <2>2 DEF Apply, Entries
    <2>4. QED
      BY <1>3, <2>1, <2>3 DEF Apply, Entries
  <1>4. ASSUME Next PROVE done' \subseteq Steps
    BY <1>4 DEF Next, Done, Happens, HandoffNegotiated, MirrorReads
  <1>5. QED
    BY <1>1, <1>2, <1>3, <1>4, StepIsEvent

LEMMA InitType == Init => TypeOK
  BY LagAssumption DEF Init, TypeOK, States

\* Both machines and every event under way stay within the two enumerations.
THEOREM TypeCorrect == Spec => []TypeOK
  BY InitType, StepType, PTL DEF Spec

(***************************************************************************)
(* The mirror                                                              *)
(***************************************************************************)

LEMMA StepAgrees == TypeOK /\ MirrorAgrees /\ [Next]_vars => MirrorAgrees'
  <1> SUFFICES ASSUME TypeOK, MirrorAgrees, [Next]_vars PROVE MirrorAgrees'
    OBVIOUS
  <1>n. PICK n \in Nat : n = Len(behind)
    BY DEF TypeOK
  <1>0. Len(behind) = n /\ DOMAIN behind = 1 .. n /\ behind \in Seq(Entries)
    BY <1>n DEF TypeOK, Entries
  <1>1. CASE UNCHANGED vars
    BY <1>1 DEF vars, MirrorAgrees, Standing
  <1>2. CASE MirrorReads
    <2>1. /\ n > 0 /\ behind' = Tail(behind) /\ state' = state
          /\ mirror' = Mirrored(mirror, behind[1].event)
      BY <1>0, <1>2 DEF MirrorReads
    <2>2. /\ Len(behind') = n - 1 /\ DOMAIN behind' = 1 .. n - 1
          /\ \A i \in 1 .. n - 1 : behind'[i] = behind[i + 1]
      BY <1>0, <2>1
    <2>3. mirror' = behind[1].led
      BY <1>0, <2>1 DEF MirrorAgrees, Standing
    <2>4. ASSUME NEW i \in 1 .. n PROVE Standing(i)' = Standing(i + 1)
      <3>1. CASE i = 1
        BY <1>0, <2>3, <3>1 DEF Standing
      <3>2. CASE i # 1
        <4>1. i - 1 \in 1 .. n - 1 /\ (i - 1) + 1 = i /\ i + 1 # 1 /\ (i + 1) - 1 = i
          BY <1>0, <3>2
        <4>2. behind'[i - 1] = behind[i]
          BY <2>2, <4>1
        <4>3. QED
          BY <3>2, <4>1, <4>2 DEF Standing
      <3>3. QED
        BY <3>1, <3>2
    <2>5. ASSUME NEW i \in 1 .. n - 1
          PROVE  Mirrored(Standing(i)', behind'[i].event) = behind'[i].led
      <3>1. i + 1 \in DOMAIN behind /\ i \in 1 .. n
        BY <1>0
      <3>2. Mirrored(Standing(i + 1), behind[i + 1].event) = behind[i + 1].led
        BY <3>1 DEF MirrorAgrees
      <3>3. QED
        BY <2>2, <2>4, <3>1, <3>2
    <2>6. state' = Standing(n)'
      BY <1>0, <2>1, <2>4 DEF MirrorAgrees
    <2>7. QED
      BY <1>0, <2>2, <2>5, <2>6 DEF MirrorAgrees
  <1>3. ASSUME NEW e \in Events, Apply(e) PROVE MirrorAgrees'
    <2> DEFINE new == [event |-> e, led |-> On(state, e)]
    <2>1. behind' = Append(behind, new) /\ mirror' = mirror /\ state' = On(state, e)
      BY <1>3 DEF Apply
    <2>2. /\ Len(behind') = n + 1 /\ DOMAIN behind' = 1 .. n + 1 /\ behind'[n + 1] = new
          /\ \A i \in 1 .. n : behind'[i] = behind[i]
      BY <1>0, <2>1
    <2>3. \A i \in 1 .. n + 1 : Standing(i)' = Standing(i)
      BY <1>0, <2>1, <2>2 DEF Standing
    <2>4. Standing(n + 1) = state /\ state \in States
      BY <1>0 DEF MirrorAgrees, TypeOK
    <2>5. Mirrored(Standing(n + 1)', behind'[n + 1].event) = behind'[n + 1].led
      BY <1>0, <2>2, <2>3, <2>4, TablesAgree
    <2>6. \A i \in 1 .. n : Mirrored(Standing(i)', behind'[i].event) = behind'[i].led
      BY <1>0, <2>2, <2>3 DEF MirrorAgrees
    <2>7. state' = Standing(n + 2)'
      BY <1>0, <2>1, <2>2 DEF Standing
    <2>8. QED
      BY <1>0, <2>2, <2>5, <2>6, <2>7 DEF MirrorAgrees
  <1>4. QED
    BY <1>1, <1>2, <1>3, StepIsEvent

\* However far the mirror lags, it will go where the source went.
THEOREM MirrorCorrect == Spec => []MirrorAgrees
  <1>1. Init => MirrorAgrees
    BY DEF Init, MirrorAgrees, Standing
  <1>2. QED
    BY <1>1, StepAgrees, TypeCorrect, PTL DEF Spec

(***************************************************************************)
(* The setup                                                               *)
(***************************************************************************)

\* LiveWasSetUp is not inductive: how far the setup has come must follow from
\* the state, and with it that every state past the setup had a whole one.
SetUpTo ==
    /\ state = "Authorizing" => done \cap {"window", "permission"} # {}
    /\ state = "CaptureStarting" => {"window", "permission"} \subseteq done
    /\ state = "Negotiating" => {"window", "permission", "capture"} \subseteq done
    /\ state = "WaitingForFirstFrame" =>
           {"window", "permission", "capture", "media"} \subseteq done
    /\ state \in {"RemoteActive", "HandoffPreparing", "HandoffCommitting", "Suspended",
                  "Returning"} => done = Steps

LEMMA FiveSteps ==
    /\ Steps = {"window", "permission", "capture", "media", "frame"}
    /\ Report["window"] = "AuthorizeGranted" /\ Report["permission"] = "AuthorizeGranted"
    /\ Report["capture"] = "CaptureStarted" /\ Report["media"] = "NegotiationComplete"
    /\ Report["frame"] = "FirstFrame"
  BY DEF Steps, Report

\* Where each report leads.
LEMMA ReportLeads ==
    ASSUME NEW s \in States
    PROVE  /\ On(s, "AuthorizeGranted") = IF s = "Selecting" THEN "Authorizing"
                                          ELSE IF s = "Authorizing" THEN "CaptureStarting" ELSE s
           /\ On(s, "CaptureStarted") = IF s = "CaptureStarting" THEN "Negotiating" ELSE s
           /\ On(s, "NegotiationComplete") =
                  IF s = "Negotiating" THEN "WaitingForFirstFrame"
                  ELSE IF s = "HandoffPreparing" THEN "HandoffCommitting" ELSE s
           /\ On(s, "FirstFrame") = IF s = "WaitingForFirstFrame" THEN "RemoteActive" ELSE s
  BY DEF On, Onward, Continues, Lost, States

LEMMA StepSetUp == TypeOK /\ SetUpTo /\ [Next]_vars => SetUpTo'
  <1> SUFFICES ASSUME TypeOK, SetUpTo, [Next]_vars PROVE SetUpTo'
    OBVIOUS
  <1> USE FiveSteps
  <1>0. state \in States /\ done \subseteq Steps
    BY DEF TypeOK
  <1>1. CASE UNCHANGED <<state, done>>
    BY <1>1 DEF SetUpTo
  <1>2. ASSUME NEW step \in Steps, Done(step) PROVE SetUpTo'
    <2>1. /\ state' = On(state, Report[step]) /\ done' = done \cup {step}
          /\ step \notin done
      BY <1>2 DEF Done, Apply
    <2>2. CASE step \in {"window", "permission"}
      <3>0. state' = On(state, "AuthorizeGranted")
        BY <2>1, <2>2
      <3>1. CASE state = "Authorizing"
        BY <1>0, <2>1, <2>2, <3>0, <3>1, ReportLeads DEF SetUpTo
      <3>2. CASE state # "Authorizing"
        BY <1>0, <2>1, <2>2, <3>0, <3>2, ReportLeads DEF SetUpTo
      <3>3. QED
        BY <3>1, <3>2
    <2>3. CASE step = "capture"
      BY <1>0, <2>1, <2>3, ReportLeads DEF SetUpTo
    <2>4. CASE step = "media"
      BY <1>0, <2>1, <2>4, ReportLeads DEF SetUpTo
    <2>5. CASE step = "frame"
      <3>0. state' = On(state, "FirstFrame")
        BY <2>1, <2>5
      <3>1. CASE state = "WaitingForFirstFrame"
        <4>1. state' = "RemoteActive" /\ Steps \subseteq done'
          BY <1>0, <2>1, <2>5, <3>0, <3>1, ReportLeads DEF SetUpTo
        <4>2. done' = Steps
          BY <1>0, <2>1, <4>1
        <4>3. QED
          BY <4>1, <4>2 DEF SetUpTo
      <3>2. CASE state # "WaitingForFirstFrame"
        <4>1. state' = state /\ done # Steps
          BY <1>0, <2>1, <3>0, <3>2, ReportLeads
        <4>2. QED
          BY <2>1, <3>2, <4>1 DEF SetUpTo
      <3>3. QED
        BY <3>1, <3>2
    <2>6. QED
      BY <2>2, <2>3, <2>4, <2>5
  <1>3. CASE HandoffNegotiated
    BY <1>0, <1>3 DEF HandoffNegotiated, Apply, SetUpTo, On, Onward, Continues, Lost
  <1>4. ASSUME NEW e \in Events, Happens(e) PROVE SetUpTo'
    <2>1. /\ state' = On(state, e)
          /\ e \notin {"AuthorizeGranted", "CaptureStarted", "NegotiationComplete", "FirstFrame"}
          /\ state # "Local" \/ e # "Select" => done' = done
      BY <1>4 DEF Happens, Apply
    <2>2. CASE state = "Local"
      BY <2>1, <2>2 DEF SetUpTo, On, Onward, Continues, Lost
    <2>3. CASE state # "Local"
      BY <1>0, <2>1, <2>3 DEF SetUpTo, On, Onward, Continues, Lost, States, Events
    <2>4. QED
      BY <2>2, <2>3
  <1>5. QED
    BY <1>1, <1>2, <1>3, <1>4 DEF Next, MirrorReads, vars

\* Only a projection whose setup was done, every step of it, forwards input.
THEOREM SetUpCorrect == Spec => []LiveWasSetUp
  <1>1. Init => SetUpTo
    BY DEF Init, SetUpTo
  <1>2. SetUpTo => LiveWasSetUp
    BY DEF SetUpTo, LiveWasSetUp, CanForwardInput
  <1>3. QED
    BY <1>1, <1>2, StepSetUp, TypeCorrect, PTL DEF Spec

(***************************************************************************)
(* The refinement                                                          *)
(***************************************************************************)

\* Every event moves a projection along ProjectionPhases or leaves its phase.
LEMMA EventKeepsPromise ==
    ASSUME NEW e \in Events, state \in States, state' = On(state, e)
    PROVE  Phased!Next \/ PhaseOf(state)' = PhaseOf(state)
  <1> USE DEF Phased!Next, Phased!Begin, Phased!GoLive, Phased!Hold, Phased!Release,
              Phased!GiveBack, Phased!Returned, Phased!Fail, Phased!Shut,
              PhaseOf, PhaseNames, On, Onward, Continues, Lost
  <1>1. CASE e = "Close"
    BY <1>1
  <1>2. CASE e # "Close" /\ state \in {"Local", "Error", "Closed", "Returning"}
    BY <1>2
  <1>3. CASE e # "Close" /\ state \in {"Selecting", "Authorizing", "CaptureStarting"}
    BY <1>3
  <1>4. CASE e # "Close" /\ state \in {"Negotiating", "WaitingForFirstFrame"}
    BY <1>4
  <1>5. CASE e # "Close" /\ state \in {"RemoteActive", "Suspended"}
    BY <1>5
  <1>6. CASE e # "Close" /\ state \in {"HandoffPreparing", "HandoffCommitting"}
    BY <1>6
  <1>7. QED
    BY <1>1, <1>2, <1>3, <1>4, <1>5, <1>6 DEF States

LEMMA StepKeepsPromise == TypeOK /\ [Next]_vars => [Phased!Next]_(PhaseOf(state))
  <1> SUFFICES ASSUME TypeOK, [Next]_vars
               PROVE  Phased!Next \/ PhaseOf(state)' = PhaseOf(state)
    OBVIOUS
  <1>1. CASE state' = state
    BY <1>1 DEF PhaseOf
  <1>2. CASE Next /\ ~MirrorReads
    BY <1>2, StepIsEvent, EventKeepsPromise DEF TypeOK, Apply
  <1>3. QED
    BY <1>1, <1>2 DEF MirrorReads, vars

\* The projection lifecycle implements the promise of ProjectionPhases.
THEOREM PhasesImplemented == Spec => ImplementsPhases
  <1>1. Init => Phased!Init
    BY DEF Init, Phased!Init, PhaseOf, PhaseNames
  <1>2. QED
    BY <1>1, StepKeepsPromise, TypeCorrect, PTL DEF Spec, ImplementsPhases, Phased!Spec
=============================================================================
