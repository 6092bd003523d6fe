---------------------------- MODULE AgentLaunch -----------------------------
(***************************************************************************)
(* How a desktop app gets its agent: bootstrap and spawnAndConnect of      *)
(* apps/desktop/src/main, and the agent's `serve' of crates/agent/src/     *)
(* main.rs with endpoint.rs and pipe.rs.                                   *)
(*                                                                         *)
(* Nothing keeps a user from starting the app twice, and every agent of a  *)
(* user writes its endpoint to the same file.  An agent is named after the *)
(* app that spawned it.  An endpoint has a token of its own, and its pipe. *)
(***************************************************************************)
CONSTANTS
    Apps,  \* desktop apps of one user, each started at most once
    Older  \* an agent of an earlier launch, long gone

ASSUME LaunchAssumption == Older \notin Apps

VARIABLES
    app,    \* per app, how far bootstrap is
    read,   \* per app, the endpoint it has read
    agent,  \* per app, how far the agent it spawned is
    lines,  \* the agents that have printed their line
    file    \* what agent-endpoint.json holds

launchVars == <<app, read, agent, lines, file>>

\* Mutant of PipeOf: the pipe has a name of its own but no suffix.
PipeWellKnown(a) == "ultidesk-agent"

\* The random suffix of the pipe's name.
PipeOf(a) == a

\* Endpoint::generate.
Endpoint(a) == [pipe |-> PipeOf(a), token |-> a]

Endpoints == [pipe : {PipeOf(a) : a \in Apps \cup {Older}}, token : Apps \cup {Older}]

NotJson == [pipe |-> "", token |-> ""]

UiStates == {"ready", "alone"}

-----------------------------------------------------------------------------
(* The agent                                                               *)

AgentGoes(a, from, to) == agent[a] = from /\ agent' = [agent EXCEPT ![a] = to]

\* std::fs::write, first half: the file is emptied.
Truncate(a) ==
    /\ AgentGoes(a, "spawned", "writing") /\ file' = NotJson
    /\ UNCHANGED <<app, read, lines>>

\* Second half: one write from the start.  If another agent has written since
\* this one emptied the file, the end of a longer text stays.
Write(a) ==
    /\ AgentGoes(a, "writing", "written")
    /\ file' \in IF file = NotJson THEN {Endpoint(a)} ELSE {Endpoint(a), NotJson}
    /\ UNCHANGED <<app, read, lines>>

\* The path goes to stdout ...
PrintPath(a) ==
    /\ AgentGoes(a, "written", "printed") /\ lines' = lines \cup {a}
    /\ UNCHANGED <<app, read, file>>

\* ... and only then the first instance of the pipe is created, which fails if
\* another agent has claimed the name.
CreatePipe(a) ==
    /\ AgentGoes(a, "printed",
                 IF \E b \in Apps : agent[b] = "serving" /\ PipeOf(b) = PipeOf(a)
                 THEN "dead" ELSE "serving")
    /\ UNCHANGED <<app, read, lines, file>>

\* An error on the way, a crash, or the end of the session.
AgentDies(a) ==
    /\ agent[a] \notin {"none", "dead"} /\ agent' = [agent EXCEPT ![a] = "dead"]
    /\ UNCHANGED <<app, read, lines, file>>

-----------------------------------------------------------------------------
(* The app                                                                 *)

AppGoes(a, from, to) == app[a] = from /\ app' = [app EXCEPT ![a] = to]

\* spawn; the binary may be missing.
Launch(a) ==
    /\ \/ AppGoes(a, "off", "awaiting") /\ agent' = [agent EXCEPT ![a] = "spawned"]
       \/ AppGoes(a, "off", "alone") /\ UNCHANGED agent
    /\ UNCHANGED <<read, lines, file>>

\* firstStdoutLine resolves; the file is read and parsed at once.
ReadEndpoint(a) ==
    /\ a \in lines
    /\ IF file = NotJson THEN AppGoes(a, "awaiting", "alone") /\ UNCHANGED read
       ELSE AppGoes(a, "awaiting", "connecting") /\ read' = [read EXCEPT ![a] = file]
    /\ UNCHANGED <<agent, lines, file>>

\* Mutant of NoLine: only the exit ends the wait.
NoLineButExit(a) ==
    /\ agent[a] = "dead" /\ AppGoes(a, "awaiting", "alone") /\ UNCHANGED <<read, agent, lines, file>>

\* The ten seconds are over, or the agent's exit is noticed first.
NoLine(a) == AppGoes(a, "awaiting", "alone") /\ UNCHANGED <<read, agent, lines, file>>

\* The agents that can be reached under a name.
Behind(pipe) == {b \in Apps : agent[b] = "serving" /\ PipeOf(b) = pipe}

\* connect: without a pipe of that name it fails for good.
Connect(a) ==
    /\ AppGoes(a, "connecting", IF Behind(read[a].pipe) = {} THEN "alone" ELSE "greeting")
    /\ UNCHANGED <<read, agent, lines, file>>

Welcomes(b, a) == read[a].token = b

\* hello: HelloOk, or an error that bootstrap reports.  An agent that dies
\* closes the pipe, and failAllPending answers in its place.
Hello(a) ==
    /\ AppGoes(a, "greeting",
               IF \E b \in Behind(read[a].pipe) : Welcomes(b, a) THEN "ready" ELSE "alone")
    /\ UNCHANGED <<read, agent, lines, file>>

-----------------------------------------------------------------------------
(* Specification                                                           *)

\* The file of the last session is still there, if there was one.
LaunchInit ==
    /\ app = [a \in Apps |-> "off"]
    /\ agent = [a \in Apps |-> "none"] /\ lines = {}
    /\ file \in {NotJson, Endpoint(Older)}
    /\ read = [a \in Apps |-> NotJson]

Bootstraps(a) == ReadEndpoint(a) \/ NoLine(a) \/ Connect(a) \/ Hello(a)

Serves(a) == Truncate(a) \/ Write(a) \/ PrintPath(a) \/ CreatePipe(a) \/ AgentDies(a)

-----------------------------------------------------------------------------
(* Properties                                                              *)

LaunchTypeOK ==
    /\ app \in [Apps -> {"off", "awaiting", "connecting", "greeting"} \cup UiStates]
    /\ read \in [Apps -> Endpoints \cup {NotJson}]
    /\ agent \in [Apps -> {"none", "spawned", "writing", "written", "printed", "serving", "dead"}]
    /\ lines \subseteq Apps
    /\ file \in Endpoints \cup {NotJson}

\* However the launches of two apps mix their writes, an app that has read an
\* endpoint has read that of an agent spawned in this launch, never of an
\* earlier one, though that agent may have died since; and whoever serves its
\* pipe takes its token: "connects to the pipe, and presents the token"
\* (endpoint.rs:4-5).
Welcome ==
    \A a \in Apps : read[a] # NotJson =>
        /\ read[a].token # Older /\ agent[read[a].token] # "none"
        /\ \A b \in Behind(read[a].pipe) : Welcomes(b, a)

\* "The UI must still open" (main/main.ts:181): no agent that stalls before its
\* line, dies or shares its file keeps an app from getting as far as its window.
UiOpens == \A a \in Apps : app[a] # "off" ~> app[a] \in UiStates
=============================================================================
