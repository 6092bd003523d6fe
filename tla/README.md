# A formal model of Ultidesk

TLA+ modules for the parts of this repository whose correctness depends on the
order in which threads, tasks, processes and messages act, TLC configurations
that check them on small instances, and theorems checked by TLAPS.

Contents: [the system](#the-system) · [modules](#modules) · [runs](#runs) ·
[what the code does otherwise](#where-the-code-and-its-documents-disagree) ·
[bounds](#bounds) · [fairness](#fairness) · [proofs](#proofs) ·
[only model-checked, not modelled](#what-is-only-model-checked-and-what-is-not-modelled) ·
[plan](#plan) · [running it](#running-it)

## The system

Ultidesk shares one keyboard and mouse between machines and projects windows of
one machine to another. A Rust *agent* runs in each user session, injects input
and enumerates windows. An Electron *desktop app* owns the windows and talks to
its agent over a pipe with newline-delimited JSON. A second program of the
agent, the *KVM handoff*, hooks the local mouse and forwards it to a peer's
agent over TCP. On Linux the agent reaches the desktop through XDG portals, which
ask the user.

```
 operator -> proxy window -> main process -> pipe -> agent session -> desktop
             (renderer)      (AgentClient)           (Session)        (SendInput,
                                                                       portal)
 operator -> mouse hook ---> handoff driver -> TCP -> agent session -> desktop
             hotkey thread   (KvmMachine)    of the peer
```

### Inventory

| Component | State | Operations | Talks to | Hard behaviour | Correct when |
|---|---|---|---|---|---|
| KVM state machine `core/src/kvm.rs` | local or remote, armed | `on(event)` | owned by the driver | repeated edge contact after a release | releasing always works and sticks |
| Handoff driver `agent/src/handoff.rs` | loop position, machine, grab flag, remote position | connect, poll hotkey, drain the hook's channel, forward, read the reply, clean up | hook (shared flag, channel), hotkey (channel), peer (TCP) | three threads, stale events, a blocking read, failures in the middle | the flag follows the machine; every exit releases; the operator gets the mouse back |
| Hook, hotkey, cursor `platform-windows/src/{hook,hotkey,cursor}.rs` | hook handle, flag, pointer | per-event callback, warp | OS, driver | the callback runs between any two steps of the driver, the driver between flag and pointer | own warps are not swallowed; once the flag is on, at most one move under way gets past it |
| Agent sessions `agent/src/ipc.rs` | authenticated, held keys and buttons | `handle`, `release_all` | transport, injector | concurrent sessions on one desktop, refused injections | what is pressed is accounted for; ended sessions have released |
| Transports `agent/src/{pipe,tcp}.rs` | accepted connections | accept, read, reply, close | clients, sessions | half-open connections, failed replies, killed processes | every way out of the loop releases |
| Loop guard `core/src/input_guard.rs`, `protocol.rs` | recent ids, marker | `evaluate`, `stamp_for_forward`, `mark_injected` | every device of a mesh | duplicated and reordered events, eviction, restarts | bounded memory; within its reach nothing is injected twice, nothing at home; loops end |
| Desktop input routing `desktop/src/{main/main,main/agent-client,renderer/proxy,preload/preload}.ts` | projections, FIFO of resolvers, socket | `handleProxyInput`, `request`, `onData`, `failAllPending`, before-quit | renderers (IPC), agent (pipe) | overlapping handlers, closing, crashing, quitting | input arrives in order, once, where it was made, and is let go of |
| Projection lifecycle `core/src/projection.rs`, `desktop/src/projection/state.ts` | one of 13 states | `on(event)` | input gate, media | stale events of an aborted handoff; two copies of one table | input only in `RemoteActive`; both tables agree |
| Signaling broker `desktop/src/main/signaling.ts` | groups, member index | register, relay, close | windows | a window in several projections | signals reach the other members of the same projection |
| Portal requests `platform-linux/src/{portal_call,request,portal}.rs` | subscription, deadline | `call_and_await` | portal over D-Bus | the response racing subscription and deadline | no response is missed; a late one leaks nothing |
| Portal pointer and injector `agent/src/portal_injector.rs`, `platform-linux/src/pointer.rs` | believed position | home, move, press | RemoteDesktop session | failed motions, clamping | belief equals truth |
| Portal sessions `platform-linux/src/{remote_desktop,screen_cast}.rs` | session handle, restore token | open, inject, close | portal | failure between two steps of opening | an opened session is closed |
| Capture zones `platform-linux/src/input_capture.rs` | zone set, zones | refresh, set barriers, enable, release | portal | zones change under the barriers | barriers belong to the current zones |
| Agent start-up `agent/src/{main,endpoint}.rs`, `desktop/src/main/agent-client.ts` | endpoint, handshake file | generate, write, announce, serve; spawn, read, connect, greet | launching app | announcing before the pipe exists; two launches share one file | what is read belongs to a running agent; the UI opens whatever the agent does |
| Peer clients `agent/src/tcp.rs` (`kvm_mirror`, `kvm_demo`) | last position sent, corners left | connect, poll the pointer, send, read the reply | peer's session over TCP | two clients on one pointer, failed motions | the peer's pointer comes to where the hand is |
| Coordinate mapping `topology/src/{mapping,monitor}.rs`, `desktop/src/topology/mapping.ts` | none | letterbox, normalise, edge crossing | renderer, driver | borders, zero sizes, two copies | results stay on the source |
| Windows injection `platform-windows/src/{inject,types,windows_impl}.rs` | none | absolute coordinates, SendInput | OS | 32-bit arithmetic | results in 0..65535 |
| Capability probe `platform-linux/src/{portal,caps}.rs` | none | decode masks, report, choose options | portals | a mask read as another's | what the probe reports works later |
| Media backend and picker `desktop/src/{projection/media-backend,renderer/picker,renderer/proxy}.ts` | peer connections, streams | capture, offer, answer, stop | broker | close racing the capture; signals of another projection | a proxy shows its own window; its capture ends with it |
| Keyboard map, ids, errors, schema, scripts | none or OS-owned | — | — | — | data, I/O or third-party behaviour |

Every hazard these parts have is listed with its line in `PROJECT.json`, with
the properties that would catch it.

## Modules

| Module | Models | Kind |
|---|---|---|
| `KvmMachine` | `KvmMachine` of `kvm.rs` | operators on a record |
| `InputControl` | what the driver promises about the mouse | abstract specification |
| `Handoff` | driver, hook, hotkey, clock and peer | component; refines `InputControl` |
| `HandoffHistory` | `Handoff` with what really happened at the edge since the last release | history variable |
| `AgentSession` | `Session` behind the loops of `pipe.rs` and `tcp.rs` | component |
| `LoopGuard` | `LoopGuard` and `InputHeader` | operators |
| `LoopMesh` | devices with a guard each, exchanging events | component over `LoopGuard` |
| `InputLanes` | what the desktop app promises about forwarded input | abstract specification |
| `ProxyInput` | proxy windows, `handleProxyInput`, `AgentClient`, an agent session | component |
| `ProxyLanes` | the refinement mapping from `ProxyInput` to `InputLanes` | refinement |
| `ProjectionPhases` | what a projection promises | abstract specification |
| `Projection` | `projection.rs` and its mirror `state.ts`, which lags behind | component; refines `ProjectionPhases` |
| `PortalCall` | `call_and_await`, its worker threads and the portal's answers | component |
| `PortalCaps` | capability masks, the probe's report, the options of the clients | operators |
| `PortalSession` | the three portal clients and the agent's programs over `PortalCall` | composition |
| `Coordinates` | edge crossing, absolute coordinates in `i32`, letterbox | operators |
| `Mirror` | `kvm_mirror` and `kvm_demo` against the peer's injector | component over `Coordinates` |
| `AgentLaunch` | `bootstrap`, `spawnAndConnect`, the agent's `serve` | component |
| `Streaming` | picker, signaling broker and proxies | component |
| `Desktop` | one app from its launch to its projections | composition of `AgentLaunch`, `Streaming` and `Coordinates` |
| `MC*` | values for constants a cfg cannot write | instances |
| `*Proofs` | theorems | proofs |

### Handoff

`pc` names the point between two accesses of the driver to something another
process touches: the grab flag, the two channels, the pointer, the socket. So
`machine.on(..)` and the `grab.store(..)` that follows it are two steps
(`WatchEdge`, then `GrabOn`), with the hook and the OS free to run in between.

A real mouse event (`hand`) takes four steps: the OS proposes a position
(`OperatorMoves`), `mouse_proc` loads the flag (`HookDecides`) and sends the event,
swallowed or not (`HookSends`), and if it was passed on, the OS moves the pointer
after the callback has returned (`PointerFollows`). Input is delivered one event
after the other. A warp (`SetCursorPosition`) may be refused, which the driver
ignores; otherwise it re-enters the hook as an injected event (`HookSeesWarp`), when
no other callback runs, and then moves the pointer (`PointerWarped`). Nothing in the
repository tells whether the call has returned by then, so the driver may go on at
once or later; only its next warp waits. `Forward` is one step up to the
read of the reply, because nothing before it is visible to others except the
warp. `PeerAnswers` and `PeerLost` are what the read and the write can do; a peer
that is silent takes neither. Vertical positions take part in no decision of the
code and are left out. Events under way while the driver still connects are
queued, because hook and hotkey are installed first.

### AgentSession

One record of variables per connection: the link, the requests sent and unread,
the task's stage and the session's fields. A request is one step, since a
session is touched by its task only and `handle` injects at most once;
`release_all` is a loop of injections and so one step each (`ReleaseOne`), with
buttons first, between which other sessions run. The held set is taken out
(`Drain`) before the first injection, as in the code. `Refuses` is UIPI, the
secure desktop or a portal that withdrew its session; an unmapped key succeeds
without reaching the desktop. `AgentKilled` ends the process: links, tasks and
books are gone, what is pressed stays pressed, and `AgentStarted` is a new
process that knows nothing of it. `stuck` is a history variable: inputs pressed
when the desktop refused their release or their agent was killed.

### LoopGuard and LoopMesh

`LoopGuard` translates `evaluate`, `stamp_for_forward`, `mark_injected` and
`remember`, with the eviction queue and the lookup set as two fields, so that they
could drift apart. Nothing in the repository calls the guard yet. `LoopMesh` is the
setting its documentation describes: devices capture, forward along links, inject
what is accepted and see their own injections in their hooks (`Recapture`);
the network delivers in any order and again (`Redeliver`); agents restart with
an empty memory and a new marker. `injected` counts per run of an agent, and an
`Echo` records, beside the header that the hook will show, which run injected it;
no guard reads either. Those surroundings are not mapped to source.

### ProxyInput

Every proxy event runs `handleProxyInput` on its own and each `await` gives way to
the next event. What a handler has left to request is a *script*. `pending` holds
the scripts in the order of the resolvers, each with the request it awaits at
its head; `OnData` resolves the first and lets its handler go on. Messages from a
renderer carry nothing main's state could change, so their queue is not modelled:
a message arrives while its window exists, or is lost with it. The picker's
`EnumerateWindows` shares the FIFO. `Quit` is the one synchronous turn of
before-quit: the release is written, the socket destroyed with any part of
what was written on its way, and `child.kill` takes effect later
(`AgentKilled`), while the agent runs beside it. The agent's session is
`AgentSession` seen from one client: there its books are exact (`HeldIsDown`) and
its end releases everything, so here `release_all` is one step. `ProxyLanes` maps
the scripts to the lanes of `InputLanes` with `Kept`, which keeps of a queue what
belongs to one lane.

### Projection and ProjectionPhases

`On` is `ProjectionStateMachine::on` and `Mirrored` the reducer of `state.ts`. The
two files are laid out differently, one match over pairs and one switch over
states with a default arm, and each operator follows its own file, so that a row
missing on one side would show. `behind` is the queue of events the mirror has not
read, each with the state it led the source to: a history that says what the
mirror has to arrive at. No program drives the machines yet, so what surrounds
them is an assumption. A step of the setup is reported truly and once per
setup, at any time and in any order, and both sides read the same events in
one order. The rest of the events, losses, suspensions and handoffs among them,
come whenever they like. `done` is what this setup has really achieved.

### PortalCall, PortalCaps and PortalSession

`caller` is where `call_and_await` is between two things another thread or the
portal can see. Every call has a worker thread of its own that subscribes,
says so, waits for one signal and forwards it to a channel whose receiver may be
gone. `request` is the portal's Request object, which may be answered before the
method call has returned. A call that returns drops the channel and leaves its
worker behind (`IssueFails`, `Deadline`).

`PortalSession` runs a *script* of methods over these calls, one script per
subcommand of `main.rs` and an `embedder` that uses the InputCapture client as its
interface allows. `Finish` is the return of a call together with what the method
does with it: `refresh_zones` stores set and zones, `open` hands out the session
object, `?` drops it. Methods without a Request (`Plain`) are one step. The portal
(`Portal`, `Capable`, `Rejected`) is external: it refuses what it does not
advertise and rejects barriers of a stale set or off a zone's boundary.
The process goes on after a client is dropped, so a worker that waits keeps the
connection, which closes with its last clone; then the portal ends the session
(`Reap`).

### Coordinates and Mirror

One axis at a time. `MapEdgeCrossing` is a floating-point quotient and product;
it is exact but for `short`, the positions where rounding lands just below a whole
number, which then loses a pixel in the cast. `ToAbsoluteVirtual` subtracts in `i32`
with wrap-around. The letterbox is in exact fractions.

`Mirror` runs both clients of `tcp.rs` at once against one peer. The peer's injector
is the portal's or that of Windows. The portal's takes the lock (`Lock`), drives
the pointer into the corner (`Home`), moves it (`Move`) and believes from
then on what it was told, `delta_to` having changed the belief before the motion is
tried. A motion that fails may have been carried out. `drifted` is a history
variable: a motion failed, a target was off the screen or somebody else
moved the pointer.

### AgentLaunch, Streaming and Desktop

`AgentLaunch` has several apps of one user, each with the agent it spawned, and the one
`agent-endpoint.json` they share. Writing the file is two steps, because
`std::fs::write` empties it first. The agent prints its line before it creates its
pipe. The app reads the file when it has the line, connects once and greets.

`Streaming` has one picker, whose renderer subscribes to the signals of every
projection it starts, the broker's two tables, and a proxy per projection. What
main sends waits in order (`toPicker`, `toProxy`) and is lost on a page that
has not loaded. `Start` is the whole handler of `start-projection`. Messages say
which projection they name, and `of` whose media they are about, so that a mix-up
would show in `plays`.

`Desktop` puts them together: the picker exists once `bootstrap` is through, with or
without an agent, and a proxy's picture is put through the letterbox of
`Coordinates`.

## Runs

| Run | Properties | Shows |
|---|---|---|
| `handoff` | `TypeOK`, `GrabPhases`, `ImplementsControl` | with warps that may be refused, on every path the flag follows the machine, and driver, hook and machine implement `InputControl` with its liveness |
| | `OneStrayMove` | flag, warp and hook race: in a capture at most one local move gets past the flag, of an event decided on before the flag was set |
| | `CaptureFollowsLeaving` | after a release nothing captures before an event away from the edge was read |
| | `HotkeyReleases`, `SessionEnds` | the hotkey gives the mouse back without the deadline's help, and sessions end with the grab off, if the peer answers or breaks and the hand rests |
| `session` | `TypeOK`, `OnlyServedSessionsHold`, `Accounted`, `HeldIsDown` | two clients on one desktop, refusals, half-open links, a killed agent: nothing is pressed unaccounted for, every way out of the loop has released, and a session served alone has exact books |
| | `ClosedLetsGo` | clients that close or crash let go of everything, if the agent lives and the desktop accepts the releases |
| `mesh` | `TypeOK`, `MemoryBounded`, `OwnNeverInjected`, `AtMostOnce` | more events than the memory holds, with a redelivery or a restart, in a mesh with a loop and a way back to the source |
| | `HookNeverInjects` | what a run of a device injected is known to it by its marker when the hook shows it, after its id has been evicted too |
| | `FallsSilent` | with ids evicted, hop counts alone end a loop |
| `proxy` | `TypeOK`, `RepliesMatch` | handlers overlap, sockets die, the app quits: replies reach the handlers that asked |
| | `ImplementsLanes` | buttons in order, keys in order, each once, and in the end |
| `projection` | `MirrorAgrees` | the two tables agree: every event will lead the mirror where it led the source |
| | `LiveWasSetUp` | input is forwarded only after every step of this very setup, whatever the order of the reports |
| | `ImplementsPhases` | the lifecycle implements `ProjectionPhases` |
| `portal` | `TypeOK`, `ResponseHeard`, `OutcomeHonest` | no response to a call under way is lost, however early; a late one is never taken for the answer to another request |
| | `ZonesOfOneSet`, `OnlyStaleSetsFail` | barriers go out under the set they were computed from, and only a monitor plugged in since, or an inner edge, makes the portal reject one |
| | `ProbePromises` | what the probe reports is not refused later for want of a capability |
| | `CallsReturn`, `LateGrantWithdrawn` | every call returns without the user's help, and a grant that comes too late does not stay |
| `mirror` | `TypeOK`, `BeliefIsTruth` | two connections share the injector: it knows where the pointer is until a motion fails, a target lies off the screen or somebody moves the mouse |
| | `FollowsHand` | the peer's pointer comes to where the resting hand is |
| `desktop` | `TypeOK`, `Welcome` | however two launches mix their writes to one file, what an app reads is the endpoint of an agent of this launch, which may have died since, and token and pipe belong together |
| | `PictureIsTrue` | a proxy shows its own window, and a pointer reaches the source from all of that picture and from nowhere else |
| | `UiOpens`, `CaptureEnds` | the window opens whatever the agents do; closing a proxy ends its capture |

Deadlock is checked in `handoff`, `handoff_silent_peer`, `session`, `projection` and
`mirror`. The other systems really stop: a mesh that is silent, an app that has quit
or closed its proxies, a session on a dead link, a portal client that is through.

Every property of these runs has a mutant, an operator beside the one it
replaces (`GrabStaysOn` beside `GrabOff`), that changes the code's behaviour as a
plausible bug would and violates the property.

### Where the code and its documents disagree

Each of these runs checks one sentence of a document or comment and ends in a
counterexample. `PROJECT.json` quotes the sentence and the line.

| Run | Property | What happens |
|---|---|---|
| `handoff_silent_peer` | `HotkeyAlwaysReleases` | the driver sits in `read_line` without a timeout; the hotkey press waits in the channel, although `handoff.rs:13-14` says that it fires even if the loop is blocked on a dead socket |
| `session_silent` | `SilentLetsGo` | a pulled cable never ends the read, although `tcp.rs:101-102` names the cable pull |
| `proxy_click` | `ClickLands` | a pointer move handled while a click awaits its own move sends the click elsewhere |
| `proxy_quit` | `QuitLetsGo` | the agent is killed before it has read the release |

The models show the following as well; the passing runs exclude it by the
condition of a property, and no run is spent on it:

* Motion at least as fast as the peer's replies keeps the driver's inner loop
  (`handoff.rs:104`) from ever finding the channel empty, and deadline and hotkey
  are looked at outside it only (`SessionEnds` assumes a hand that rests).
* A real event whose flag was loaded before the driver set it (`hook.rs:102`) moves
  the pointer after the callback has returned, maybe after the first warp
  (`handoff.rs:119-120`). The pointer is then off the anchor with the flag on until
  the next warp, and distances taken in between are off by as much. `OneStrayMove`
  is what remains true.
* Events the hook queued before the flag was set were not swallowed, and are
  forwarded as distances from the anchor all the same (`handoff.rs:127`); after a
  refused warp (`handoff.rs:129`), so are all until one is granted. No property
  bounds by how much.
* What a device injected before a restart and its hook shows after it carries the
  marker of the earlier run (`input_guard.rs:26-27`); the guard has forgotten the id
  and lets it be injected again, once per restart. A copy that comes back over
  the wire is not marked at all and is injected again if its id has been evicted.
  What either sends on ends by the hop count (`FallsSilent`).
* Events swallowed while grabbed and read after a release re-arm the crossing and
  can capture again though the pointer never left the anchor; it takes an event
  that jumps half a screen (`handoff.rs:111`). `CaptureFollowsLeaving` is what
  remains true.
* `release_all` forgets inputs before it injects their release and ignores
  refusals (`ipc.rs:269-279`), and a killed agent's inputs stay pressed: the set
  `stuck`, and the condition of `ClosedLetsGo`.
* Several connections are served at a time (`pipe.rs:39`), although the module's
  comment (`pipe.rs:3`) says one; hence the condition of `HeldIsDown`.
* The guard's memory is first in, first out and not least recently used
  (`input_guard.rs:18` and 96): a duplicate does not renew its id.
* Closing or crashing a proxy window does not tell the agent (`main.ts:78`), and
  keys are forwarded whatever the projection's state and whether or not there is a
  picture: nothing asks `canForwardInput`.
* "Every absolute move is exact" (`pointer.rs:18`) until a motion fails: `delta_to`
  has then changed the belief already, and `invalidate` has no caller. Hence
  `drifted` in `BeliefIsTruth`.
* `kvm_mirror` does not send a position twice (`tcp.rs:188`), so it does not correct a
  pointer that something else displaced, and its `read_line` (`tcp.rs:198`) has no
  timeout; hence the premises of `FollowsHand`. `map_edge_crossing` may send one
  position beyond the peer's last pixel. `kvm_demo` with a square beyond the screen
  does not come back to where it began, since the belief is not clamped.
* `call_method` has no timeout of its own: `RESPONSE_TIMEOUT` covers the wait for
  the Response only. The models assume that the bus answers method calls.
* A method call that fails leaves its worker thread waiting for good
  (`portal_call.rs:93`, 103); it ends with the bus. As long as it waits, it keeps the
  connection, and so a session whose client has given up. That is why `LateGrantWithdrawn`
  starts at a session that was started: its own worker has been answered.
* `Suspend` is legal in `RemoteActive` only, so a source that locks during a handoff
  goes back to `RemoteActive`; `Disconnect` and `Fault` are rejected in `Local`
  though a comment (`projection.rs:144`) says any state that is not terminal.
* The agent prints its path before the pipe exists (`pipe.rs:22-23` says a client
  never sees a name without a pipe), `connect` does not retry, and the
  app then opens without an agent.
* With two apps started at once, one may connect to the other's agent
  (`endpoint.rs:3-5`); both then share one desktop. An agent whose app gave up on it
  goes on running.
* An offer sent before the proxy's page has loaded, or after the picker was
  redirected to another projection (`signaling.ts:29`), is lost without a retry, and
  closing any projection the picker belongs to forgets its route to all others.
* A capture that is still being asked for when its proxy closes is never stopped,
  though `docs/testing.md:48` says that the projection stops: the handler calls
  `stop` before there is a stream. Hence the condition of `CaptureEnds`.

## Bounds

* `Handoff`: a screen of seven pixels with a negative origin has an edge band (two
  pixels), an anchor and room on both sides, which is all the code distinguishes;
  the hand moves two pixels one way or one the other. `MaxBacklog` bounds only the
  operator: a real event on its way and warps are queued beyond it. Two queued
  events and the one on its way cover one made before the flag changed, one after
  and one that is decided on when it changes. `MaxPresses` is 1; as soon as a press
  is consumed, another can come.
* `AgentSession`: `MaxPending` is 1: one request unread while another is answered;
  more only repeat the loop. Two connections show what sharing does, because the
  accounting is a disjunction over sessions; a button and a key, because
  `release_all` has that order. `Unmapped` is empty in the run; the theorems cover
  every other choice.
* `LoopMesh`: two events and a memory of one, so that every second event evicts;
  a hop limit of three instead of four still lets an event come round once.
  `MaxFaults` bounds redeliveries and restarts together, `MaxInjections` the
  injections that are counted: from the second on, a count stays what it is, and
  two is all that `AtMostOnce` has to see.
* `ProxyInput`: `MaxRequests` of 2 open requests when an event is taken (the FIFO
  itself grows to 3 with the release): a handler that waits, one that overtakes
  it, and a third request behind. One position suffices except where clicks land.
* `Projection`: `MaxLag` of 2 lets the mirror stand two events behind, so that an
  event it reads is not the last one; `MirrorCorrect` covers every lag.
* `PortalSession`: no program makes more than three calls with a Request; a `MaxCalls`
  of 4 gives the embedder two of its own, such as a declaration and a refresh. Three zone sets, with no monitor, one, and a second
  beside it, make a set stale, twice, and an edge inner. The three desktops
  advertise everything, or of each interface a part or nothing.
* `Mirror`: screens of three pixels have two borders and an inside. The hand rests on
  the right border, where rounding loses a pixel, or beyond it, on a monitor plugged
  in since. The homing motion is longer than the screen, as in the code. `Half` is
  1024 instead of 2^31, because TLC's own integers have 32 bits; the theorems hold
  for every `Half`.
* `Desktop`: two apps, because one more only repeats the race for the file. The two
  halves take turns: a projection starts in an app that is the only one, and no app
  is launched after that, as launches and projections share nothing but the
  picker. Two projections are what routing one picker can confuse. One proxy of the two
  sizes has half a pixel left over in its bars.

## Fairness

* `Handoff`: weak fairness on `Driver`, the steps that wait for nobody but a warp
  under way, on `HandStep` and on `WarpStep`: the OS schedules both threads and carries
  out what the hook lets through, and the callback never blocks (`hook.rs:15-17`). Peer, operator and hotkey promise nothing, and
  `ImplementsControl` holds without them. `HotkeyReleases` and `SessionEnds` are
  implications whose premise, `Cooperation`, says what they need besides: the peer
  answers or its connection breaks, the hand rests at some time, and for
  `SessionEnds` time passes. `SilentPeerSpec`, of the counterexample, keeps
  all but the peer.
* `AgentSession`: weak fairness per connection task, which the runtime polls
  whenever it can go on. Clients promise nothing. `ClosedLetsGo` is conditional on
  an agent that lives and a desktop that does not refuse.
* `LoopMesh`: in `FairSpec` a message under way is handled at last and a hook
  shows an injection at last. Nobody has to capture.
* `ProxyInput`: weak fairness on what the event loop delivers (a reply, a close
  event) and on the agent. `child.kill` takes effect. Operators, windows and crashes
  promise nothing.
* `PortalSession`: threads run, the bus answers a method call (there is no timeout
  that would make up for it), the timer of the wait fires and the portal notices a
  connection that closed. Nothing is assumed of the user or of the portal's answers.
* `Mirror`: both machines run and the peer answers, well or with an error; strong
  fairness on `Lock`, as the mutex serves whoever waits. A motion need not
  succeed. Hands, time and the network promise nothing; the premise of `FollowsHand` says
  what it needs of them.
* `Desktop`: the event loops of main and renderers run, timers fire and
  `getUserMedia` settles. Agents promise nothing up to their line; one that serves a
  pipe answers hello or dies.

## Proofs

For all values of the constants that satisfy the named assumptions:

| Module | Theorem | Argument |
|---|---|---|
| `HandoffProofs` | `TypeCorrect` | one step per action; the clamp keeps the remote pointer on its screen for every delta |
| | `PhasesCorrect`, `GrabCorrect` | `GrabAgrees` alone is not inductive: whether `grabOff` may clear the flag depends on what held when it was entered. `GrabPhases` says what flag and machine are at each point |
| | `ControlImplemented` | with `GrabPhases`, each step maps to a step of `InputControl` or a stutter |
| | `OneStrayCorrect` | `OneStrayMove` is not inductive: `StraysAccounted` adds that after a stray move no event that was let through is on its way, and every later one is decided on with the flag on |
| | `CaptureCorrect` | from `ArmedAfterLeaving`: after a release, armed implies that a real event away from the edge was read. Holds whether or not warps are granted |
| `AgentSessionProofs` | `TypeCorrect`, `AccountedCorrect` | every step that takes an input out of a held set puts it into a draining set, and out of that only by injecting, a refusal or the agent's end |
| | `ServedCorrect` | needs `ReleasePhases`: what draining sets are outside `release` and `close` |
| | `HeldCorrect` | for a session that is served alone: a step of any other task would make it served |
| | `ClosedCorrect` | the safety half of `ClosedLetsGo`: while the agent lives and nothing is refused, `stuck` stays empty, and with every task at its end `Accounted` leaves nothing that could be down |
| `LoopMeshProofs` | `TypeCorrect`, `MemoryCorrect` | the queue has no duplicates, its elements are the set, and both are within the capacity |
| | `OwnCorrect` | the check of the origin does not depend on memory |
| | `HookCorrect` | `EchoesMarked`: whatever a hook has still to show carries the marker of the run that injected it, from `mark_injected` on; so the check that comes before the memory stops it |
| | `OnceCorrect` | `HitsRemembered`: while a run injected no more events than fit, the guard remembers exactly these, so the next one finds room (`SizeOfMemory`) and nothing is evicted |
| `ProxyInputProofs` | `FifoCorrect` | with the types while the socket is open: position by position, the heads of the scripts are the replies under way followed by the requests on the pipe |
| | `TypeCorrect` | what `Kept` makes of a script in `Scripts` is one again |
| | `LanesImplemented` | the safety half of `ImplementsLanes`: what `Kept` does at both ends of a queue, by induction over sequences; the invariant that an open socket has no release on it (`NoRelease`); then one lemma per action, each of which moves at most one entry of one lane |
| `ProjectionProofs` | `TypeCorrect` | an event adds one entry to a queue that was not full |
| | `MirrorCorrect` | the two tables agree row by row (`TablesAgree`), and each entry of `behind` starts where the one before it ended |
| | `SetUpCorrect` | `LiveWasSetUp` is not inductive: `SetUpTo` says for each state of the setup which steps must have been done, although one event reports two of them |
| | `PhasesImplemented` | row by row, every event leads a phase to one that `ProjectionPhases` allows, or leaves it |
| `PortalProofs` | `TypeCorrect` | one lemma per layer: what calls do, and what the session does around them |
| | `ResponseCorrect`, `OutcomeCorrect` | from `CallInv`: where the caller is and what its worker has seen fit together, and mail is always the response of the call under way |
| | `ZonesCorrect`, `BarriersCorrect` | from `SessionInv`: set and zones are replaced in one step, and what a call carries was read from them |
| | `ProbeCorrect` | for all masks: the bits of what is asked for are among the bits the probe looked at. `Foreseen` adds that a script has the selecting method of its own portal only |
| | `GrantCorrect` | the safety half of `LateGrantWithdrawn`, that nobody waits on the connection of a client that is gone: `GrantInv` says that `Start` is the last call anybody makes, and that every call before it was heard by its worker |
| `MirrorProofs` | `BeliefCorrect` | at most one client holds the lock; while it moves, the pointer lags behind the belief by `delta`, and homing ends in the corner from anywhere because `HomeDelta >= PeerWidth` |
| | `TypeCorrect` | `MapRange`: whatever the rounding, the mapped position is within `0 .. RemoteWidth` |
| | `AimCorrect` | the safety half of `FollowsHand`, that between two requests the pointer is where the last one told it: `AimInv`, with the position under way in each stage of the injector; for Windows `WindowsAims`, that normalising to 65535 and back loses at most one pixel if both sides agree on the screen and it has at most 65536 |
| `DesktopProofs` | `TypeCorrect` | one lemma for launches and one for streams; the broker has a group for exactly the open proxies |
| | `WelcomeCorrect` | `EndpointsKnown`: what an earlier launch left in the file is gone before the first agent prints its line, and what is read afterwards names an agent of this launch, alive or not |
| | `PictureCorrect` | `OwnWindow`: no message crosses to another projection. The letterbox is an inequality for each axis (`AlongReaches`) |
| | `CloseCorrect` | the safety half of `CaptureEnds`, that the close is under way or the capture over: `CloseInv` orders the messages to the picker, as a close read before the picker subscribes would be lost |

`ClosedCorrect`, `LanesImplemented`, `GrantCorrect`, `AimCorrect` and `CloseCorrect` prove of a
temporal property what no fairness is needed for: the state it waits for is
reached, or the step that leads there is still pending. That it is taken is left to
TLC.

The library states induction for a predicate, which the provers cannot
instantiate. `ProxyInputProofs` derives the rule for a *set* of sequences
(`SeqInduction`) from the well-foundedness of `<`, which they can, and uses it for
`Kept`, a recursive function.

## What is only model-checked, and what is not modelled

Every type invariant and every safety invariant of a run is proved; liveness is
model-checked only, as fairness and ENABLED are out of the prover's reach:
`HotkeyReleases`, `SessionEnds`, `ClosedLetsGo`, `FallsSilent`, `CallsReturn`,
`LateGrantWithdrawn`, `FollowsHand`, `UiOpens`, `CaptureEnds`, and the fair halves of
`ImplementsControl` and `ImplementsLanes`. Of those five whose safety half is proved, see
above, and `ControlImplemented`, TLC adds that the pending steps happen. The
counterexamples of the four runs that expect one are TLC's too.

Not modelled, and why:

* identifier types, error types and versions: no behaviour; the wire schema has no
  code generated from it; scripts and build files.
* `monitor.rs` and its layouts: nothing uses them. The three other edges of
  `map_edge_crossing`'s callers: only the right one is in use.
* The signals `Activated` and `Deactivated` of InputCapture and the streams of a
  ScreenCast: no code reads them.
* WebRTC itself and ICE: a library's. Candidates take the routes of offers and answers;
  one direction suffices for a connection and the proxy's candidates always find
  the picker, so leaving them out hides no case in which a connection is made or
  missed. Statistics and the list of windows.
* The picker's window closing and the app quitting in `Streaming`: both end the
  renderer and every capture with it. What quitting does to held input is in
  `ProxyInput`.
* `watch-edge`, `enumerate` and `probe` of the agent print and end; installing and
  uninstalling the hook fails before anything is grabbed.
* Tables of scancodes, `SendInput` and window enumeration: data and OS calls.
* Floating-point beyond the one rounding that costs a pixel: the epsilon at the
  border of the letterbox.
* The panic of `clamp` for a remote width below 1 is excluded by an assumption.

## Plan

What is left, in this order:

1. `KvmLink`: `Handoff` composed with `AgentSession`: error replies to forwarded
   moves, which the driver takes for success (`handoff.rs:142`), and the peer's
   release when the driver goes away.
2. Attempt numbers in `ProjectionPhases`: a `NegotiationComplete` of a handoff that was
   aborted commits the next one (`projection.rs:181`), once the code gives its events an
   attempt to name.
3. The safety halves of `HotkeyReleases` and `SessionEnds`: at each point of the
   driver, what it waits for is the peer, the hand or time, and nothing else.
4. A bound for `FallsSilent`: the hops left in a mesh never grow but by a capture or
   a redelivery.
5. The lifecycle of `Projection` driven by `Streaming` and the handoff, when the
   code does so.

## Running it

`tlc -config MCHandoffHistory.cfg MCHandoffHistory.tla`, and so on for the module and cfg
of each run in `PROJECT.json`; `tlapm HandoffProofs.tla`, and so on, for the proofs.
