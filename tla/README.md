# Formal model of gnoblin

gnoblin is a Wayland compositor (a patched Mutter) whose behaviour is configured by a
Lua program running in a process of its own. This directory holds TLA+ models of the
parts of it in which several actors take turns — processes, clients, hardware, timers —
together with the TLC configurations that check them on small instances and TLAPS proofs
of the session lock, of the configuration transaction, of the life cycle of the processes,
of who owns the keyboard, of the routing of input, of the agents that answer polkit, keyrings
and GeoClue, of the idle services, and of the outputs, the protocols and the placement of layer
surfaces.

    tlc -workers 2 -config SessionLock_frames.cfg MCSessionLock     # one run
    tlapm ConfigTransactionProofs.tla                               # the proofs of one module

`PROJECT.json` lists every run with its module, the lines of source each definition
stands for, for every property a mutation of the code that it catches, the places where
code and documents disagree, and the hazards the properties were written for. Source paths
below are relative to `src/src/`.

Contents: 1 the system; 2 the modules; 3 the runs; 4 fairness; 5 proofs; 6 where code and
documents disagree; 7 plan; 8 what is not modelled.

## 1. The system

A *guardian* starts the compositor and a *supervisor*; the supervisor starts a *worker*
that evaluates the user's Lua configuration. Guardian, supervisor and worker share one
end of a `SOCK_SEQPACKET` channel and the compositor has the other. Wayland clients
speak to the compositor; `gnoblinctl`, shells and the portal backend speak to it over the
control socket; polkit, GeoClue, keyrings and the session's D-Bus services ask it questions.

| Component | State | Operations | Hard because | Right when | Module |
|---|---|---|---|---|---|
| **Session lock** `protocols/session-lock/meta-wayland-session-lock.c` | state, owner, lock surfaces per output, views not yet presented, sampled frame counter | lock, unlock, destroy, get surface, client death, views changed, before-paint, presented | late presentations, hotplug, restacks, the owner's death at any point | whoever is told `locked` is told the truth; the cover survives its owner; a waiting owner is answered | `SessionLock` |
| **Lock surface** `…-surface.c` | configures sent, size acknowledged, buffer committed | configure, ack, commit, destroy | messages crossing on the wire | what enters the scene has the size acknowledged, or its client is killed; a correct locker never is | `SessionLockSurface` |
| **Life cycle** `session/gnoblin-runtime*.c` | loop state, restart and resume counters | start, notice a death, suspend, resume, give up | any process dies at any point, messages cut in two | one reader of the channel; recovery or a report | `RuntimeSupervision` |
| **Runtime channel and live overrides** `control/gnoblin-control-runtime-channel.c`, `-overrides.c`, `session/gnoblin-runtime-packets.c`, `-events.c`, `-compositor.c` | staged reload, deferred packets, caches, overlay, revision and generation | CONFIG, RESULT, EVENT, REQUEST, OPERATION, timeouts | two-party transaction, rollback, deferral | both sides commit the same or neither | `ConfigTransaction` |
| **Input routing** `control/gnoblin-control-input-routing.c` | queue of held events, deadline, decisions kept per pressed control, bypass | filter an event, take a decision, time out, cancel | a decision races its deadline, locks, reloads | order kept, nothing into the lock screen, nothing held for ever | `InputRouting` |
| **Keyboard** `control/gnoblin-control-grabs.c`, `-focus.c`, `-dispatch.c` | Mutter's capture and its three owners | grab, shortcut session, shortcut.capture, and their ends | ended from ten places | one owner, one timeout, one end | `KeyCapture` |
| **Gestures** `control/gnoblin-control-focus.c`, `-text-snap.c`, `config/lua/gnoblin-lua-contexts.c` | contexts, tokens, grants, targets | press, use, expire, revoke | several connections and Lua use one press | each scope once, in time, where it was meant | `GestureContexts` |
| **Control socket** `control/gnoblin-control-wire.c`, `-requests.c`, `-signals.c` | connections, deferred requests, UI sessions, watchers | request, answer, broadcast, disconnect | a close inside the broadcast of another | one answer each; nobody asleep; watchers informed | `ControlSocket` |
| **Operations, processes, tweens** `config/lua/gnoblin-lua-operation.c`, `-process.c`, `-tween.c`, `control/gnoblin-control-process.c`, `-tweens.c` | operations and their callbacks, children, players | call, complete, cancel, time out, spawn, reap, play, seek | callbacks inside callbacks, reloads, dead workers | who waits hears the end, once | `LuaOperations`, `ProcessHandles`, `Tweens` |
| **Window rules, corners** `control/windows/gnoblin-control-window-rules.c` | facts, effects, shader files; probe cache | every signal of a window; a scan's end | stale facts, cache at its limit | a window looks as the rules say | `WindowRules`, `CornerProbe` |
| **Animations** `compositor/animation/gnoblin-animation.c` | promised effects, animated actors, a switch | effect, last frame, kill, lock, destroy | a second effect on an animated actor | every effect completed once, no window lost by a switch | `WindowEffects` |
| **Window frames** `protocols/window-frame/meta-gnoblin-frame-renderer.c` | frames, renderer process, held maps | bind, configure, ack, commit, crash, retry | an external process in the path of a map | no frame or map is left to a dead renderer | `FrameRenderer` |
| **Layer shell** `protocols/layer-shell/` | surfaces, configures, focus, struts | the protocol's requests, outputs that go | crossing messages, borrowed focus | mapped, reserved, drawn and focused agree | `LayerSurface`, `LayerGeometry` |
| **Other protocols** `protocols/*` | handles, selections, frames, controls, notifications, globals | the protocols' requests | clients that outlive what they refer to | protocol followed, nothing dangles | `ForeignToplevels`, `DataControl`, `Screencopy`, `OutputControls`, `IdleNotify`, `ProtocolGlobals` |
| **Idle service** `idle.c` | inhibitors, idleness, screen saver | D-Bus calls and signals | synchronous calls overtake signals | inhibitors owned, state told true | `IdleService` |
| **Agents** `agents/` | requests of polkit, gcr and GeoClue, secrets | ask, claim, respond, cancel, time out | services, shells and timers end one request | one answer, no secret outlives it | `AuthRequests`, `PromptRequests`, `LocationAgent` |
| **Portal** `portal/backend/` | leases, monitors, shortcut sessions, batches | Inhibit, Global Shortcuts, service restarts | synchronous calls, a socket that breaks | holds what was granted and not given back | `PortalInhibit`, `PortalShortcuts` |
| **Input sources** `input/gnoblin-control-input-sources.c` | current source, memory per window, IBus | select, focus, reload, IBus signals | two asynchronous selectors | what is current is what was chosen | `InputSources` |

The rest (CLI, login start, rendering, documents, Mutter patches) is in section 8.

## 2. Modules

An action is one main-loop callback of one process, which nothing can interrupt. Where a
callback hands something to another process or to the hardware, the hand-over is a queue
and the other side's step an action of its own. Where handlers call each other, the state is
a record and each function an operator that takes the record the code finds and gives the
one it leaves (`KeyCapture`, `ControlSocket`, `WindowEffects`).

Compositions: `RuntimeSupervision` composes the four processes of a session and
`ConfigTransaction` both ends of the channel. The modules `MCSurfaces`, `MCControl`,
`MCDesktop` and `MCServices` check several components in one run: a variable `subject`
chooses, once, the component that steps, and the others stay where they are, for they share
no state in the code. Abstract specifications: `LockPromise`, implemented by `SessionLock`
(`ImplementsPromise`), and `RequestPromise`, implemented by `AuthRequests` and
`PromptRequests` (`KeepsRequestPromise`).

**SessionLock.** The code's `controller` fields are the variables of the same names. The frame
pipeline is modelled from its use: `counter` is `clutter_stage_get_frame_counter`, and a
frame is painted (`Paint`), reaches the monitor (`Flip`) and is notified
(`NotifyPresented`) in three steps, with up to `MaxInFlight` frames of a view between
them. A frame remembers only whether the session is visible in it. One connector has one
stage view and one `wl_output`. All views awaited by the barrier have the same minimum, as
the code samples the counter once. The scene, its signals, its input handler and its holds are
created and destroyed together and are the one variable `scene`; it is `buried` after a restack
that sends no `child-added`. `MapSurface` is the whole handshake of `SessionLockSurface`. All
protocol errors end in the same disconnection (`ProtocolError`). Hotplug, damage, restacks
and foreign stage children are *disturbances*, of which a run has a bounded number.

**SessionLockSurface.** The three queues are configures the compositor remembers, events on
their way to the client and requests on their way back. A `polite` client acknowledges what
it received and attaches a buffer of that size; otherwise requests are arbitrary, up to `MaxRude`.

**RuntimeSupervision.** Each process has a loop state named for where the code waits. A message
whose type is in `Fragmented` takes two records, and its writer may die between them; the
reader follows the rules of the protocol file, including which types resynchronise it. Faults
are deaths of worker, supervisor or compositor and waits that end early. Left out: the
lifecycle revision, the published *stopping* phase, the restart count's reset after 60 seconds,
the autostart channel, SIGTERM of a running supervisor. The pauses before a restart are no
steps, SIGKILL of a process group takes effect at once, and BOOT is one record.

**ConfigTransaction.** A document is a number, whose parity is its workspaces section (the one
section that is only applied when it changed). The compositor applies six sections in the
order of the code, may fail at each, and then rolls all of them back; a rollback succeeds, or
fails. What a failed section leaves behind is `Mixed`. A tween that a commit cancels completes
with a callback of the old runtime. Callbacks that no packet triggers run at any time, within
`MaxUp` packets underway. The queue of deferred packets is emptied one packet at a time, which
includes the code's own order. One operation is outstanding at a time, and the only API
request is a reload. The module ends when a side gives the channel up: what follows is
`RuntimeSupervision`. Left out: the recovery snapshot, notices, the saved last good file.

**InputRouting.** The controls of one device send presses, repeats and releases. `FilterStopped` to
`FilterHolds` are the returns of the stage filter in their order. A request is named by its
event. The worker's answer is arbitrary, may never come and may come late. `app` observes: what the
application takes for pressed, the last event that left the filter, what went wrong on
the way. Left out: motion and events without a type (forwarded as unmatched events are),
touch, the operations an accepted request allows for 100 ms, the bare Super session.

**KeyCapture.** The record `h` is Mutter's capture with its three owners and their timeouts. A key
event meets the observer, the lock, the capture, the key bindings and the application in this
order. Left out: chord parsing, binding limits, repeats.

**ControlSocket.** A message is counted, not measured: one fits, `MaxPending` of them do, and a huge
one alone does not. A broadcast follows one order that stands for the hash table's. GIO
completes a pending read or write after the stream was closed.

**Surfaces and frames.** `LayerSurface` has polite clients only; a configure whose serial the
compositor still knows is live, one it forgot dead. `LayerGeometry` is a calculation, checked over
small rectangles against what the protocol asks. `FrameRenderer` has one renderer name,
whose process obeys the protocol, may be slow, and may crash.

**Windows.** `WindowEffects` has API previews and effects of one display. Its workspace switch takes actors
out of the window group and back; the list of windows they are taken from (`order`), and the sorting of the group by
it (`Restacked`) when the list changes and when no switch is owed any more, are Mutter's and external. The second
pass of `workspace_switch_restore_actors` changes nothing: Clutter refuses to insert an actor that has a parent, as
the comment in `meta-wayland-session-lock-surface.c` on `add_child` says. The visibility an actor had (`was_visible`)
is left out. `WindowRules` ignores the limit
of 128 shader files, and a window that got its actor without a signal since is exempt. `CornerProbe`
assumes nothing about how many processes want a slot of the cache. `ForeignToplevels` keeps a window's
type as it was created. `Screencopy` has one axis; a frame that failed at its capture and is copied
under a lock gets a second `failed`. `OutputControls` has one CRTC for an output.

**Lua.** `LuaOperations`: a callback is a step of an open dispatch. A timer past the limit leaves an
operation nobody was given, and completions may come while a candidate document is out. `ProcessHandles`: the
number of a collected child is not used again, only captured children write, and what a kill
answers is left out, as are stdin and the validation of arguments. `Tweens`: curves, other writers
of a transform and the replies of pause, seek and kill are left out.

**D-Bus.** `AuthRequests`: `polkit_agent_session_initiate` does not complete synchronously. `PromptRequests`:
one question of a prompt object at a time; an owned name is lost only with the bus. `LocationAgent`: calls of
`g_bus_get` overlap, up to `MaxAttempts` of them, and the later answer takes the object's id with it; FIFO
messages, a GeoClue that took the agent answers `Get`. `PortalInhibit`: the
guarantees hold while neither the screen saver nor the session manager was restarted; a lost late
answer may leak a cookie. `PortalShortcuts`: one batch of a session at a time (`OneAtATime`), one shortcut
per accelerator, a FIFO compositor. `InputSources`: generation counters are the outcome of their
comparison, and IBus is FIFO and comes up only after its end was heard; only the keymap's own
key changes the group. `IdleService`: signals come in one order, synchronous calls overtake them.

**GestureContexts.** Collisions of random tokens, the limits of targets and the modifiers that forbid text
are the branch "refused"; a reload is atomic behind queued operations; an instance has one gesture.

## 3. Runs

Every invariant of a composed run is the conjunction of its component's properties, each of
which is named and commented in the component's module.

| Run | Asks | Properties |
|---|---|---|
| `session_lock_frames` | Is the client told the truth, and is it told? | `ToldMeansSealed`, `ProofIsFresh`, `ImplementsPromise`, `BarrierEnds` |
| `session_lock_owners` | Do two lockers with two surfaces ever both own the lock, or keep a surface after losing it or its output? | `TypeOK`, `OnlyOwnerSurfaces`, `OwnerKeepsLock` |
| `surfaces` | Do lock surfaces, layer surfaces and frames show what was acknowledged, through every crossing? | `PoliteLockerKept`, `SceneHoldsAckedPixels`, `Settles`, `LayerSound`, `MapsEnd` |
| `supervision_deaths` | Does the session recover from any four faults? | `OneWorkerServes`, `DeathsContained`, `Recovers` |
| `config_reloads` | Do both sides agree after any mix of events, reloads, failures and timeouts? | `Agreement`, `RevisionsFit`, `QueuesSound`, `RequestsAnswered` |
| `input_routing` | What happens to an event that is held? | `QueueInOrder`, `NothingIntoLock`, `HeldEventsLeave` |
| `control` | Who has the keyboard, and who hears what on the socket? | `KeyboardOwned`, `KeyboardComesBack`, `SocketSound`, `WatchersInformed`, `OneOwner` |
| `desktop` | Is each protocol and agent of the compositor, and the idle service, sound by itself? | `Placement`, `ProtocolsSound`, `OutputsSound`, `IdleSound`, `AgentsSound`, `KeepsRequestPromise` |
| `services` | Is each service of the session, and each part that draws windows? | `RuntimeSound`, `PortalSound`, `InputSound`, `EffectsSound`, `SwitchKeepsStacking`, `RulesSound`, `FramesSound` |
| `session_lock_takeover`, `config_overrides`, `input_orphans` | Each shows one disagreement of section 6. | |

**Session lock.** `ToldMeansSealed`: once a client is told `locked`, or a presentation is reported
confirmed, no monitor shows the session and no queued frame would. `ProofIsFresh`: the proof
rests on frames submitted after the latest cover, restack, hotplug or takeover. `BarrierEnds`:
neither a stale frame nor a restack stalls the barrier, and the owner is answered. *Bounds*: two
views, because the barrier waits for all and one can come or go meanwhile; one frame in flight
and one on screen, which is where a notification is late; two disturbances, so that one hits a
barrier that another has restarted. The lock itself is one, and so is each hotplug, restack and
takeover. Where ownership is the question there are two clients and surfaces and three disturbances: the
lock, then two of a takeover after a death, an output that goes and a restack under the lock.
That run compares states by `OwnersView`: the guards ask of a frame's number only whether it is above the sampled
minimum, and what a monitor shows guards nothing, so states that agree in the view take the same
steps to states that agree again; the properties of owners read nothing else but the types of the
numbers left out. The two questions have separate runs because their product is too
large. These bounds matter least: the invariants are proved for all values.

**Surfaces.** *Bounds*: two sizes and four configures, enough for a resize and its reversal while two
messages cross; wire queues of four; one rude request. One layer surface on an output of two modes;
one framed window and three outside events (`services` has two windows). Killed clients
stop, so the run does not check deadlock. `SceneHoldsAckedPixels` has two halves: an invariant, the scene holds pixels
only while the role is open and mapped; and a statement about steps, what enters the scene or changes
there has the size acknowledged at that moment, or its client is disconnected in that step. The size acknowledged
may change later while the old picture stays, until the client commits the next. `apply_state` applies a buffer
before it compares its size, so the picture of a wrong size is there until the disconnection takes the surface away.

**Life cycle.** `OneWorkerServes`: the host end of the channel has one reader, and when the channel
is quiet a serving worker is not a suspended one and both sides hold one configuration. `DeathsContained`:
a compositor without a first configuration outlives workers and supervisors, and the message
after a death starts cleanly. `Recovers`: in the end there is a serving worker or a report that there
will be none. *Bounds*: four faults against two restarts, so that the restarts run out with two
faults left for the process that has to report it; two configurations, so that a replacement can
hold the wrong one; the messages that matter to recovery take two records.

**Configuration.** `Agreement` is `AllOrNothing` (a configuration is applied as a whole or not at all)
and `BothOrNeither`; `RevisionsFit` is `NeverStale` and `InputSeesItsDocument`; `QueuesSound` is
`AnswersFit` and `NoneLost`. *Bounds*: two documents differing in the workspaces section, two
stimuli (two reloads, or a reload and an event, in both orders) besides the startup loads, a queue
of one so that it overflows, one handler change. Proved for all bounds, except for liveness.

**Input.** `QueueInOrder`: no later event overtakes a held one, and nothing is held when nobody would decide
it. `NothingIntoLock`: what was held for the session is not delivered to the lock screen. *Bounds*: two
controls, one of which may be handled on press, on release or both while the other queues
behind it; four events, that is two complete strokes; a queue of two so that it overflows; one
change of the configuration and any number of reloads that change nothing.

**Control.** *Bounds*: a passive shortcut of Lua, a modal one of a client, bare Super and one plain key,
so that each way to take the keyboard meets each other; two grabs and captures; one reload or
suspension. Two socket clients, one state, two messages each and a queue of two: each can
flood, watch and own while the other leaves.

**Desktop and services.** The bounds of each component are stated in the composing module above its instance;
in each they are the fewest with which two of its actors, and one event from outside, meet in every order.
A workspace switch is checked twice. In `Effects` three windows are animated in every way, and the switch takes the
neighbours of a window on both workspaces. In `Switches` a window is opened before, during or after a switch, and
windows are raised twice and closed meanwhile. `SwitchKeepsStacking`: no actor is lost or brought back dead, and when
no switch is under way the group is in Mutter's order again, whichever way the switch ended.
Margins are negative, zero and positive, and zones reach beyond the output: with fewer `Placement` once
held of a statement that is false. Two calls of `g_bus_get` may be under way. `Off` is the value of what is not
the subject. All of `desktop` is proved for all values; it is a module of its own so that the provers see no more
than they need.

## 4. Fairness

Fairness is stated only for what the system itself schedules, never for users, clients that may
be broken, or faults.

- `SessionLock`: the frame clock paints a view with a redraw queued, the display completes
  flips, the main loop dispatches notifications (weak fairness for each view). A view that is
  removed is no longer required to do any of it.
- `SessionLockSurface`: the compositor dispatches requests and a *polite* locker reads events
  and draws; an arbitrary one owes nothing.
- `FrameRenderer`: the timeout and the idle callback of a map, the renderer's drawing and the
  compositor's reading, the end of a process and of its connection, and the retry timer. Nothing
  is assumed of the next launch.
- `RuntimeSupervision`: each process takes its enabled steps; a wait ends by its timer when the
  other side is silent.
- `ConfigTransaction`: both main loops read their channel, deferred packets are dispatched, the
  15 second timer of a reload expires. Operations need never complete.
- `InputRouting`: the 16 ms timer expires. Nothing is assumed of the worker.
- `KeyCapture`: timeouts fire. Liveness is asked only for when the user types no more and
  nobody renews a lease (`Rest`).

The other modules state safety only: what has to happen in the end is asked of the states in which
nothing is underway ("at rest nobody waits"), which needs no fairness.

## 5. Proofs

The proved theorems hold for every value of the constants that satisfies the named assumption
of the module; TLC evaluates the assumption in each run.

| Theorem | States |
|---|---|
| `SessionLockProofs!TypeCorrect` | `Spec => []TypeOK` |
| `SessionLockProofs!ToldSealed` | `Spec => []ToldMeansSealed` |
| `SessionLockProofs!FreshProof` | `Spec => []ProofIsFresh` |
| `SessionLockProofs!OwnerSurfaces` | `Spec => []OnlyOwnerSurfaces` |
| `SessionLockProofs!Refinement` | `Spec => ImplementsPromise` |
| `SessionLockSurfaceProofs!ScenePixels` | `Spec => SceneHoldsAckedPixels` |
| `SessionLockSurfaceProofs!PoliteSafe` | `Spec => []PoliteLockerKept` |
| `SessionLockSurfaceProofs!LayersKept` | `AllSpec => []LayerSound` |
| `ConfigTransactionProofs!OneDocument` | `Spec => []Agreement` |
| `ConfigTransactionProofs!OneMeaning` | `Spec => []RevisionsFit` |
| `ConfigTransactionProofs!NothingLost` | `Spec => []QueuesSound` |
| `KeyCaptureProofs!OneKeyboard` | `Spec => []KeyboardOwned` |
| `RuntimeSupervisionProofs!OneWorker` | `Spec => []OneWorkerServes` |
| `SessionLockProofs!OwnerKept` | `Spec => OwnerKeepsLock` |
| `InputRoutingProofs!OrderHeld` | `Spec => []QueueInOrder` |
| `InputRoutingProofs!LockHearsNothing` | `Spec => []NothingIntoLock` |
| `DesktopProofs!OutputsKept` | `AllSpec => []OutputsSound` |
| `DesktopProofs!ProtocolsTrue` | `AllSpec => []ProtocolsSound` |
| `DesktopProofs!SurfacesPlaced` | `AllSpec => []Placement` |
| `DesktopProofs!IdleKept` | `AllSpec => []IdleSound` |
| `AgentsProofs!QuestionsAnsweredOnce` | `AllSpec => KeepsRequestPromise` |
| `AgentsProofs!AgentsKept` | `AllSpec => []AgentsSound` |

**SessionLock.** *Assumption* `SessionLockAssumption`: the bounds are naturals and the two null
values are no clients, lock records or surfaces; nothing about how many views or clients there
are. *Argument*: `ToldMeansSealed` is not inductive: that the last awaited view proves the cover
says nothing about frames of other views that are still queued. `IInv` adds three facts.
`FrameOrder`: the frames of a view are numbered in the order on-screen, queued, and notifications
are no newer than the screen. `FenceHolds`: while the scene exists, a frame in which the session is
visible belongs to a view still awaited and is older than the sampled minimum, and a view no longer
awaited shows a frame newer than it. `ActiveMeansCovered`: the scene exists exactly while the state
is not UNLOCKED. A notification newer than the minimum then proves that its own view is covered
and, because frames of a view are ordered, that nothing queued behind it is older. Restack,
hotplug and takeover restart the fence (`ResetBarrier`), so each of them re-establishes
`FenceHolds` from `FrameOrder` alone (lemma `AfterReset`). `FreshProof` and `Refinement` follow from
`IInv`; in the refinement every step maps to a step of `LockPromise` or to a stutter.
`OwnerSurfaces` has an invariant of its own about roles and the map of surfaces. `OwnerKept` is an action
property: of the steps from the invariant, only the end of the owner itself changes the owner.

**SessionLockSurface.** *Assumption* `SurfaceAssumption`: the bounds are positive, a rude request fits on
the wire, and "no size" is no size. *Argument*: `ScenePixels` rests on `SceneInv`, in which an open mapped surface has an acknowledged size, has pixels
and is in the scene; so only a commit can draw (`SceneDraws`), and a commit that draws another size kills. That a polite locker is never
disconnected is a statement about requests in flight, which the compositor will judge in a later
state; `Wire` says of each of them that it will find what it needs: serials grow along both queues
(`Growing`), every acknowledgement underway names a configure that is still remembered
(`AcksFind`, `Remembered`), and a buffer underway has the size of the acknowledgement before it or, when
none is before it, the size acknowledged (`BuffersFit`). Once the lock is given up the compositor judges
requests no more (`Exempt`).

**LayerSurface.** *Assumption* `SurfacesAssumption`, of which the proof needs little: "none" is no output, a wire
has a bound. *Argument*: `IInv` says the same of each surface, so a step has to be followed for the surface it touches.
`LifeKept`: a surface without its object has nothing; an open one has its window; a closed one has its timeout
and a word to the client, told or underway; space is reserved only for what is shown. `HandshakeKept`: what the
client may commit next is allowed, the configure it waits for is on the wire, no configure that was forgotten is in its way, and once the
wire holds none to answer, what it drew last is what is reserved. `PoliteNeverKilled` and
`HandshakeAnswered` follow. `KeyboardReturns` is about the list of handlers, which `Detached` rebuilds by a recursive
function; that it keeps order and loses only what it should is shown of every prefix by the least-number argument
described below for `InputRouting`.

**ConfigTransaction.** *Assumption* `ConfigAssumption`: the bounds are naturals, as given there. *Argument*: the
properties compare the two ends of FIFO channels, so the invariant speaks of what is on them.
`Commits`: the documents underway form a chain from the one the compositor holds to the worker's,
each at least as new as the one before and the same when it has the same revision. `Candidates`: the
candidate of a reload is the last packet of that chain. `Answers`: an answer is underway
only when no document is, and is the answer the staged reload waits for. `Agrees` and `Keys`: outside
of a reload both sides hold what the chain ends in, and the key that waits was offered for the document the
worker has. `InSequence`: what the compositor sent is on the channel or in the queue with consecutive
numbers, which is what `NoneLost` says. The lemmas about sequences of packets are stated for any sequence
and cited by name.

**KeyCapture.** *Assumption* `CaptureAssumption`: modal and client shortcuts are shortcuts, and the names used for
Super, Alt, no shortcut and the two timeouts are no keys. *Argument*: every end of an owner is a function of the
record, and the code composes them in many orders (the lock ends a session, a grab and a capture; a reload ends two sessions
besides). So each function is shown once, of any record, to keep it `Owned` (the capture is on for
exactly one owner, whose timeout is the one that runs, and a capturing session is the current one), to
keep `Told` (of n grabs all but the present one ended, once), and to leave no more than there was
(`Lesser`), a relation that composes. The actions follow from these lemmas. `IInv` adds that nothing is captured
while the session is locked or after the channel was given up, and that a grab exists only while the application
holds no key, without which `LockOwnsKeyboard` and `GrabFindsKeysUp` are not inductive.

**RuntimeSupervision.** *Assumption* `SupervisionAssumption`: the bounds are naturals, at least one configuration is
tried, and any messages may be fragmented. *Argument*: the invariant has four layers. The type invariant needs to
know that restarts left are within the limit (`Counted`). `SingleReader` follows from which processes can exist
together (`Chain`). What the flags on their way to the guardian imply (`Roles`) tells a first worker from one that
resumes: a supervisor that dies before the guardian read STARTED is started afresh, with a worker that sends CONFIG 0
to a compositor that may have committed it long ago. `Channel` says what the four queues can hold. Messages of
workers that died stay in the channel, and their answers in the way back, so it is the order that matters: a RESUME
has everything older workers left in front of it (`Queued`), what a compositor said before it was suspended is
followed by SUSPENDED (`Silenced`), which ends a worker that takes a stale HELLO for its own (`Doomed`), and until a
worker has started there is no configuration but the first (`Young`). A reload is then followed from `Agreed` to
`Asked`, `Answered` and back. Messages of two records are why the queues are reasoned about by the frame that
completes a message (`Ending`). While proving it a stronger claim turned out to be false, see section 6: the
compositor may be `failed` while a worker serves.

**InputRouting.** *Assumption* `InputAssumption`: handlers match controls of the device, a queue holds at least one
event. *Argument*: `IInv` says that what is held is in the order of the events and newer than all that left, and
that nothing is held under the lock, under a bypass, or when no handler is there to decide it. The last was found
while proving: without it a queue might wait, behind a policy that was removed, to be overtaken. A queue leaves by
a recursion over it (`AllLeave`), and the prover has no induction over data. `InputRoutingProofs` takes the
least number at which a fact fails instead: so the recursive function exists (`RunExists`), and what holds of the
application before the queue leaves, and is kept by one event, holds after it (`AllFollow`).

**Desktop.** *Assumption* `DesktopAssumption`: the conjunction of those of the components. Bounds are naturals; the
values for nothing are no clients, windows or outputs; `ScreencopyAssumption` has outputs of the integer axis with
a positive scale; `GeometryAssumption` has natural extents and any integers as margins and zones. *Argument*: `AllSpec`
has one subject for ever (`SubjectSteps`), so each component has an inductive invariant of its own, `IInv` in its
module. `OutputControls`: the control of an output is the only valid one of it, the table shown is its, and the
original is kept while there is one. `Screencopy`: a frame remembers what it was offered, and a copy reads what is
visible then; that rounding outwards covers the rectangle is integer division, done once in lemmas about quotients.
`ForeignToplevels` and `DataControl`: what a client was told last is what is so, or it was told nothing since the lock; a
target lives as long as it is referred to. `Placement` has no invariant, the surface is computed at once; it is
case analysis over the anchors. The proof refuted the statement twice: margins may be negative, and a zone deeper than
the output covers it all. `IdleNotify`: a live notification waits for the user's return just when it was told that
the user is idle. `IdleService` speaks to a session bus whose signals come late, while its own calls are answered at
once, so its invariant reads the messages underway in order. `ClientsKept`: word that a client left follows all it
asked for, so nothing is granted to it later for ever. `PresenceKept`: between two arrivals of the idle monitor there
is word that it left, and until then nothing it gave is trusted. `WatchesKept`: while the monitor is the one that was
asked, each watch of the service is registered or the word that it fired is underway, and what is believed of the user
is so or about to be corrected. `SaverKept`: the last word about the owner of the saver's name tells who owns it; what
an owner said counts from its arrival; and the compositor's stream ends in what is so. That the user is heard of
for *every* idle period is false (`HearsEveryIdle`, section 6), which is why `ActivityFollows` has its condition.

**Agents.** *Assumptions* `AuthAssumption`, `PromptAssumption`, `LocationAssumption`: positive bounds, levels that are not
zero. *Argument*: a request of polkit is new, waits (with its timer, told once and not answered) or is over; one of
the keyring waits or has ended with its timer and its cancellable given up, and of all brokers only one runs, kept
alive by just what it waits for. From these invariants every step of a handler answers and tells of a
request as `RequestPromise` allows: the refinement maps the observer's counts to the promise, and steps that
touch no request to stutters. The agent of GeoClue speaks to a service that comes and goes, so its
invariant is about messages: `BusKept` (which calls of `g_bus_get` are under way and what each will do),
`ChannelKept` (the messages under way foretell what the agent takes GeoClue to be) and `RequestsKept` (what is asked is
answered or waits for an answer that is on its way, with its timer). `KnowEachOther` held, as first
stated, for one call of `g_bus_get` at a time; with two the id of the exported object may be lost (section 6), which
the model now tells apart (`exported = "lost"`).

*Only model-checked, out of the prover's reach*: liveness (`BarrierEnds`, `Settles`, `MapsEnd`, `Recovers`,
`RequestsAnswered`, `HeldEventsLeave`, `KeyboardComesBack`), which needs fairness and ENABLED; and what is defined
by operators that call each other recursively (`SocketSound`, `WatchersInformed`, `OneOwner`: a close inside the
broadcast of another in `ControlSocket`), for the prover takes no RECURSIVE operator. *Only model-checked so
far*: `DeathsContained`; and the properties of `services`: `EffectsSound`, `SwitchKeepsStacking`, `RulesSound`,
`FramesSound`, `PortalSound`, `InputSound`, and `RuntimeSound`, where `Tweens` folds over timelines and would need the
argument of `InputRouting` for each.

## 6. Where code and documents disagree

Each of three runs ends in a counterexample; the quotations are in `PROJECT.json`.

1. `session_lock_takeover` — after a locker crash a reload may withdraw the manager global, and then no
   client can take the lock over as `docs/session-lock.md` promises. The property is about steps in
   FAILSAFE only: in the trace a client locks, dies, and the manager is withdrawn after that.
2. `config_overrides` — each CONFIG of an event clears the overlay of the overrides, and only the
   rollback lays it again.
3. `input_orphans` — an application receives the release of a press withheld from it when a reload in
   between removes the input handlers.

The following were seen while modelling. Those with a name are stated in their module and
violated there; they have no run of their own.

*Runtime.* A worker may serve a compositor that was told FAILED and discards what it says: its predecessor sent CONFIG 0 and
died unnoticed, the supervisor used up its restarts, reported FAILED and died before the guardian heard STARTED, and
the fresh worker takes the HELLO meant for the first. A worker that dies between RESUME and the byte that reports it leaves a resumed compositor which
the supervisor takes for suspended (`RuntimeNotAborted`). Output of a dead worker is not
discarded when its first record was already read (`OutputDiscarded`). A callback's document is not sent while a reload is
with the compositor "because the runtime goes away"; when the reload is rejected it stays and both sides
differ (`InStep`; `session/gnoblin-runtime-events.c:15`). A supervisor that took over hands its counters to its
first worker only (`session/gnoblin-runtime-supervisor.c:266`). An event commit while a key waits
makes the right answer an invalid one (`control/gnoblin-control-input-routing.c:696`). A signal may go to a group
whose number is used again, between the collection of a child and `process_wait_done`
(`control/gnoblin-control-process.c`). A tween's callback is lost after a failed reload though the tween "finished"
(`control`'s player against `docs/shell-api/tweens.md:29`); a paused tween survives the lock and can be moved
(`control/gnoblin-control-tweens.c:167` against `tweens.md:62`); a refused resume leaves the status "playing".
Nested `launches.begin` of one token from a "closed" listener leaves two handles alive.

*Shortcuts and input.* A passive session whose modifier comes up under a modal one stays active
(`SessionsEndWithModifier`; `control/gnoblin-control-focus.c:822` against
`docs/shell-api/keyboard-shortcuts.md:106`). A window that loses the focus while another window's
selection is out is given whatever was current (`input/gnoblin-control-input-sources.c:1047` against
`docs/shell-api/input.md:75`); an IBus selection that fails never publishes what was withheld
(`:838` against `input.md:79`); a reload that drops the current source while a selection is out leaves none current.
A window drag's motion renews its `settings_revision`, so targets of an older revision stay valid; the
restore frame is kept after a snapped window was dragged away (`docs/shell-api/windows.md:94`).

*Window frames.* A polite renderer may be disconnected (`PoliteNotKilled`;
`docs/window-frame-renderers.md:84` against `meta-gnoblin-frame-renderer.c:992`); pixels of an older generation
may be shown with newer regions (`StaleNotShown`; `gnoblin-window-frame-v1.xml:17`); a frame may
stay behind the size of its window (`CatchesUp`; `docs/window-frame-renderers.md:81`); a reload does not restart a
renderer that gave up (`ReloadRestarts`; `:120` there against `control/gnoblin-control-runtime-channel.c:1231`).
A null buffer after a presented one does not select the fallback; launch attempts are never reset.

*Protocols.* A layer surface stretched between two edges loses a margin (`StretchKeepsMargins`;
`meta-wayland-layer-shell.c:549`). A toplevel handle touches its freed manager
(`HandlesOutliveManager`; `meta-wayland-foreign-toplevel-management.c:328,490`), and `parent` is sent only at the
announcement. A gamma control that takes over restores the table it found, not the original
(`OriginalRestored`; `meta-wayland-gamma-control.c:9`); so `OutputsSound`, and its theorem, promise the original
only of outputs whose control was never taken over, and while the layout did not change (`GammaRestored`).

*Windows.* A rule on the number of a workspace keeps the number from before a workspace went
(`NumberIsCurrent`; `docs/config/window_rule.md:25`). More processes than the corner cache has slots probe each other
out for ever. The second pass that is to "preserve local stacking" after a workspace switch
(`compositor/animation/gnoblin-animation.c:1917-1920`) has no effect, its inserts being refused; what restores the order is
that Mutter restacks when the switch is completed (`Restacked`). `was_visible` is stale when an effect is restored, and an iterator goes on after its
element was removed (`compositor/animation/gnoblin-animation.c:1487`).

*Session services.* `idle.c:478` forgets an idle watch that fired without removing it, and a watch whose registration
failed is never tried again; an idle period that begins and ends between the registrations of the two watches is missed
(`HearsEveryIdle`). `auth.begin` uses a request that a synchronous end of the
helper freed (`agents/gnoblin-control-auth.c:231`); request numbers restart with each agent. The location event says
"allowed" although GeoClue was told "denied" (`docs/events/lifecycle.md:145`); overlapping `g_bus_get` lose an object's id
(`agents/gnoblin-location-agent.c:404`); a failed `AddAgent` is not tried again. The prompt broker keeps
`owned_names` at one when the last name is lost after the other.

*Portal.* A rebind while a batch is out frees accelerators that it still points to
(`portal/backend/gnoblin-globalshortcuts.c:1159` against `:949`), or strays old ids; a cancelled bind comes alive after a
reconnection; a provider's error leaves a session bound; a bind is answered 0 though its session closed. A restarted screen
saver numbers cookies from one again; a granted but late answer leaks a cookie; monitors are stale after a
restart; the session state never returns to RUNNING.

## 7. Plan

Done: the modules of section 2 and the proofs of section 5. Next, in this order.

1. Proofs. `GestureContexts`: `OnceEach`. `InputSources` and `PortalInhibit`, whose messages can be read as those of `IdleService` are.
   `RuntimeSupervision`: `DeathsContained`, from a further invariant about half-written messages.
2. An abstract agreement (two parties commit the same sequence of documents) that `ConfigTransaction`
   implements up to the end of the channel.
3. Modules: window drags; Lua objects, publication and launches; input configuration and the IBus input method; workspaces and monitors;
   the window effects of `meta-gnoblin-window-effects.c`; the console; the built-in frame; portal capture; login start.

## 8. Not modelled

- Pure functions over documents (validation, salvage, merge, keybinding catalogues): long but
  sequential, with unit tests, and no state another actor can see.
- The Lua interpreter and its bindings: seen through what a handler may do in `ConfigTransaction` and `LuaOperations`.
- Rendering (shaders, blur, shadows), the built-in window frame, the console and the panels: pixels and geometry.
- Window drags, launches, workspaces and monitors, input configuration, the IBus input method, the PipeWire monitor, the
  file chooser, mail, screenshot and wallpaper portals, blur fade: not reached yet, see the plan.
- Login start, diagnostics, environment: files and processes with little state.
- Command line tools, packaging, the build, and the Mutter patches, which belong to another code base; where
  `src/src` depends on them they appear as definitions marked external.
