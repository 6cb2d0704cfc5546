------------------------------ MODULE MCDesktop ------------------------------
(***************************************************************************)
(* The components of the compositor that promise nothing about time,       *)
(* checked in one run.  Each keeps its own state in the code too:          *)
(* `subject' chooses, once, the one that steps; the variables of the       *)
(* others are Off and stay so.                                             *)
(***************************************************************************)
EXTENDS Integers, Sequences, TLC

CONSTANT Off

VARIABLES subject

-----------------------------------------------------------------------------
(* One output of even width and odd height, away from the origin; a margin   *)
(* that reaches outside it and a zone thicker than it is high.               *)

CONSTANTS LayerOutputs, LayerExtents, LayerMargins, LayerZones
OneOutput == {[x |-> 3, y |-> 2, width |-> 8, height |-> 7]}
SomeMargins == {-1, 0, 2}

VARIABLES mon, state, layShown, strut
Geometry == INSTANCE LayerGeometry WITH
  Monitors <- LayerOutputs, Extents <- LayerExtents, Margins <- LayerMargins,
  Zones <- LayerZones, shown <- layShown
geometryVars == <<mon, state, layShown, strut>>
GeometryOff == mon = Off /\ state = Off /\ layShown = Off /\ strut = Off

-----------------------------------------------------------------------------
(* Two taskbars that control a window and one that lists it.                 *)

CONSTANTS TaskWindows, Taskbars, TaskLists, TaskChanges

VARIABLES window, manager, handle, dock, target, crashed, topChanges
Toplevels == INSTANCE ForeignToplevels WITH
  Windows <- TaskWindows, Management <- Taskbars, Lists <- TaskLists,
  MaxChanges <- TaskChanges, changes <- topChanges
toplevelsVars == <<window, manager, handle, dock, target, crashed, topChanges>>
ToplevelsOff == /\ window = Off /\ manager = Off /\ handle = Off /\ dock = Off
                /\ target = Off /\ crashed = Off /\ topChanges = Off

-----------------------------------------------------------------------------
(* Two clients that want one output's gamma table and power.                 *)

CONSTANTS GammaOutputs, GammaControls, OutputEvents

VARIABLES lut, controls, gamma, power, mode, taken, layouts, outEvents
Screens == INSTANCE OutputControls WITH
  Monitors <- GammaOutputs, Controls <- GammaControls, MaxEvents <- OutputEvents,
  events <- outEvents
outputsVars == <<lut, controls, gamma, power, mode, taken, layouts, outEvents>>
OutputsOff == /\ lut = Off /\ controls = Off /\ gamma = Off /\ power = Off
              /\ mode = Off /\ taken = Off /\ layouts = Off /\ outEvents = Off

-----------------------------------------------------------------------------
(* Two clipboard managers, each of which may copy and watch.                 *)

CONSTANTS ClipSources, ClipDevices, ClipChanges

VARIABLES owner, source, device, clipLocked, copies
Clipboard == INSTANCE DataControl WITH
  Sources <- ClipSources, Devices <- ClipDevices, MaxChanges <- ClipChanges,
  locked <- clipLocked, changes <- copies
clipboardVars == <<owner, source, device, clipLocked, copies>>
ClipboardOff == /\ owner = Off /\ source = Off /\ device = Off
                /\ clipLocked = Off /\ copies = Off

-----------------------------------------------------------------------------
(* An output scaled by one, and the one of a fraction that replaces it.      *)

CONSTANTS CaptureFrames, CaptureOutputs, CaptureReach, CaptureChanges
TwoOutputs == {[at |-> 1, len |-> 2, scale2 |-> 2], [at |-> 0, len |-> 3, scale2 |-> 3]}

VARIABLES frame, capLocked, output, capChanges
Capture == INSTANCE Screencopy WITH
  Frames <- CaptureFrames, Reach <- CaptureReach, MaxChanges <- CaptureChanges,
  Outputs <- CaptureOutputs, locked <- capLocked, changes <- capChanges
captureVars == <<frame, capLocked, output, capChanges>>
CaptureOff == frame = Off /\ capLocked = Off /\ output = Off /\ capChanges = Off

-----------------------------------------------------------------------------
(* One notification, whose timeout and idle time reach past each other.      *)

CONSTANTS Notifications, LongestIdle, NoteChanges

VARIABLES note, idleFor, inhibited, returns
Notify == INSTANCE IdleNotify WITH
  MaxIdle <- LongestIdle, MaxChanges <- NoteChanges, changes <- returns
notifyVars == <<note, idleFor, inhibited, returns>>
NotifyOff == note = Off /\ idleFor = Off /\ inhibited = Off /\ returns = Off

-----------------------------------------------------------------------------
(* Three protocols, the middle one with a filter.                            *)

CONSTANTS Protocols, Hooked, MaxReloads

VARIABLES phase, registered, global, filtered, enabled, applied, misused, reloads
Globals == INSTANCE ProtocolGlobals
globalsVars == <<phase, registered, global, filtered, enabled, applied, misused, reloads>>
GlobalsOff == /\ phase = Off /\ registered = Off /\ global = Off /\ filtered = Off
              /\ enabled = Off /\ applied = Off /\ misused = Off /\ reloads = Off

-----------------------------------------------------------------------------
(* Two clients that inhibit, while GNOME's screen saver comes and goes.      *)

CONSTANTS IdleClients, IdleCookies, ServiceEvents

VARIABLES bus, inhibitors, fds, next, granted, on, activity, user, saver, truth, stream, served,
          unsure, serviceEvents
Service == INSTANCE IdleService WITH
  Senders <- IdleClients, MaxCookies <- IdleCookies, MaxEvents <- ServiceEvents,
  events <- serviceEvents
serviceVars == <<bus, inhibitors, fds, next, granted, on, activity, user, saver, truth, stream,
                 served, unsure, serviceEvents>>
ServiceOff == /\ bus = Off /\ inhibitors = Off /\ fds = Off /\ next = Off /\ granted = Off
              /\ on = Off /\ activity = Off /\ user = Off /\ saver = Off /\ truth = Off
              /\ stream = Off /\ served = Off /\ unsure = Off /\ serviceEvents = Off

-----------------------------------------------------------------------------
(* Three questions of polkit to a table of two, and a shell that hears them. *)

CONSTANTS AuthQuestions, Shells, AuthPending, AuthEvents

VARIABLES agent, agents, polkitKnows, authRequest, authEvents
Auth == INSTANCE AuthRequests WITH
  MaxRequests <- AuthQuestions, Clients <- Shells, MaxPending <- AuthPending,
  MaxEvents <- AuthEvents, registered <- polkitKnows,
  request <- authRequest, events <- authEvents
authVars == <<agent, agents, polkitKnows, authRequest, authEvents>>
AuthOff == /\ agent = Off /\ agents = Off /\ polkitKnows = Off
           /\ authRequest = Off /\ authEvents = Off

-----------------------------------------------------------------------------
(* Two questions of one prompt, the second while the first waits or after,   *)
(* and a broker that is replaced.                                            *)

CONSTANTS PromptQuestions, Prompts, PromptPending, Brokers, PromptEvents

VARIABLES broker, brokers, toldAvailable, promptRequest, password, promptEvents
Asking == INSTANCE PromptRequests WITH
  MaxRequests <- PromptQuestions, Clients <- Shells, MaxPending <- PromptPending,
  MaxBrokers <- Brokers, MaxEvents <- PromptEvents,
  told <- toldAvailable, request <- promptRequest, events <- promptEvents
promptVars == <<broker, brokers, toldAvailable, promptRequest, password, promptEvents>>
PromptsOff == /\ broker = Off /\ brokers = Off /\ toldAvailable = Off
              /\ promptRequest = Off /\ password = Off /\ promptEvents = Off

-----------------------------------------------------------------------------
(* GeoClue, two applications that want a position and a table of one.        *)

CONSTANTS Levels, LocationQuestions, LocationPending, LocationAttempts, LocationEvents

VARIABLES started, stopped, attempts, retry, exported, watching, present, available, inUse,
          privacy, policy, calls, wire, geoclue, locationRequest, locationEvents
Location == INSTANCE LocationAgent WITH
  MaxRequests <- LocationQuestions, MaxPending <- LocationPending,
  MaxAttempts <- LocationAttempts, MaxEvents <- LocationEvents,
  manager <- geoclue, request <- locationRequest, events <- locationEvents
locationVars == <<started, stopped, attempts, retry, exported, watching, present, available,
                  inUse, privacy, policy, calls, wire, geoclue, locationRequest, locationEvents>>
LocationOff ==
  /\ started = Off /\ stopped = Off /\ attempts = Off /\ retry = Off /\ exported = Off
  /\ watching = Off /\ present = Off /\ available = Off /\ inUse = Off /\ privacy = Off
  /\ policy = Off /\ calls = Off /\ wire = Off /\ geoclue = Off
  /\ locationRequest = Off /\ locationEvents = Off

-----------------------------------------------------------------------------
ASSUME DesktopAssumption ==
       /\ Geometry!GeometryAssumption /\ Toplevels!ToplevelsAssumption
       /\ Screens!OutputsAssumption /\ Clipboard!DataControlAssumption
       /\ Capture!ScreencopyAssumption /\ Notify!IdleNotifyAssumption
       /\ Globals!GlobalsAssumption /\ Service!ServiceAssumption
       /\ Auth!AuthAssumption /\ Asking!PromptAssumption /\ Location!LocationAssumption

Subjects == {"geometry", "toplevels", "outputs", "clipboard", "capture", "notify", "globals",
             "service", "auth", "prompts", "location"}

allVars == <<subject, geometryVars, toplevelsVars, outputsVars, clipboardVars, captureVars,
             notifyVars, globalsVars, serviceVars, authVars, promptVars, locationVars>>

AllInit ==
  /\ subject \in Subjects
  /\ IF subject = "geometry" THEN Geometry!Init ELSE GeometryOff
  /\ IF subject = "toplevels" THEN Toplevels!Init ELSE ToplevelsOff
  /\ IF subject = "outputs" THEN Screens!Init ELSE OutputsOff
  /\ IF subject = "clipboard" THEN Clipboard!Init ELSE ClipboardOff
  /\ IF subject = "capture" THEN Capture!Init ELSE CaptureOff
  /\ IF subject = "notify" THEN Notify!Init ELSE NotifyOff
  /\ IF subject = "globals" THEN Globals!Init ELSE GlobalsOff
  /\ IF subject = "service" THEN Service!Init ELSE ServiceOff
  /\ IF subject = "auth" THEN Auth!Init ELSE AuthOff
  /\ IF subject = "prompts" THEN Asking!Init ELSE PromptsOff
  /\ IF subject = "location" THEN Location!Init ELSE LocationOff

\* Only the chosen subject steps.
Only(s) ==
  /\ subject = s /\ UNCHANGED subject
  /\ IF s = "geometry" THEN TRUE ELSE UNCHANGED geometryVars
  /\ IF s = "toplevels" THEN TRUE ELSE UNCHANGED toplevelsVars
  /\ IF s = "outputs" THEN TRUE ELSE UNCHANGED outputsVars
  /\ IF s = "clipboard" THEN TRUE ELSE UNCHANGED clipboardVars
  /\ IF s = "capture" THEN TRUE ELSE UNCHANGED captureVars
  /\ IF s = "notify" THEN TRUE ELSE UNCHANGED notifyVars
  /\ IF s = "globals" THEN TRUE ELSE UNCHANGED globalsVars
  /\ IF s = "service" THEN TRUE ELSE UNCHANGED serviceVars
  /\ IF s = "auth" THEN TRUE ELSE UNCHANGED authVars
  /\ IF s = "prompts" THEN TRUE ELSE UNCHANGED promptVars
  /\ IF s = "location" THEN TRUE ELSE UNCHANGED locationVars

AllNext ==
  \/ Only("geometry") /\ Geometry!Next
  \/ Only("toplevels") /\ Toplevels!Next
  \/ Only("outputs") /\ Screens!Next
  \/ Only("clipboard") /\ Clipboard!Next
  \/ Only("capture") /\ Capture!Next
  \/ Only("notify") /\ Notify!Next
  \/ Only("globals") /\ Globals!Next
  \/ Only("service") /\ Service!Next
  \/ Only("auth") /\ Auth!Next
  \/ Only("prompts") /\ Asking!Next
  \/ Only("location") /\ Location!Next

AllSpec == AllInit /\ [][AllNext]_allVars

-----------------------------------------------------------------------------
(* The properties of the components, each while it is the subject.           *)

\* What is asked of a layer surface, where it is placed and what it reserves fit together.
Placement == subject = "geometry" => Geometry!Placement

\* Taskbars know each window as it is, clipboard managers the selections, except under the lock,
\* and a protocol is offered as configured, with no handle, offer or global that outlives its use.
ProtocolsSound ==
  /\ subject = "toplevels" => Toplevels!ToplevelsSound
  /\ subject = "clipboard" => Clipboard!ClipboardSound
  /\ subject = "globals" => Globals!GlobalsSound

\* One client owns an output's colours and, on an output never taken over whose layout did not
\* change, gives them back; each client of an output is told its power as it is, and a copy of
\* an output holds the pixels the client was promised.
OutputsSound ==
  /\ subject = "outputs" => Screens!OutputsSound
  /\ subject = "capture" => Capture!CaptureSound

\* Every client hears each idle period once, no inhibitor outlives its owner, and the session
\* says of the user and of the screen saver what is so.
IdleSound ==
  /\ subject = "notify" => Notify!IdleSound
  /\ subject = "service" => Service!ServiceSound

\* Whatever polkit, a keyring or GeoClue asks is answered, by those that were told of it and in
\* time, and no secret or permission outlives its question.
AgentsSound ==
  /\ subject = "auth" => Auth!AuthSound
  /\ subject = "prompts" => Asking!PromptsSound
  /\ subject = "location" => Location!LocationSound

Questions == Auth!Requests \union Asking!Requests
Heard(all, heard(_)) == [r \in Questions |-> IF r \in DOMAIN all THEN heard(all[r]) ELSE <<>>]
Answered(q) == q.answers
Told(q) == q.told
Promise == INSTANCE RequestPromise WITH
  Requests <- Questions, Given <- {"authorized", "denied", "answered"},
  answers <- IF subject = "auth" THEN Heard(authRequest, Answered)
             ELSE IF subject = "prompts" THEN Heard(promptRequest, Answered)
             ELSE [r \in Questions |-> <<>>],
  told <- IF subject = "auth" THEN Heard(authRequest, Told)
          ELSE IF subject = "prompts" THEN Heard(promptRequest, Told)
          ELSE [r \in Questions |-> <<>>]

\* What the shells are told of polkit's and the keyring's questions, and what those are
\* answered, keeps the promise: asked once, answered once, and both learn the same end.  The
\* other subjects ask none, so this is Promise!Spec.
KeepsRequestPromise ==
  Promise!Init /\ [][(subject \in {"auth", "prompts"}) => Promise!Step]_allVars
=============================================================================
