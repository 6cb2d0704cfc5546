----------------------------- MODULE MCServices -----------------------------
(***************************************************************************)
(* What the session serves to others and does to their windows, checked in *)
(* one run: a Lua configuration's operations, the desktop portal's backend *)
(* and input; effects, rules, the corners of toolkits, and frames.  Each   *)
(* keeps its own state in the code too: `subject' chooses, once, the one   *)
(* that steps; the variables of the others are Off and stay so.            *)
(***************************************************************************)
EXTENDS Naturals, Sequences, TLC

CONSTANTS w1, w2, w3, w4, NoWindow, Off

VARIABLES subject

-----------------------------------------------------------------------------
(* Two operations with two callbacks: a call and what is derived of it.      *)

VARIABLES luaOp, luaSub, deferred, scheduled, dispatch, luaRunning, closing, luaMade, dropped,
          outstanding, luaReload
Calls == INSTANCE LuaOperations WITH
  MaxOps <- 2, MaxSubs <- 2, MaxTimers <- 1, op <- luaOp, sub <- luaSub, running <- luaRunning,
  made <- luaMade, reload <- luaReload
operationsVars == <<luaOp, luaSub, deferred, scheduled, dispatch, luaRunning, closing, luaMade,
                    dropped, outstanding, luaReload>>
OperationsOff ==
  /\ luaOp = Off /\ luaSub = Off /\ deferred = Off /\ scheduled = Off
  /\ dispatch = Off /\ luaRunning = Off /\ closing = Off /\ luaMade = Off
  /\ dropped = Off /\ outstanding = Off /\ luaReload = Off

-----------------------------------------------------------------------------
(* Two children, one captured, one with a timeout, of two runtimes that may run *)
(* one at a time.                                                            *)

VARIABLES proc, child, luaProcess, worker, up, down, control
Children == INSTANCE ProcessHandles WITH
  Processes <- {1, 2}, Captured <- {1}, Timed <- {2}, MaxRunning <- 1, Limit <- 1, Writes <- 2,
  MaxWorkers <- 2, handle <- luaProcess
processesVars == <<proc, child, luaProcess, worker, up, down, control>>
ProcessesOff ==
  /\ proc = Off /\ child = Off /\ luaProcess = Off /\ worker = Off
  /\ up = Off /\ down = Off /\ control = Off

-----------------------------------------------------------------------------
(* One tween over two windows, a window first moved by one track, then by    *)
(* another, with a callback at its begin and one at its end.                 *)

VARIABLES tween, player, tweenShown, tweenGone, tweenLocked, tweenWire, tweenBack, aside,
          loading, tweenEvents
Step(kind, w, seconds, parallel) ==
  [kind |-> kind, window |-> w, seconds |-> seconds, parallel |-> parallel]
TweenSteps == <<Step("track", w1, 1, FALSE), Step("callback", w1, 0, TRUE),
                Step("track", w2, 1, FALSE), Step("track", w1, 0, TRUE),
                Step("callback", w1, 0, FALSE)>>
Tween == INSTANCE Tweens WITH
  Steps <- TweenSteps, MaxCalls <- 2, MaxEvents <- 2,
  shown <- tweenShown, gone <- tweenGone, locked <- tweenLocked, wire <- tweenWire,
  back <- tweenBack
tweenVars == <<tween, player, tweenShown, tweenGone, tweenLocked, tweenWire, tweenBack, aside,
               loading, tweenEvents>>
TweenOff ==
  /\ tween = Off /\ player = Off /\ tweenShown = Off /\ tweenGone = Off
  /\ tweenLocked = Off /\ tweenWire = Off /\ tweenBack = Off /\ aside = Off
  /\ loading = Off /\ tweenEvents = Off

-----------------------------------------------------------------------------
(* Two requests of the portal that inhibit; and two monitors that the end of *)
(* the session waits for.  The two share the portal, and nothing in it.      *)

VARIABLES lease, service, logind, front, monitor, endQuery, portalSaver, portalEvents
Leases == INSTANCE PortalInhibit WITH
  Requests <- {"r1", "r2"}, Monitors <- {}, MaxEvents <- 3, ending <- endQuery,
  saver <- portalSaver
Endings == INSTANCE PortalInhibit WITH
  Requests <- {}, Monitors <- {"m1", "m2"}, MaxEvents <- 4, ending <- endQuery,
  saver <- portalSaver
leasesVars == <<lease, service, logind, front, monitor, endQuery, portalSaver, portalEvents>>
LeasesOff ==
  /\ lease = Off /\ service = Off /\ logind = Off /\ front = Off
  /\ monitor = Off /\ endQuery = Off /\ portalSaver = Off /\ portalEvents = Off

-----------------------------------------------------------------------------
(* One session with two shortcuts; and two sessions that want the same key.  *)

VARIABLES session, batch, ctl, keyWire, keyBack, grabs, others, pointers, bindIds, dangled,
          missed, keyEvents
Shortcuts == INSTANCE PortalShortcuts WITH
  Sessions <- {1}, Keys <- {"k1", "k2"}, MaxBatches <- 2, MaxEvents <- 2, OneAtATime <- TRUE,
  wire <- keyWire, back <- keyBack, ids <- bindIds
Claims == INSTANCE PortalShortcuts WITH
  Sessions <- {1, 2}, Keys <- {"k1"}, MaxBatches <- 2, MaxEvents <- 2, OneAtATime <- TRUE,
  wire <- keyWire, back <- keyBack, ids <- bindIds
shortcutsVars == <<session, batch, ctl, keyWire, keyBack, grabs, others, pointers, bindIds,
                   dangled, missed, keyEvents>>
ShortcutsOff ==
  /\ session = Off /\ batch = Off /\ ctl = Off /\ keyWire = Off
  /\ keyBack = Off /\ grabs = Off /\ others = Off /\ pointers = Off
  /\ bindIds = Off /\ dangled = Off /\ missed = Off /\ keyEvents = Off

-----------------------------------------------------------------------------
(* Two layouts remembered for three windows; and two layouts and two engines of *)
(* IBus, of which a second document drops one and adds one.                  *)

VARIABLES inputs, ibus, ibusWire, wish, excuse, sourceEvents
LayoutsOnly == [xkb |-> <<"x1", "x2">>, ibus |-> <<>>, perWindow |-> TRUE]
WithEngine == [xkb |-> <<"x1", "x2">>, ibus |-> <<"e1">>, perWindow |-> FALSE]
Fewer == [xkb |-> <<"x1">>, ibus |-> <<"e1", "e2">>, perWindow |-> FALSE]
Remembered == INSTANCE InputSources WITH
  Windows <- {w1, w2, w3}, Documents <- <<LayoutsOnly>>, Engines <- {}, None <- NoWindow,
  MaxEvents <- 5, c <- inputs, daemon <- ibus, wire <- ibusWire
Engines == INSTANCE InputSources WITH
  Windows <- {}, Documents <- <<WithEngine, Fewer>>, Engines <- {"e1", "e2"}, None <- NoWindow,
  MaxEvents <- 4, c <- inputs, daemon <- ibus, wire <- ibusWire
memoryVars == <<inputs, ibus, ibusWire, wish, excuse, sourceEvents>>
MemoryOff ==
  /\ inputs = Off /\ ibus = Off /\ ibusWire = Off /\ wish = Off
  /\ excuse = Off /\ sourceEvents = Off

-----------------------------------------------------------------------------
(* A gesture that two connections and Lua heard of, with a field to type in; a *)
(* gesture for a window to snap or to move; and two requests for a window menu. *)

VARIABLES contexts, gestureWorld, luaGrants, luaRequests, menuContexts, gestureLedger
Gestures == INSTANCE GestureContexts WITH
  Clients <- {"c1", "c2"}, Windows <- {w1}, Scopes <- {"focus", "text_target"},
  MaxGestures <- 1, MaxMenus <- 0, MaxEnv <- 2, Lua <- "lua", None <- NoWindow,
  MaxContexts <- 1, g <- contexts, world <- gestureWorld, lua <- luaGrants,
  fromLua <- luaRequests, menus <- menuContexts, ledger <- gestureLedger
Snaps == INSTANCE GestureContexts WITH
  Clients <- {"c1"}, Windows <- {w1, w2}, Scopes <- {"begin_move", "snap_context"},
  MaxGestures <- 1, MaxMenus <- 0, MaxEnv <- 1, Lua <- "lua", None <- NoWindow,
  MaxContexts <- 1, g <- contexts, world <- gestureWorld, lua <- luaGrants,
  fromLua <- luaRequests, menus <- menuContexts, ledger <- gestureLedger
Menus == INSTANCE GestureContexts WITH
  Clients <- {"c1"}, Windows <- {w1, w2}, Scopes <- {"focus"}, MaxGestures <- 0, MaxMenus <- 2,
  MaxEnv <- 1, Lua <- "lua", None <- NoWindow, MaxContexts <- 1, g <- contexts,
  world <- gestureWorld, lua <- luaGrants, fromLua <- luaRequests, menus <- menuContexts,
  ledger <- gestureLedger
gesturesVars == <<contexts, gestureWorld, luaGrants, luaRequests, menuContexts, gestureLedger>>
GesturesOff ==
  /\ contexts = Off /\ gestureWorld = Off /\ luaGrants = Off /\ luaRequests = Off
  /\ menuContexts = Off /\ gestureLedger = Off

-----------------------------------------------------------------------------
(* A window, a dialog on the other workspace, and between them a window on    *)
(* both that never animates: the fewest with which a switch takes neighbours *)
(* of one that stays.  And a dialog and that window, and one that is opened  *)
(* later, before, during or after a switch, while windows are raised.        *)

VARIABLE d
EffectsKind == w1 :> "normal" @@ w2 :> "dialog" @@ w3 :> "other"
EffectsHome == w1 :> 1 @@ w2 :> 2 @@ w3 :> 0
Effects == INSTANCE WindowEffects WITH
  Windows <- {w1, w2, w3}, Kind <- EffectsKind, Home <- EffectsHome, Late <- {},
  Orders <- {<<w1, w3, w2>>}, Backdrop <- NoWindow, MaxRaises <- 0
SwitchesKind == w2 :> "dialog" @@ w3 :> "other" @@ w4 :> "other"
SwitchesHome == w2 :> 2 @@ w3 :> 0 @@ w4 :> 1
Switches == INSTANCE WindowEffects WITH
  Windows <- {w2, w3, w4}, Kind <- SwitchesKind, Home <- SwitchesHome, Late <- {w4},
  Orders <- {<<w2, w3>>}, Backdrop <- NoWindow, MaxRaises <- 2
effectsVars == <<d>>
EffectsOff == d = Off

-----------------------------------------------------------------------------
(* Two documents over a native and an Xwayland window: rules that follow the *)
(* focus, the workspace and the title, and a shader that both documents name. *)

VARIABLES world, effects, files, placed, moves, fresh, shifted, told, made, ops, ruleEvents
Rule(match, set) == [match |-> match, set |-> set]
RuleDocuments ==
  << <<Rule([focused |-> TRUE], [opacity |-> "dim", shader |-> "p"]),
       Rule([number |-> 2], [opacity |-> "half2", frame |-> "thin"]),
       Rule([title |-> "b"], [shader |-> "", workspace |-> 2])>>,
     <<Rule([title |-> "a", focused |-> FALSE], [shader |-> "p", frame |-> "none"])>> >>
Rules == INSTANCE WindowRules WITH
  Windows <- {w1, w2}, X11 <- {w1}, Spaces <- <<"l", "r">>, Documents <- RuleDocuments,
  MaxOps <- 1, MaxEvents <- 3, None <- NoWindow, events <- ruleEvents
rulesVars == <<world, effects, files, placed, moves, fresh, shifted, told, made, ops, ruleEvents>>
RulesOff == /\ world = Off /\ effects = Off /\ files = Off /\ placed = Off /\ moves = Off
            /\ fresh = Off /\ shifted = Off /\ told = Off /\ made = Off /\ ops = Off
            /\ ruleEvents = Off

-----------------------------------------------------------------------------
(* Four windows of four processes, two of which had the same pid, and a      *)
(* cache of two.                                                             *)

VARIABLES running, shown, entries, pending, scans, corners, live, probeEvents
ProbePids == w1 :> 1 @@ w2 :> 1 @@ w3 :> 2 @@ w4 :> 3
ProbeStarts == w1 :> 1 @@ w2 :> 2 @@ w3 :> 1 @@ w4 :> 1
Probes == INSTANCE CornerProbe WITH
  Order <- <<w1, w2, w3, w4>>, Pid <- ProbePids, Start <- ProbeStarts,
  Rounds <- {<<1, 1>>, <<2, 1>>}, MaxEntries <- 2, MaxEvents <- 4, events <- probeEvents
probesVars == <<running, shown, entries, pending, scans, corners, live, probeEvents>>
ProbesOff == /\ running = Off /\ shown = Off /\ entries = Off /\ pending = Off
             /\ scans = Off /\ corners = Off /\ live = Off /\ probeEvents = Off

-----------------------------------------------------------------------------
(* Two windows framed by a renderer that may commit a null buffer.           *)

VARIABLES framedWindow, windowFrame, renderer, frameWire, frameEvents
Frames == INSTANCE FrameRenderer WITH
  Windows <- {w1, w2}, Sizes <- {1, 2}, MaxEnv <- 3, NullCommits <- TRUE, win <- framedWindow,
  frame <- windowFrame, rend <- renderer, wire <- frameWire, env <- frameEvents
framesVars == <<framedWindow, windowFrame, renderer, frameWire, frameEvents>>
FramesOff ==
  /\ framedWindow = Off /\ windowFrame = Off /\ renderer = Off /\ frameWire = Off
  /\ frameEvents = Off

-----------------------------------------------------------------------------
ASSUME /\ Calls!OperationsAssumption
       /\ Children!ProcessAssumption
       /\ Tween!TweensAssumption
       /\ Leases!InhibitAssumption
       /\ Endings!InhibitAssumption
       /\ Shortcuts!ShortcutsAssumption
       /\ Claims!ShortcutsAssumption
       /\ Remembered!InputSourcesAssumption
       /\ Engines!InputSourcesAssumption
       /\ Gestures!GestureContextsAssumption
       /\ Snaps!GestureContextsAssumption
       /\ Menus!GestureContextsAssumption
       /\ Effects!EffectsAssumption
       /\ Switches!EffectsAssumption
       /\ Rules!RulesAssumption
       /\ Probes!ProbeAssumption
       /\ Frames!FrameAssumption

Subjects == {"operations", "processes", "tween", "leases", "monitors", "shortcuts", "claims",
             "memory", "engines", "gestures", "snaps", "menus", "effects", "switches", "rules",
             "probes", "frames"}

allVars == <<subject, operationsVars, processesVars, tweenVars, leasesVars, shortcutsVars,
             memoryVars, gesturesVars, effectsVars, rulesVars, probesVars, framesVars>>

AllInit ==
  /\ subject \in Subjects
  /\ IF subject = "operations" THEN Calls!Init ELSE OperationsOff
  /\ IF subject = "processes" THEN Children!Init ELSE ProcessesOff
  /\ IF subject = "tween" THEN Tween!Init ELSE TweenOff
  /\ IF subject = "leases" THEN Leases!Init
     ELSE IF subject = "monitors" THEN Endings!Init ELSE LeasesOff
  /\ IF subject = "shortcuts" THEN Shortcuts!Init
     ELSE IF subject = "claims" THEN Claims!Init ELSE ShortcutsOff
  /\ IF subject = "memory" THEN Remembered!Init ELSE IF subject = "engines" THEN Engines!Init ELSE MemoryOff
  /\ IF subject = "gestures" THEN Gestures!Init
     ELSE IF subject = "menus" THEN Menus!Init
     ELSE IF subject = "snaps" THEN Snaps!Init ELSE GesturesOff
  /\ IF subject = "effects" THEN Effects!Init
     ELSE IF subject = "switches" THEN Switches!Init ELSE EffectsOff
  /\ IF subject = "rules" THEN Rules!Init ELSE RulesOff
  /\ IF subject = "probes" THEN Probes!Init ELSE ProbesOff
  /\ IF subject = "frames" THEN Frames!Init ELSE FramesOff

\* Only the chosen subject steps.
Only(s) ==
  /\ subject = s /\ UNCHANGED subject
  /\ IF s = "operations" THEN TRUE ELSE UNCHANGED operationsVars
  /\ IF s = "processes" THEN TRUE ELSE UNCHANGED processesVars
  /\ IF s = "tween" THEN TRUE ELSE UNCHANGED tweenVars
  /\ IF s \in {"leases", "monitors"} THEN TRUE ELSE UNCHANGED leasesVars
  /\ IF s \in {"shortcuts", "claims"} THEN TRUE ELSE UNCHANGED shortcutsVars
  /\ IF s \in {"memory", "engines"} THEN TRUE ELSE UNCHANGED memoryVars
  /\ IF s \in {"gestures", "snaps", "menus"} THEN TRUE ELSE UNCHANGED gesturesVars
  /\ IF s \in {"effects", "switches"} THEN TRUE ELSE UNCHANGED effectsVars
  /\ IF s = "rules" THEN TRUE ELSE UNCHANGED rulesVars
  /\ IF s = "probes" THEN TRUE ELSE UNCHANGED probesVars
  /\ IF s = "frames" THEN TRUE ELSE UNCHANGED framesVars

AllNext ==
  \/ Only("operations") /\ Calls!Next
  \/ Only("processes") /\ Children!Next
  \/ Only("tween") /\ Tween!Next
  \/ Only("leases") /\ Leases!Next
  \/ Only("monitors") /\ Endings!Next
  \/ Only("shortcuts") /\ Shortcuts!Next
  \/ Only("claims") /\ Claims!Next
  \/ Only("memory") /\ Remembered!Next
  \/ Only("engines") /\ Engines!Next
  \/ Only("gestures") /\ Gestures!Next
  \/ Only("snaps") /\ Snaps!Next
  \/ Only("menus") /\ Menus!Next
  \/ Only("effects") /\ Effects!Next
  \/ Only("switches") /\ Switches!Next
  \/ Only("rules") /\ Rules!Next
  \/ Only("probes") /\ Probes!Next
  \/ Only("frames") /\ Frames!Next

AllSpec == AllInit /\ [][AllNext]_allVars

-----------------------------------------------------------------------------
(* The properties of the components, each while it is the subject.           *)

\* What a Lua configuration waits for ends, once, for everybody who waits.
RuntimeSound ==
  /\ subject = "operations" => Calls!OperationsSound
  /\ subject = "processes" => Children!ProcessesSound
  /\ subject = "tween" => Tween!TweensSound

\* What the desktop portal holds for applications is what they were granted and did not give back.
PortalSound ==
  /\ subject = "leases" => Leases!InhibitSound
  /\ subject = "monitors" => Endings!InhibitSound
  /\ subject = "shortcuts" => Shortcuts!ShortcutsSound
  /\ subject = "claims" => Claims!ShortcutsSound

\* What the user types with, presses and drags is what was chosen, and nothing of it is lost or
\* given to another.
InputSound ==
  /\ subject = "memory" => Remembered!SourcesSound
  /\ subject = "engines" => Engines!SourcesSound
  /\ subject = "gestures" => Gestures!GesturesSound
  /\ subject = "snaps" => Snaps!GesturesSound
  /\ subject = "menus" => Menus!GesturesSound

\* No window keeps an effect, a transform or an event that nobody ends, whatever interrupts it.
EffectsSound ==
  /\ subject = "effects" => Effects!EffectsSound
  /\ subject = "switches" => Switches!EffectsSound

\* A workspace switch leaves every window in the window group, in the order the user sees them.
SwitchKeepsStacking ==
  /\ subject = "effects" => Effects!KeepsStacking
  /\ subject = "switches" => Switches!KeepsStacking

\* Every window looks as the rules, the overrides and the corners of its toolkit say.
RulesSound ==
  /\ subject = "rules" => Rules!RulesSound
  /\ subject = "probes" => Probes!ProbesSound

\* However a renderer ends, no frame, pixel or held map is left that belongs to it.
FramesSound ==
  /\ subject = "frames" => Frames!FramesSound
=============================================================================
