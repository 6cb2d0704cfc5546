------------------------------ MODULE KeyCapture ------------------------------
(***************************************************************************)
(* Who has the keyboard (control/gnoblin-control-grabs.c, -focus.c and     *)
(* -dispatch.c).  Mutter has one native key capture; three owners share    *)
(* it: the leased grab of the Lua runtime, a modal or bare Super shortcut  *)
(* session, and shortcut.capture.  Each takes it for itself and each gives *)
(* it back from many places: its own end, a timeout, the lock, another     *)
(* stage grab, a reload, and the loss of the worker or of the channel.     *)
(*                                                                         *)
(* Mutter's side (patches/mutter/24-shortcuts) is external: the capture,   *)
(* stage grabs, and the order in which a key event meets the lock, the     *)
(* capture, key bindings and the focused application.                      *)
(***************************************************************************)
EXTENDS Naturals, FiniteSets

CONSTANTS Holds,        \* shortcuts whose session lasts while Alt is held
          Modals,       \* those of them that capture the keyboard
          ClientOwned,  \* those of them that a socket client bound; Lua bound the others
          Plain,        \* keys that type something
          MaxGrabs,     \* bound: input.grab and shortcut.capture operations
          MaxWorld      \* bound: reloads and suspensions

Super == "super"        \* the key, and the bare Super shortcut of the configuration
Alt == "alt"
Shortcuts == Holds \cup {Super}
Keys == Holds \cup Plain \cup {Super, Alt}      \* a shortcut of Holds is the key it has with Alt
NoGrab == 0
None == "none"

ASSUME CaptureAssumption ==
  /\ Modals \subseteq Holds /\ ClientOwned \subseteq Holds /\ MaxGrabs \in Nat /\ MaxWorld \in Nat
  /\ Holds \cap Plain = {}
  /\ {Super, Alt, None, "grab", "capture"} \cap (Holds \cup Plain) = {}

VARIABLES h,            \* the capture and its owners, see Free
          down,         \* pressed_keys
          appDown,      \* keys whose present press the application saw
          bound,        \* the shortcuts that are bound
          locked, stageBusy,
          worker,       \* "running", "suspended", or "stopping" when the channel is given up
          grabs, captures,      \* input.grab and shortcut.capture operations so far
          world,        \* reloads and suspensions so far
          resting       \* nobody types or renews any more

vars == <<h, down, appDown, bound, locked, stageBusy, worker, grabs, captures, world, resting>>

(* capture          native_key_capture_handler and _active                   *)
(* grab             input_grab, the number of its operation                  *)
(* active           the shortcuts whose session is active                    *)
(* current          active_shortcut_session                                  *)
(* sessionCapture   shortcut_session_capture_active                          *)
(* capturing        shortcut_capture_active                                  *)
(* timers           the timeouts that run: grab, capture, a session's        *)
(* told, twice      grabs whose end was published, and published again       *)
(* silent           grabs that ended unpublished                             *)
(* answered         shortcut.capture operations completed                    *)
Free == [capture |-> FALSE, grab |-> NoGrab, active |-> {}, current |-> None,
         sessionCapture |-> FALSE, capturing |-> FALSE, timers |-> {},
         told |-> {}, twice |-> {}, silent |-> {}, answered |-> 0]

Registers(x) == ~x.capture                      \* register and start succeed
CanStart == ~stageBusy                          \* meta_display_can_start_native_key_capture

-----------------------------------------------------------------------------
(* The ends.                                                                 *)

\* gnoblin_control_input_grab_end
EndGrabQuietly(x, publish) ==   \* mutant: no end is published
  IF x.grab = NoGrab THEN x
  ELSE [x EXCEPT !.grab = NoGrab, !.capture = FALSE, !.timers = @ \ {"grab"}]
EndGrabKeepsTimeout(x, publish) ==      \* mutant: the timeout runs on, with a freed grab
  IF x.grab = NoGrab THEN x
  ELSE [x EXCEPT !.grab = NoGrab, !.capture = FALSE,
                 !.told = IF publish THEN @ \cup {x.grab} ELSE @,
                 !.silent = IF publish THEN @ ELSE @ \cup {x.grab}]
EndGrab(x, publish) ==
  IF x.grab = NoGrab THEN x
  ELSE [x EXCEPT !.grab = NoGrab, !.capture = FALSE, !.timers = @ \ {"grab"},
                 !.twice = IF publish THEN @ \cup (x.told \cap {x.grab}) ELSE @,
                 !.told = IF publish THEN @ \cup {x.grab} ELSE @,
                 !.silent = IF publish THEN @ ELSE @ \cup {x.grab}]

\* dynamic_shortcut_end_session
EndSessionKeeps(x, s) ==        \* mutant: the capture is left on
  IF s \notin x.active THEN x
  ELSE [x EXCEPT !.active = @ \ {s}, !.timers = @ \ {s},
                 !.current = IF @ = s THEN None ELSE @,
                 !.sessionCapture = @ /\ x.current # s]
EndSession(x, s) ==
  IF s \notin x.active THEN x
  ELSE IF x.current # s THEN [x EXCEPT !.active = @ \ {s}, !.timers = @ \ {s}]
  ELSE [x EXCEPT !.active = @ \ {s}, !.timers = @ \ {s}, !.current = None,
                 !.capture = @ /\ ~x.sessionCapture, !.sessionCapture = FALSE]

\* Each of them; the others and their capture stay.
EndSessions(x, set) ==
  LET ends == x.current \in set \cap x.active
  IN  [x EXCEPT !.active = @ \ set, !.timers = @ \ set,
                !.current = IF ends THEN None ELSE @,
                !.capture = @ /\ ~(ends /\ x.sessionCapture),
                !.sessionCapture = @ /\ ~ends]

\* stop_native_shortcut_capture
StopCapture(x, complete) ==
  IF ~x.capturing THEN x
  ELSE [x EXCEPT !.capturing = FALSE, !.capture = FALSE, !.timers = @ \ {"capture"},
                 !.answered = IF complete THEN @ + 1 ELSE @]

\* native_shortcut_capture_key with no event: Mutter takes the keyboard back.
PreemptedQuietly(x) ==          \* mutant: the operation that waits is not completed
  IF x.grab # NoGrab THEN EndGrab(x, TRUE)
  ELSE IF x.sessionCapture /\ x.current # None THEN EndSession(x, x.current)
  ELSE StopCapture(x, FALSE)
Preempted(x) ==
  IF x.grab # NoGrab THEN EndGrab(x, TRUE)
  ELSE IF x.sessionCapture /\ x.current # None THEN EndSession(x, x.current)
  ELSE StopCapture(x, TRUE)

-----------------------------------------------------------------------------
(* The beginnings.                                                           *)

\* grab_arm
Arm(x) == [x EXCEPT !.timers = @ \cup {"grab"}]

\* gnoblin_control_input_grab
HeldIgnored == FALSE            \* mutant: a key that is down does not refuse
Held == down # {}
Grab ==
  /\ worker = "running" /\ grabs < MaxGrabs
  /\ ~locked /\ h.current = None /\ ~h.capturing /\ ~Held
  /\ LET x == EndGrab(h, TRUE)
     IN  IF CanStart /\ Registers(x)
         THEN /\ h' = Arm([x EXCEPT !.grab = grabs + 1, !.capture = TRUE])
              /\ grabs' = grabs + 1
         ELSE h' = x /\ UNCHANGED grabs
  /\ UNCHANGED <<down, appDown, bound, locked, stageBusy, worker, captures, world, resting>>

\* gnoblin_native_control_begin_shortcut_capture
BeginCapture ==
  /\ worker # "stopping" /\ captures < MaxGrabs /\ captures' = captures + 1
  /\ ~h.capturing /\ ~locked /\ CanStart /\ Registers(h)
  /\ h' = [h EXCEPT !.capturing = TRUE, !.capture = TRUE, !.timers = @ \cup {"capture"}]
  /\ UNCHANGED <<down, appDown, bound, locked, stageBusy, worker, grabs, world, resting>>

\* dispatch_dynamic_shortcut_activated
BegunMarksCurrent(x, s) ==      \* mutant: marks the session that is current before it is replaced
  IF s \in x.active THEN x
  ELSE [x EXCEPT !.active = @ \cup {x.current}, !.current = s, !.timers = @ \cup {s}]
Begun(x, s) ==
  IF s \in x.active THEN x
  ELSE [x EXCEPT !.active = @ \cup {s}, !.current = s, !.timers = @ \cup {s}]
Activated(x, s) ==
  LET y == Begun(x, s)
  IN  IF s \notin Modals \/ y.sessionCapture THEN y
      ELSE IF ~y.capturing /\ y.current = s /\ CanStart /\ Registers(y)
      THEN [y EXCEPT !.capture = TRUE, !.sessionCapture = TRUE]
      ELSE EndSession(y, s)

\* gnoblin_native_control_overlay_modifier_pressed
SuperBegins ==
  /\ worker # "stopping" /\ Super \in bound \ h.active /\ Alt \notin down
  /\ ~h.capturing /\ h.current = None /\ CanStart /\ Registers(h)

-----------------------------------------------------------------------------
(* Keys.  An event meets the observer of held modifiers, then the lock, the  *)
(* capture, the key bindings and the application, in this order.             *)

\* native_shortcut_capture_key: a grab reports the key; a session does, and ends when its
\* modifier is up; shortcut.capture ends with the first key that is not a modifier, or with Super.
Captured(x, k, pressed) ==
  IF x.grab # NoGrab THEN Arm(x)
  ELSE IF x.sessionCapture /\ x.current # None
  THEN IF ~pressed /\ ((x.current = Super /\ k = Super) \/ (x.current \in Holds /\ Alt \notin down \ {k}))
       THEN EndSession(x, x.current) ELSE x
  ELSE IF x.capturing /\ (IF k = Super THEN ~pressed ELSE pressed /\ k # Alt)
  THEN StopCapture(x, TRUE) ELSE x

Triggers(k) == k \in Holds \cap bound /\ Alt \in down /\ worker # "stopping"

Press(k) ==
  /\ k \notin down /\ ~resting /\ down' = down \cup {k}
  /\ \/ locked /\ UNCHANGED <<h, appDown>>
     \/ ~locked /\ h.capture /\ h' = Captured(h, k, TRUE) /\ UNCHANGED appDown
     \/ /\ ~locked /\ ~h.capture /\ k = Super /\ SuperBegins
        /\ h' = [h EXCEPT !.active = @ \cup {Super}, !.current = Super, !.capture = TRUE,
                          !.sessionCapture = TRUE, !.timers = @ \cup {Super}]
        /\ UNCHANGED appDown
     \/ ~locked /\ ~h.capture /\ Triggers(k) /\ h' = Activated(h, k) /\ UNCHANGED appDown
     \/ /\ ~locked /\ ~h.capture /\ ~(k = Super /\ SuperBegins) /\ ~Triggers(k)
        /\ appDown' = appDown \cup {k} /\ UNCHANGED h
  /\ UNCHANGED <<bound, locked, stageBusy, worker, grabs, captures, world, resting>>

\* gnoblin_native_control_observe_key_event: a passive session ends with its modifier.
Observed(x, k) ==
  IF k = Alt /\ worker # "stopping" /\ x.current \in Holds \ Modals
  THEN EndSession(x, x.current) ELSE x

Release(k) ==
  /\ k \in down /\ down' = down \ {k} /\ appDown' = appDown \ {k}
  /\ LET x == Observed(h, k)
     IN  h' = IF ~locked /\ x.capture THEN Captured(x, k, FALSE) ELSE x
  /\ UNCHANGED <<bound, locked, stageBusy, worker, grabs, captures, world, resting>>

\* gnoblin_control_forget_pressed_keys; the seat tells the application.
Unplug ==
  /\ down # {} /\ down' = {} /\ appDown' = {}
  /\ UNCHANGED <<h, bound, locked, stageBusy, worker, grabs, captures, world, resting>>

\* A press that turns Super into a chord (gnoblin_native_control_filter_input_event).
ButtonPress ==
  /\ worker # "stopping" /\ Super \in bound /\ h.current = Super /\ h.sessionCapture
  /\ h' = EndSession(h, Super)
  /\ UNCHANGED <<down, appDown, bound, locked, stageBusy, worker, grabs, captures, world, resting>>

-----------------------------------------------------------------------------
(* Operations, timeouts, and the world.                                      *)

Only(x) == h' = x /\ UNCHANGED <<down, appDown, bound, locked, stageBusy, worker, grabs, captures,
                                 world, resting>>

Renew == worker = "running" /\ ~resting /\ h.grab # NoGrab /\ Only(Arm(h))
ReleaseGrab == worker = "running" /\ h.grab # NoGrab /\ Only(EndGrab(h, TRUE))

ExpiresWithKeysUp ==            \* mutant: a key that is down counts as a sign of life
  "grab" \in h.timers /\ ~Held /\ Only(EndGrab([h EXCEPT !.timers = @ \ {"grab"}], TRUE))
GrabExpires == "grab" \in h.timers /\ Only(EndGrab([h EXCEPT !.timers = @ \ {"grab"}], TRUE))
SessionTimesOut(s) == s \in h.timers /\ Only(EndSession([h EXCEPT !.timers = @ \ {s}], s))
CaptureTimesOut ==
  "capture" \in h.timers /\ Only(StopCapture([h EXCEPT !.timers = @ \ {"capture"}], TRUE))

\* native_session_lock_changed
LockedOutSparesGrab(x) ==       \* mutant: the grab outlives the lock
  StopCapture(EndSession(x, x.current), TRUE)
LockedOut(x) == StopCapture(EndGrab(EndSession(x, x.current), TRUE), TRUE)
Lock ==
  /\ ~locked /\ locked' = TRUE /\ appDown' = {}
  /\ h' = IF worker = "stopping" THEN h ELSE LockedOut(h)
  /\ UNCHANGED <<down, bound, stageBusy, worker, grabs, captures, world, resting>>
Unlock ==
  /\ locked /\ locked' = FALSE
  /\ UNCHANGED <<h, down, appDown, bound, stageBusy, worker, grabs, captures, world, resting>>

\* meta_display_cancel_native_key_capture, from on_is_grabbed_changed and enable_input_capture
StageGrab ==
  /\ ~stageBusy /\ stageBusy' = TRUE
  /\ h' = IF h.capture THEN [Preempted(h) EXCEPT !.capture = FALSE] ELSE h
  /\ UNCHANGED <<down, appDown, bound, locked, worker, grabs, captures, world, resting>>
StageRelease ==
  /\ stageBusy /\ stageBusy' = FALSE
  /\ UNCHANGED <<h, down, appDown, bound, locked, worker, grabs, captures, world, resting>>

Lua == Holds \ ClientOwned
World == world < MaxWorld /\ world' = world + 1

\* native_settings_changed: what Lua and the configuration bound, and the current session.
SettingsChanged(x) == LET y == EndSessions(x, Lua \cup {Super}) IN EndSession(y, y.current)

\* A CONFIG packet with a new generation, perhaps with a new revision.
Reload ==
  /\ World /\ worker = "running"
  /\ \E changed \in BOOLEAN :
       LET x == EndGrab(StopCapture(EndSession(h, h.current), TRUE), FALSE)
       IN  h' = IF changed THEN SettingsChanged(x) ELSE x
  /\ UNCHANGED <<down, appDown, bound, locked, stageBusy, worker, grabs, captures, resting>>

\* native_runtime_suspend_worker
Suspend ==
  /\ World /\ worker = "running" /\ worker' = "suspended" /\ bound' = bound \ Lua
  /\ h' = StopCapture(EndSessions(EndGrab(h, FALSE), Lua), TRUE)
  /\ UNCHANGED <<down, appDown, locked, stageBusy, grabs, captures, resting>>
Resume ==
  /\ worker = "suspended" /\ worker' = "running" /\ bound' = bound \cup Lua
  /\ UNCHANGED <<h, down, appDown, locked, stageBusy, grabs, captures, world, resting>>

\* native_runtime_abort
Abort ==
  /\ worker # "stopping" /\ worker' = "stopping" /\ bound' = bound \ Lua
  /\ h' = StopCapture(EndGrab(EndSessions(EndSession(h, h.current), Lua), FALSE), FALSE)
  /\ UNCHANGED <<down, appDown, locked, stageBusy, grabs, captures, world, resting>>

\* gnoblin_control_clear_client_dynamic_shortcuts
ClientGone ==
  /\ bound \cap ClientOwned # {} /\ bound' = bound \ ClientOwned /\ h' = EndSessions(h, ClientOwned)
  /\ UNCHANGED <<down, appDown, locked, stageBusy, worker, grabs, captures, world, resting>>

Rest ==
  /\ ~resting /\ resting' = TRUE
  /\ UNCHANGED <<h, down, appDown, bound, locked, stageBusy, worker, grabs, captures, world>>

-----------------------------------------------------------------------------
Init ==
  /\ h = Free /\ down = {} /\ appDown = {} /\ bound = Shortcuts
  /\ locked = FALSE /\ stageBusy = FALSE
  /\ worker = "running" /\ grabs = 0 /\ captures = 0 /\ world = 0 /\ resting = FALSE

Timeouts == GrabExpires \/ CaptureTimesOut \/ \E s \in Shortcuts : SessionTimesOut(s)

Next ==
  \/ \E k \in Keys : Press(k) \/ Release(k)
  \/ Unplug \/ ButtonPress
  \/ Grab \/ Renew \/ ReleaseGrab \/ BeginCapture
  \/ Timeouts
  \/ Lock \/ Unlock \/ StageGrab \/ StageRelease
  \/ Reload \/ Suspend \/ Resume \/ Abort \/ ClientGone
  \/ Rest

\* Timeouts fire.
Fairness == WF_vars(Timeouts)

Spec == Init /\ [][Next]_vars /\ Fairness

-----------------------------------------------------------------------------
(* Properties.                                                               *)

TypeOK ==
  /\ h \in [capture : BOOLEAN, grab : 0..MaxGrabs, active : SUBSET Shortcuts,
            current : Shortcuts \cup {None}, sessionCapture : BOOLEAN, capturing : BOOLEAN,
            timers : SUBSET (Shortcuts \cup {"grab", "capture"}), told : SUBSET (1..MaxGrabs),
            twice : SUBSET (1..MaxGrabs), silent : SUBSET (1..MaxGrabs), answered : 0..MaxGrabs]
  /\ down \subseteq Keys /\ appDown \subseteq down /\ bound \subseteq Shortcuts
  /\ locked \in BOOLEAN /\ stageBusy \in BOOLEAN /\ resting \in BOOLEAN
  /\ worker \in {"running", "suspended", "stopping"}
  /\ grabs \in 0..MaxGrabs /\ captures \in 0..MaxGrabs /\ world \in 0..MaxWorld

Owners == {o \in {"grab", "session", "capture"} :
             CASE o = "grab" -> h.grab # NoGrab
               [] o = "session" -> h.sessionCapture
               [] o = "capture" -> h.capturing}

\* The keyboard is captured for exactly one owner, and not without one: nobody else could ever
\* give it back.  A capturing session is the current one.
CaptureHasOneOwner ==
  /\ Cardinality(Owners) = IF h.capture THEN 1 ELSE 0
  /\ h.sessionCapture => h.current \in h.active

\* docs/shell-api/input-grab.md: "The lock screen always owns the keyboard."
LockOwnsKeyboard == locked => ~h.capture

\* A grab gets no release whose press the application saw.
GrabFindsKeysUp == h.grab # NoGrab => appDown = {}

\* Every grab that ended was told of it once, and in silence only when its runtime went with it.
EndsTold ==
  /\ h.twice = {} /\ h.told \cap h.silent = {}
  /\ h.told \cup h.silent = (1..grabs) \ {h.grab}
  /\ h.silent # {} => world > 0 \/ worker = "stopping"

\* An owner has the timeout that ends it, and a timeout has its owner: one that is left over
\* would end a later grab or session early, or be called with a freed one.
TimeoutsFit ==
  h.timers = h.active \cup (IF h.grab # NoGrab THEN {"grab"} ELSE {})
                      \cup (IF h.capturing THEN {"capture"} ELSE {})

\* Each shortcut.capture operation completes once; those that stop with the channel do not.
CapturesAnswered ==
  worker # "stopping" => captures = h.answered + (IF h.capturing THEN 1 ELSE 0)

\* Every capture of the keyboard has one owner and one timeout, ends once, tells its owner and
\* begins with no key down, between four ways to take it and ten to lose it.
KeyboardOwned ==
  /\ TypeOK /\ CaptureHasOneOwner /\ LockOwnsKeyboard /\ GrabFindsKeysUp
  /\ EndsTold /\ TimeoutsFit /\ CapturesAnswered

\* When nobody types or renews any more the keyboard comes back.
KeyboardComesBack == resting /\ h.capture ~> ~h.capture

\* docs/shell-api/keyboard-shortcuts.md: "Active sessions end on modifier release, unbind, config
\* reload, session lock, ..."
SessionsEndWithModifier == h.active \cap Holds # {} => Alt \in down
=============================================================================
