---------------------------- MODULE WindowRules ----------------------------
(***************************************************************************)
(* The window rules of the configuration and the effects Lua sets on one   *)
(* window, as the compositor applies them: every signal of a window, of    *)
(* the focus, of a shader file and of the configuration runs the rules     *)
(* again over the facts of that moment                                     *)
(* (src/src/control/windows/gnoblin-control-window-rules.c, the effect     *)
(* half of src/src/control/gnoblin-control-overrides.c and the handlers of *)
(* src/src/control/gnoblin-control-signals.c that call them).              *)
(*                                                                         *)
(* A rule is a partial record of facts it asks for and a partial record of *)
(* what it sets.  "opacity" stands for every effect with a default,        *)
(* "frame" for what is also set before an Xwayland window has an actor,    *)
(* "shader" for the one effect read from a file, "workspace" for the       *)
(* placement.  A session uses fewer shader files than the 128 it may.      *)
(***************************************************************************)
EXTENDS Naturals, Sequences, FiniteSets, SequencesExt, FiniteSetsExt

CONSTANTS Windows,     \* windows the session sees
          X11,         \* those of Xwayland clients
          Spaces,      \* the initial order of the workspaces, a sequence
          Documents,   \* the configurations, a sequence of sequences of rules
          None,        \* no window
          MaxOps,      \* bound: overrides asked for
          MaxEvents    \* bound: changes of the environment

RulesAssumption ==
  /\ X11 \subseteq Windows /\ None \notin Windows
  /\ Len(Spaces) > 0 /\ Len(Documents) > 0 /\ MaxOps \in Nat /\ MaxEvents \in Nat

Default == [opacity |-> "full", frame |-> "native", shader |-> ""]
Sources == {"v1", "v2"}

VARIABLES
  world,     \* what the rules are matched against: see Worlds
  effects,   \* what is set on each window's actor
  files,     \* the shader file: its disk contents, the source kept, its reload timer
  placed,    \* windows whose placement was decided
  moves,     \* history: moves the rules made, per window
  fresh,     \* history: windows that got an actor and no signal since
  shifted,   \* history: windows whose workspace changed its number since their last signal
  told,      \* history: overrides whose end was told to their owner
  made,      \* history: overrides the current generation made
  ops, events
vars == <<world, effects, files, placed, moves, fresh, shifted, told, made, ops, events>>

-----------------------------------------------------------------------------
(* Matching and merging *)

\* The facts a match may ask for (native_window_rule_matches).
Facts(s, w) == [focused |-> s.focus = w,
                title   |-> s.title[w],
                number  |-> CHOOSE i \in DOMAIN s.order : s.order[i] = s.on[w]]
Matches(rule, s, w) == \A k \in DOMAIN rule.match : rule.match[k] = Facts(s, w)[k]

Matching(s, w) == SelectSeq(Documents[s.doc], LAMBDA r : Matches(r, s, w))

\* The last rule that sets a key decides it.
MergeFirst(rules, k, default) ==
  LET setting == SelectSeq(rules, LAMBDA r : k \in DOMAIN r.set)
  IN IF setting = <<>> THEN default ELSE Head(setting).set[k]
Merge(rules, k, default) ==
  LET setting == SelectSeq(rules, LAMBDA r : k \in DOMAIN r.set)
  IN IF setting = <<>> THEN default ELSE Last(setting).set[k]

\* The effects Lua set on a window are one more rule after the configured ones.
OverrideRule(s, w) ==
  LET mine == {o \in s.overrides : o.window = w}
  IN [match |-> <<>>, set |-> [k \in {o.key : o \in mine} |-> (CHOOSE o \in mine : o.key = k).value]]

\* What the rules ask of a window.
WantedUnder(s, w) == [k \in DOMAIN Default |-> Merge(<<OverrideRule(s, w)>> \o Matching(s, w), k, Default[k])]
Wanted(s, w) == [k \in DOMAIN Default |-> Merge(Append(Matching(s, w), OverrideRule(s, w)), k, Default[k])]

-----------------------------------------------------------------------------
(* native_apply_window_rules *)

\* A path is read, and its directory watched, when a rule first selects it.
Read(f) == IF f.disk \in Sources THEN [f EXCEPT !.source = f.disk] ELSE f
Opened(f, W, s) ==
  IF ~f.open /\ \E w \in W : s.actor[w] /\ Wanted(s, w).shader # ""
  THEN [Read(f) EXCEPT !.open = TRUE] ELSE f

\* What the window's actor shows of its shader: one that cannot be read leaves what was there.
ShaderLeft(f, path, before) == IF path = "" \/ f.source = "none" THEN before ELSE f.source
Shader(f, path, before) == IF path = "" THEN "none" ELSE IF f.source = "none" THEN before ELSE f.source

\* Without an actor only the frame of an Xwayland window is decided, by the configured rules alone.
EarlyFrame(s, w, before) ==
  IF w \in X11 THEN [before EXCEPT !.frame = Merge(Matching(s, w), "frame", Default.frame)] ELSE before

Resolved(s, f, w, before) ==
  IF ~s.actor[w] THEN EarlyFrame(s, w, before)
  ELSE LET wanted == Wanted(s, w)
       IN [wanted EXCEPT !.shader = Shader(f, wanted.shader, before.shader)]

Managed(s) == {w \in Windows : s.life[w] = "managed"}

\* The rules run over the windows W in the state s of the world.
ApplyTo(W, s, f) ==
  LET opened == Opened(f, W, s)
  IN /\ world' = s /\ files' = opened
     /\ effects' = [w \in Windows |-> IF w \in W THEN Resolved(s, opened, w, effects[w]) ELSE effects[w]]
     /\ shifted' = shifted \ W /\ fresh' = fresh \ W
Apply(W, s) == ApplyTo(W \cap Managed(s), s, files)

Happens == events < MaxEvents /\ events' = events + 1

-----------------------------------------------------------------------------
(* gnoblin_control_place_window_by_rules: once, on the first signal of a ready window *)

\* The workspace the rules name, if it exists.
Target(s, w) ==
  LET to == Merge(Matching(s, w), "workspace", 0) IN IF to \in DOMAIN s.order THEN s.order[to] ELSE s.on[w]
MayPlaceAgain(s, w) == s.ready[w]
MayPlace(s, w) == s.ready[w] /\ w \notin placed

\* A signal of the window w: it is placed if that is due, and the rules run where it then is.
Signalled(s, w) ==
  LET to == IF MayPlace(s, w) THEN Target(s, w) ELSE s.on[w]
  IN /\ placed' = IF s.ready[w] THEN placed \cup {w} ELSE placed
     /\ moves' = [moves EXCEPT ![w] = @ + IF to # s.on[w] THEN 1 ELSE 0]
     /\ Apply({w}, [s EXCEPT !.on[w] = to])

-----------------------------------------------------------------------------
(* What windows do *)

\* track_window and window_created: an Xwayland window is ready at once.
Created(w) ==
  /\ world.life[w] = "none" /\ Happens
  /\ \E t \in {"a", "b"}, to \in Range(world.order), actor \in BOOLEAN :
       Signalled([world EXCEPT !.life[w] = "managed", !.title[w] = t, !.on[w] = to,
                               !.actor[w] = actor, !.ready[w] = w \in X11], w)
  /\ UNCHANGED <<told, made, ops>>

\* The first commit of a Wayland window, and the actor of one that had none: no signal of themselves.
Committed(w) ==
  /\ w \in Managed(world) /\ ~world.ready[w]
  /\ world' = [world EXCEPT !.ready[w] = TRUE]
  /\ UNCHANGED <<effects, files, placed, moves, fresh, shifted, told, made, ops, events>>
GetsActor(w) ==
  /\ w \in Managed(world) /\ ~world.actor[w]
  /\ world' = [world EXCEPT !.actor[w] = TRUE] /\ fresh' = fresh \cup {w}
  /\ UNCHANGED <<effects, files, placed, moves, shifted, told, made, ops, events>>

\* window_notified.
Notified(w) ==
  /\ w \in Managed(world) /\ Happens
  /\ \E t \in {"a", "b"} : Signalled([world EXCEPT !.title[w] = t], w)
  /\ UNCHANGED <<told, made, ops>>

\* window_workspace_changed, for a move nobody here asked for; window_changed is one that stays.
MovedTo(w) ==
  /\ w \in Managed(world) /\ Happens
  /\ \E to \in Range(world.order) : Apply({w}, [world EXCEPT !.on[w] = to])
  /\ UNCHANGED <<placed, moves, told, made, ops>>

\* window_unmanaged: its overrides end, their owners are told.
Unmanaged(w) ==
  /\ w \in Managed(world)
  /\ LET ended == {o \in world.overrides : o.window = w}
     IN /\ world' = [world EXCEPT !.life[w] = "gone", !.overrides = @ \ ended,
                                  !.focus = IF @ = w THEN None ELSE @]
        /\ told' = told \cup {o.id : o \in ended}
  /\ fresh' = fresh \ {w} /\ shifted' = shifted \ {w}
  /\ UNCHANGED <<effects, files, placed, moves, made, ops, events>>

\* display_notified of "focus-window": the rules run over every window.
Focus(w) ==
  /\ w \in Managed(world) \cup {None} /\ w # world.focus /\ Happens
  /\ Apply(Windows, [world EXCEPT !.focus = w])
  /\ UNCHANGED <<placed, moves, told, made, ops>>

\* workspace_manager_changed publishes and runs no rule.
Reordered ==
  /\ Happens /\ Len(world.order) > 1
  /\ world' = [world EXCEPT !.order = Append(Tail(@), Head(@))]
  /\ shifted' = Managed(world)
  /\ UNCHANGED <<effects, files, placed, moves, fresh, told, made, ops>>

-----------------------------------------------------------------------------
(* Shader files *)

\* native_window_shader_file_changed: each change starts the timer again; only a file in use is watched.
WatchesOnce(f) == [f EXCEPT !.timer = f.open /\ f.source = "none"]
Watches(f) == [f EXCEPT !.timer = f.open]
FileChanged ==
  /\ Happens
  /\ \E d \in (Sources \cup {"bad"}) \ {files.disk} : files' = Watches([files EXCEPT !.disk = d])
  /\ UNCHANGED <<world, effects, placed, moves, fresh, shifted, told, made, ops>>

\* native_window_shader_file_reload_timeout: a file that is no shader keeps the source before it.
Reload ==
  /\ files.timer
  /\ IF files.disk \in Sources
     THEN ApplyTo(Managed(world), world, Read([files EXCEPT !.timer = FALSE]))
     ELSE files' = [files EXCEPT !.timer = FALSE] /\ UNCHANGED <<world, effects, fresh, shifted>>
  /\ UNCHANGED <<placed, moves, told, made, ops, events>>

-----------------------------------------------------------------------------
(* Overrides and configurations *)

SameTarget(o, w, k) == o.window = w /\ o.key = k

\* override_add through window.set_effect: of the serving generation only; the older one is told first.
SetEffect(w, k, v) ==
  /\ world.serving /\ ops < MaxOps /\ w \in Managed(world)
  /\ LET older == {o \in world.overrides : SameTarget(o, w, k)}
         new == [window |-> w, key |-> k, value |-> v, id |-> ops]
     IN /\ told' = told \cup {o.id : o \in older}
        /\ Apply({w}, [world EXCEPT !.overrides = (@ \ older) \cup {new}])
  /\ made' = made \cup {ops} /\ ops' = ops + 1
  /\ UNCHANGED <<placed, moves, events>>

\* override.revoke of a handle its owner still holds.
Revoke(o) ==
  /\ world.serving /\ o \in world.overrides
  /\ told' = told \cup {o.id}
  /\ Apply({o.window}, [world EXCEPT !.overrides = @ \ {o}])
  /\ UNCHANGED <<placed, moves, made, ops, events>>

\* gnoblin_control_overrides_clear: nobody is told, each target is applied once all are out.
NoTargets == {}
ClearedTargets == {o.window : o \in world.overrides}

\* The worker is suspended or gone: its overrides go with it.
WorkerEnds ==
  /\ world.serving
  /\ Apply(ClearedTargets, [world EXCEPT !.serving = FALSE, !.overrides = {}])
  /\ made' = {} /\ told' = {}
  /\ UNCHANGED <<placed, moves, ops, events>>

\* An accepted CONFIG of a new generation: its document is in force before the overrides go, and the
\* rules run over every window only if its revision is new.
Configured ==
  /\ Happens /\ made' = {} /\ told' = {}
  /\ \E n \in DOMAIN Documents :
       Apply(IF n # world.doc THEN Windows ELSE ClearedTargets,
             [world EXCEPT !.doc = n, !.serving = TRUE, !.overrides = {}])
  /\ UNCHANGED <<placed, moves, ops>>

-----------------------------------------------------------------------------
Init ==
  /\ world = [title |-> [w \in Windows |-> "a"], on |-> [w \in Windows |-> Head(Spaces)],
              order |-> Spaces, focus |-> None, life |-> [w \in Windows |-> "none"],
              actor |-> [w \in Windows |-> FALSE], ready |-> [w \in Windows |-> FALSE],
              doc |-> 1, serving |-> TRUE, overrides |-> {}]
  /\ effects = [w \in Windows |-> [Default EXCEPT !.shader = "none"]]
  /\ files = [disk |-> "v1", source |-> "none", open |-> FALSE, timer |-> FALSE]
  /\ placed = {} /\ moves = [w \in Windows |-> 0] /\ fresh = {} /\ shifted = {}
  /\ told = {} /\ made = {} /\ ops = 0 /\ events = 0

Next ==
  \/ \E w \in Windows : Created(w) \/ Committed(w) \/ GetsActor(w) \/ Notified(w) \/ MovedTo(w)
                          \/ Unmanaged(w)
  \/ \E w \in Windows \cup {None} : Focus(w)
  \/ Reordered \/ FileChanged \/ Reload \/ WorkerEnds \/ Configured
  \/ \E w \in Windows, k \in {"opacity", "shader"} : SetEffect(w, k, IF k = "shader" THEN "p" ELSE "half")
  \/ \E o \in world.overrides : Revoke(o)

Spec == Init /\ [][Next]_vars

-----------------------------------------------------------------------------
\* What every reachable state looks like.
TypeOK ==
  /\ world.focus \in Managed(world) \cup {None}
  /\ files \in [disk : Sources \cup {"bad"}, source : Sources \cup {"none"}, open : BOOLEAN, timer : BOOLEAN]
  /\ placed \subseteq Windows /\ fresh \subseteq Managed(world) /\ shifted \subseteq Managed(world)

\* What the configuration and Lua say of a window: Lua's word, else that of the last rule with one.
Asked(w, k) ==
  LET rules == Documents[world.doc]
      says == {i \in DOMAIN rules : Matches(rules[i], world, w) /\ k \in DOMAIN rules[i].set}
      lua == {o.value : o \in {p \in world.overrides : SameTarget(p, w, k)}}
  IN IF lua # {} THEN CHOOSE v \in lua : TRUE
     ELSE IF says # {} THEN rules[Max(says)].set[k] ELSE Default[k]

Shows(w) ==
  /\ \A k \in {"opacity", "frame"} : effects[w][k] = Asked(w, k)
  /\ Asked(w, "shader") = "" => effects[w].shader = "none"
  /\ Asked(w, "shader") # "" /\ files.source # "none" => effects[w].shader = files.source

\* A window with an actor shows what its rules and overrides ask for, whichever signal came last,
\* until its workspace changes its number.
EffectsFollowRules == \A w \in Managed(world) : world.actor[w] => w \in fresh \cup shifted \/ Shows(w)

\* The source in use is that of the file, unless the file is broken or about to be read.
ShaderFollowsFile == files.open /\ ~files.timer /\ files.disk # "bad" => files.source = files.disk

\* One override per target, each on a live window; one its owner made is in force or was told closed.
OverridesAccounted ==
  /\ \A o, p \in world.overrides : SameTarget(o, p.window, p.key) => o = p
  /\ \A o \in world.overrides : o.window \in Managed(world) /\ o.id \in made
  /\ made = told \cup {o.id : o \in world.overrides} /\ told \cap {o.id : o \in world.overrides} = {}

\* The rules move a window at most once.
MovedOnce == \A w \in Windows : moves[w] <= 1

\* Whatever the order of signals, reloads and crashes, a window looks as its rules say.
RulesSound == TypeOK /\ EffectsFollowRules /\ ShaderFollowsFile /\ OverridesAccounted /\ MovedOnce

\* docs/config/window_rule.md:25: a match on workspace_number is on the current position.
NumberIsCurrent == \A w \in Managed(world) : world.actor[w] => w \in fresh \/ Shows(w)
=============================================================================
