---------------------------- MODULE WindowEffects ----------------------------
(***************************************************************************)
(* Window animations and the workspace switch                              *)
(* (compositor/animation/gnoblin-animation.c, called by the compositor     *)
(* plugin, compositor/plugin/gnoblin-plugin.c).                            *)
(*                                                                         *)
(* Mutter starts an effect (destroy, minimize, unminimize, size change,    *)
(* workspace switch) and waits until the plugin calls it completed.  An    *)
(* animation of the effect takes that promise over; it may end by its last *)
(* frame, by another animation of the same actor, by the session lock, by  *)
(* Mutter killing the effect, or by the actor being unmapped, unmanaged or *)
(* destroyed.  API previews animate an actor without any effect.           *)
(*                                                                         *)
(* The state is what Mutter and the plugin keep on one display, a record,  *)
(* because a handler calls others in turn: an operator below takes the     *)
(* record the code finds and gives the set of those it may leave.          *)
(***************************************************************************)
EXTENDS Naturals, Sequences, FiniteSets, SequencesExt

CONSTANTS Windows,     \* the windows of the window group
          Kind,        \* [Windows -> {"normal", "dialog", "other"}]
          Home,        \* [Windows -> Nat], the workspace; 0 for a window on all of them
          Late,        \* those of them that are opened while the session runs
          Orders,      \* the stacking orders a session starts with
          Backdrop,    \* the background group, the lowest child of the window group
          MaxRaises    \* bound: how often windows are raised

Effects == {"destroy", "minimize", "unminimize", "size"}
NoEffects == [e \in Effects |-> 0]

EffectsAssumption == /\ Kind \in [Windows -> {"normal", "dialog", "other"}]
                     /\ Home \in [Windows -> Nat]
                     /\ Late \subseteq Windows /\ MaxRaises \in Nat
                     /\ Orders \subseteq [1..Cardinality(Windows \ Late) -> Windows \ Late]
                     /\ \A o \in Orders : IsInjective(o)
                     /\ Backdrop \notin Windows

(* d.status      per window: "unborn", "open", "closing" or "gone"           *)
(* d.opened      windows whose open animation was already considered         *)
(* d.owed        per window and effect: how many Mutter waits for            *)
(* d.pending     windows with a size change not yet followed by its new size *)
(* d.previews    the running animations                                      *)
(* d.actor       per window: its actor's transform, "rest" or "animated"     *)
(* d.announced   per window: lifecycle animations started and not finished   *)
(* d.locked      the session lock, as is_locked reads it                     *)
(* d.watch       the lock watch timer is set                                 *)
(* d.switch      <<>> or <<the actors of the running workspace switch>>      *)
(* d.switchOwed  workspace switches Mutter waits for                         *)
(* d.stack       children of the window group, bottom to top                 *)
(* d.order       Mutter's list of window actors, bottom to top               *)
(* d.raises      how often a window was raised                               *)
VARIABLE d

Of(x, ws) == {p \in x.previews : p.win \in ws}
Lifecycle(ps) == {p \in ps : p.life}
Open(x, w) == x.status[w] = "open"

-----------------------------------------------------------------------------
(* preview_stop: the effect a preview promised is completed, the saved state *)
(* restored, the end reported, and the lock watch stopped with the last one. *)

CompletedTwice(x, ps) ==        \* mutant: a stopped animation completes its effect twice
  [w \in Windows |-> [e \in Effects |->
     x.owed[w][e] - 2 * Cardinality({p \in ps : p.win = w /\ p.effect = e})]]
Completed(x, ps) ==
  [w \in Windows |-> [e \in Effects |->
     x.owed[w][e] - Cardinality({p \in ps : p.win = w /\ p.effect = e})]]

ReportedLast(x, ps) ==          \* mutant: no end is reported while another animation plays
  IF x.previews \ ps = {} THEN [w \in Windows |-> 0] ELSE x.announced
Reported(x, ps) ==
  [w \in Windows |-> x.announced[w] - Cardinality({p \in ps : p.win = w /\ p.life})]

Base(x, ps, w) ==
  IF \E p \in ps : p.win = w THEN (CHOOSE p \in ps : p.win = w).base ELSE x.actor[w]

WatchAlone(x, left) == x.watch /\ left # {}        \* mutant: forgets the workspace switch
WatchAfter(x, left) == x.watch /\ (left # {} \/ x.switch # <<>>)

Drop(x, ps, restore) ==
  [x EXCEPT !.previews = @ \ ps,
            !.owed = Completed(x, ps),
            !.announced = Reported(x, ps),
            !.actor = IF restore THEN [w \in Windows |-> Base(x, ps, w)] ELSE @,
            !.watch = WatchAfter(x, x.previews \ ps)]

\* The actors of ws are destroyed: their animations end unrestored, a pending size change is freed.
Bury(x, ws) ==
  [Drop(x, Of(x, ws), FALSE) EXCEPT
     !.status = [w \in Windows |-> IF w \in ws THEN "gone" ELSE @[w]],
     !.owed = [w \in Windows |-> IF w \in ws THEN NoEffects ELSE @[w]],
     !.pending = @ \ ws,
     !.stack = SelectSeq(@, LAMBDA a : a \notin ws),
     !.order = SelectSeq(@, LAMBDA a : a \notin ws)]

StopKeeps(x, ps, restore) == {Drop(x, ps, restore)}     \* mutant: the actor stays
\* Completing a destroy effect lets Mutter destroy the actor.
Stop(x, ps, restore) ==
  {Bury(y, {p.win : p \in {q \in ps : q.effect = "destroy"}}) : y \in {Drop(x, ps, restore)}}

-----------------------------------------------------------------------------
(* start_window_lifecycle_animation                                          *)

\* Dialogs open and close only, other types never animate, nothing does while locked.
Animates(x, w, event) == /\ ~x.locked
                         /\ \/ Kind[w] = "normal"
                            \/ Kind[w] = "dialog" /\ event \in {"open", "close"}

Preview(x, w, life, effect) ==
  [win |-> w, life |-> life, effect |-> effect, base |-> x.actor[w]]

Started(x, p) == [x EXCEPT !.previews = @ \cup {p}, !.actor[p.win] = "animated"]

\* Any animation of the actor ends before the new one saves its state.
SavesFirst(x, w, life, effect) ==      \* mutant: the state is saved before the old one ends
  {Started(y, Preview(x, w, life, effect)) : y \in Stop(x, Of(x, {w}), TRUE)}
Begin(x, w, life, effect) ==
  {Started(y, Preview(y, w, life, effect)) : y \in Stop(x, Of(x, {w}), TRUE)}

BeginLifecycle(x, w, effect) ==
  {[y EXCEPT !.announced[w] = @ + 1] : y \in Begin(x, w, TRUE, effect)}

Owe(x, w, e) == [x EXCEPT !.owed[w][e] = @ + 1]
Done(x, w, e) == [x EXCEPT !.owed[w][e] = @ - 1]

\* Mutter starts an effect: a rule may name an animation, which takes it over; else the
\* plugin completes it at once.
Effect(w, event, e) ==
  \/ Animates(d, w, event) /\ d' \in BeginLifecycle(Owe(d, w, e), w, e)
  \/ d' = Done(Owe(d, w, e), w, e)

-----------------------------------------------------------------------------
(* Window events.                                                            *)

\* Each window is considered for an open animation once, whatever comes of it.
WindowMapped(w) ==
  /\ Open(d, w) /\ w \notin d.opened
  /\ LET x == [d EXCEPT !.opened = @ \cup {w}]
     IN  \/ Animates(d, w, "open") /\ d' \in BeginLifecycle(x, w, "none")
         \/ d' = x

Minimize(w) == Open(d, w) /\ Effect(w, "minimize", "minimize")

Unminimize(w) == Open(d, w) /\ Effect(w, "restore", "unminimize")

\* A window closed without an animation loses its actor to the completion.
Close(w) ==
  /\ Open(d, w)
  /\ \/ /\ Animates(d, w, "close")
        /\ \E x \in BeginLifecycle(Owe(d, w, "destroy"), w, "destroy") :
             d' = [x EXCEPT !.status[w] = "closing"]
     \/ d' = Bury(d, {w})

\* A size change that follows another completes the one before it.
ChangesTwice(x, w) == Owe(x, w, "size")            \* mutant: the earlier one is forgotten
Changes(x, w) == IF w \in x.pending THEN x ELSE Owe(x, w, "size")

SizeChange(w) ==
  /\ Open(d, w)
  /\ d' = [Changes(d, w) EXCEPT !.pending = @ \cup {w}]

SizeChanged(w) ==
  /\ Open(d, w) /\ w \in d.pending
  /\ LET x == [d EXCEPT !.pending = @ \ {w}]
     IN  \/ Animates(d, w, "resize") /\ d' \in BeginLifecycle(x, w, "size")
         \/ d' = Done(x, w, "size")

\* cancel_window_effects: Mutter ends the effects of an actor.
KillEffects(w) ==
  /\ d.status[w] # "gone" /\ (w \in d.pending \/ Of(d, {w}) # {})
  /\ LET x == IF w \in d.pending THEN [Done(d, w, "size") EXCEPT !.pending = @ \ {w}] ELSE d
     IN  d' \in Stop(x, Of(x, {w}), TRUE)

Unmapped(w) == Lifecycle(Of(d, {w})) # {} /\ d' \in Stop(d, Lifecycle(Of(d, {w})), TRUE)

\* The window of a closing actor is unmanaged.
Unmanaged(w) == /\ d.status[w] = "closing"
                /\ d' \in Stop(d, Of(d, {w}), FALSE)

ActorDestroyed(w) == d.status[w] \notin {"unborn", "gone"} /\ d' = Bury(d, {w})

-----------------------------------------------------------------------------
(* Frames and the animation API.                                             *)

LastFrame(p) == d' \in Stop(d, {p}, TRUE)

\* preview_new_frame sees the lock.
LockedFrame(p) == d.locked /\ d' \in Stop(d, {p}, TRUE)

\* animation.preview: the preview starts paused, or plays with autoplay.
ApiPreview(w) ==
  /\ Open(d, w) /\ Kind[w] # "other" /\ ~d.locked
  /\ \E x \in Begin(d, w, FALSE, "none") : d' = [x EXCEPT !.watch = TRUE]

\* animation.stop, and any control of a preview while locked.
ApiStop(p) == ~p.life /\ d' \in Stop(d, {p}, TRUE)

\* Any call of the animation API while locked ends every preview.
ApiLocked == d.locked /\ d.previews # {} /\ d' \in Stop(d, d.previews, TRUE)

-----------------------------------------------------------------------------
(* Mutter's list of window actors.  Mutter sorts the actors it finds in the  *)
(* window group by it when the list changes and when no switch is under way  *)
(* any more; children it does not know stay above.                           *)

IsChild(s, a) == \E k \in DOMAIN s : s[k] = a

Restacked(x) ==
  [x EXCEPT !.stack = <<Backdrop>> \o SelectSeq(x.order, LAMBDA w : IsChild(x.stack, w))
                        \o SelectSeq(x.stack, LAMBDA a : a # Backdrop /\ ~IsChild(x.order, a))]

\* A new window is put on top.
Opened(w) ==
  /\ d.status[w] = "unborn"
  /\ d' = Restacked([d EXCEPT !.status[w] = "open", !.stack = Append(@, w),
                              !.order = Append(@, w)])

Raised(w) ==
  /\ Open(d, w) /\ d.raises < MaxRaises /\ Last(d.order) # w
  /\ d' = Restacked([d EXCEPT !.order = Append(SelectSeq(@, LAMBDA v : v # w), w),
                              !.raises = @ + 1])

-----------------------------------------------------------------------------
(* The workspace switch: the windows of the two workspaces move into two     *)
(* groups and come back.                                                     *)

Moves(x, from, to) ==
  SelectSeq(x.order, LAMBDA w : IsChild(x.stack, w) /\ Home[w] \in {from, to} /\ Open(x, w))

Members(x) == {w \in Windows : IsChild(x.switch[1], w)}

OweSwitch(x) == [x EXCEPT !.switchOwed = @ + 1]

\* meta_plugin_switch_workspace_completed
DoneSwitch(x) ==
  LET y == [x EXCEPT !.switchOwed = @ - 1]
  IN  IF y.switchOwed = 0 THEN Restacked(y) ELSE y

\* An actor that was destroyed meanwhile is in neither group any more.
SurvivorsAll(x, moved) == moved        \* mutant: the parent is not looked at
Survivors(x, moved) == SelectSeq(moved, LAMBDA w : x.status[w] # "gone")

\* workspace_switch_restore_actors: the actors become children of the window group, one above the
\* other.  The second pass, which would insert each next to the neighbour it had, changes
\* nothing: Clutter refuses to insert an actor that has a parent.
RestoredStack(x, moved) == x.stack \o Survivors(x, moved)

SwitchOver(x) == [x EXCEPT !.switch = <<>>, !.watch = @ /\ x.previews # {}]

RestoredLate(x, moved) ==              \* mutant: Mutter is told before the actors are back
  LET y == DoneSwitch(SwitchOver(x)) IN [y EXCEPT !.stack = RestoredStack(y, moved)]
Restored(x, moved) ==
  DoneSwitch([SwitchOver(x) EXCEPT !.stack = RestoredStack(x, moved)])

\* Leaving a group unmaps an actor, which ends its lifecycle animation.
EndSwitch(x) ==
  IF x.switch = <<>> THEN {x}
  ELSE {Restored(y, x.switch[1]) : y \in Stop(x, Lifecycle(Of(x, Members(x))), TRUE)}

Switching(x, moved) ==
  [x EXCEPT !.stack = SelectSeq(@, LAMBDA a : ~IsChild(moved, a)),
            !.switch = <<moved>>, !.watch = TRUE]

BeginSwitch(x, moved) ==
  {Switching(y, moved) :
     y \in Stop(x, Lifecycle(Of(x, {w \in Windows : IsChild(moved, w)})), TRUE)}

\* A running switch is completed first; a switch that animates nothing is completed at once.
SwitchWorkspace(from, to) ==
  \E x \in EndSwitch(OweSwitch(d)) :
    \/ /\ from # to /\ ~d.locked /\ Moves(x, from, to) # <<>>
       /\ d' \in BeginSwitch(x, Moves(x, from, to))
    \/ d' = DoneSwitch(x)

\* workspace_switch_completed, kill_switch_workspace, or the backend's prepare-shutdown
SwitchEnds == d.switch # <<>> /\ d' \in EndSwitch(d)

-----------------------------------------------------------------------------
(* The session lock.                                                         *)

Lock == ~d.locked /\ d' = [d EXCEPT !.locked = TRUE]
Unlock == d.locked /\ d' = [d EXCEPT !.locked = FALSE]

\* lock_watch_cb, every 50 ms: nothing to do while unlocked and something plays.
WatchSparesSwitch(x) == Stop(x, x.previews, TRUE)  \* mutant: the workspace switch plays on
WatchEnds(x) == UNION {EndSwitch(y) : y \in Stop(x, x.previews, TRUE)}

LockWatch ==
  /\ d.watch
  /\ \/ /\ d.previews = {} /\ d.switch = <<>>
        /\ d' = [d EXCEPT !.watch = FALSE]
     \/ /\ d.locked
        /\ d' \in WatchEnds([d EXCEPT !.watch = FALSE])

-----------------------------------------------------------------------------
Init ==
  \E order \in Orders :
    d = [status |-> [w \in Windows |-> IF w \in Late THEN "unborn" ELSE "open"], opened |-> {},
         owed |-> [w \in Windows |-> NoEffects], pending |-> {}, previews |-> {},
         actor |-> [w \in Windows |-> "rest"], announced |-> [w \in Windows |-> 0],
         locked |-> FALSE, watch |-> FALSE, switch |-> <<>>, switchOwed |-> 0,
         stack |-> <<Backdrop>> \o order, order |-> order, raises |-> 0]

WindowStep(w) == \/ WindowMapped(w) \/ Minimize(w) \/ Unminimize(w) \/ Close(w)
                 \/ SizeChange(w) \/ SizeChanged(w) \/ KillEffects(w) \/ Unmapped(w)
                 \/ Unmanaged(w) \/ ActorDestroyed(w) \/ ApiPreview(w)
                 \/ Opened(w) \/ Raised(w)

PreviewStep == \E p \in d.previews : LastFrame(p) \/ LockedFrame(p) \/ ApiStop(p)

Workspaces == {Home[w] : w \in Windows} \ {0}

Next == \/ \E w \in Windows : WindowStep(w)
        \/ PreviewStep \/ ApiLocked
        \/ \E from, to \in Workspaces : SwitchWorkspace(from, to)
        \/ SwitchEnds \/ Lock \/ Unlock \/ LockWatch

vars == d

Spec == Init /\ [][Next]_vars

-----------------------------------------------------------------------------
(* Properties.                                                               *)

\* The state keeps its type; in particular nothing is completed or finished twice.
TypeOK ==
  /\ d.status \in [Windows -> {"unborn", "open", "closing", "gone"}]
  /\ d.owed \in [Windows -> [Effects -> Nat]]
  /\ d.announced \in [Windows -> Nat] /\ d.switchOwed \in Nat
  /\ d.actor \in [Windows -> {"rest", "animated"}]
  /\ \A p \in d.previews : p.win \in Windows /\ p.effect \in Effects \cup {"none"}

\* What Mutter waits for is what a running animation, a pending size change or a running
\* switch will complete: no effect is completed twice, and none is forgotten.
EffectsAccounted ==
  /\ \A w \in Windows : d.status[w] # "gone" => \A e \in Effects :
       d.owed[w][e] = Cardinality({p \in Of(d, {w}) : p.effect = e})
                        + (IF e = "size" /\ w \in d.pending THEN 1 ELSE 0)
  /\ d.switchOwed = Len(d.switch)

\* Between animations an actor is untransformed, whichever animation replaced which.
ActorAtRest == \A w \in Windows : Open(d, w) /\ Of(d, {w}) = {} => d.actor[w] = "rest"

\* Scripts see one finished event for each started one: as many are open as play.
EventsPaired == \A w \in Windows : d.announced[w] = Cardinality(Lifecycle(Of(d, {w})))

\* Whatever does not notice the lock by itself, an API preview that may stand still and a
\* workspace switch, plays only while the lock watch runs.
LockIsWatched == d.switch # <<>> \/ (\E p \in d.previews : ~p.life) => d.watch

\* When no switch is under way the window group holds the actors of all windows, in Mutter's
\* order, although windows were closed, opened and raised since the switch took its own; while
\* one is, an actor is in the group or with the switch.
KeepsStacking ==
  /\ d.switch = <<>> => d.stack = <<Backdrop>> \o d.order
  /\ d.switch # <<>> =>
       \A k \in DOMAIN d.order : IsChild(d.stack, d.order[k]) # IsChild(d.switch[1], d.order[k])

\* The actor of a closed window stays for one thing, an animation that will complete its
\* destroy effect: whatever else starts on the actor must let it go, not leave it behind.
ClosingPlays == \A w \in Windows : d.status[w] = "closing" => d.owed[w]["destroy"] = 1

\* Mutter's books, the scripts' events, the actors and the lock watch agree with what plays.
EffectsSound == /\ TypeOK /\ EffectsAccounted /\ EventsPaired /\ ActorAtRest
                /\ LockIsWatched /\ ClosingPlays
=============================================================================
