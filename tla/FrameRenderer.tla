--------------------------- MODULE FrameRenderer ---------------------------
(***************************************************************************)
(* Window frames drawn by an external process                              *)
(* (protocols/window-frame/meta-gnoblin-frame-renderer.c).                 *)
(*                                                                         *)
(* The compositor keeps one Frame per decorated window and one Renderer    *)
(* per configured command.  A frame is offered to the renderer as a        *)
(* protocol object, configured with a serial and a size, and shows the     *)
(* renderer's pixels once a buffer made for the newest serial arrives;     *)
(* until then, and again when the renderer goes, the built-in frame is     *)
(* shown.  The map effect of a new window is held back for that first      *)
(* buffer, two seconds at most.                                            *)
(*                                                                         *)
(* One renderer name is modelled, with a renderer that obeys the protocol: *)
(* it answers every configure, in order, with an acknowledged buffer of    *)
(* the size asked for.  It may be slow, repaint, commit a null buffer if   *)
(* NullCommits, and crash.  The requests of one connection are kept per    *)
(* window: requests of different windows touch different frames.  `env'    *)
(* bounds what the outside may do: window changes, reloads, crashes.       *)
(***************************************************************************)
EXTENDS Naturals, Sequences, FiniteSets, FiniteSetsExt

CONSTANTS Windows,      \* the windows whose rule names the renderer
          Sizes,        \* the frame sizes told apart
          MaxEnv,       \* bound: steps taken by the outside
          NullCommits   \* may the renderer commit a null buffer?

FrameAssumption == /\ Windows # {} /\ Sizes \subseteq Nat \ {0} /\ Sizes # {}
                   /\ MaxEnv \in Nat /\ NullCommits \in BOOLEAN

VARIABLES win,     \* per window: what the window system says of it
          frame,   \* per window: the Frame, with the map effect it holds
          rend,    \* the Renderer record and its process
          wire,    \* per window: the two directions of the frame object
          env      \* steps of the outside taken so far

vars == <<win, frame, rend, wire, env>>

None == [serial |-> 0, size |-> 0]
MaxAttempts == 4
Buffers == [serial : Nat, size : Sizes] \cup {None}
NoWire == [in |-> <<>>, out |-> <<>>, cur |-> None]
NoKey == <<>>

NewFrame == [made |-> FALSE, shown |-> FALSE, size |-> 0, named |-> FALSE, res |-> FALSE,
             role |-> FALSE, pixels |-> None, external |-> FALSE, presented |-> 0,
             serial |-> 0, key |-> NoKey, timer |-> FALSE,
             held |-> FALSE, started |-> FALSE, posted |-> 0]

NoRenderer == [listed |-> TRUE, stopping |-> FALSE, attempts |-> 0, retry |-> FALSE,
               client |-> FALSE, proc |-> "none", conn |-> FALSE, manager |-> FALSE,
               life |-> 0, killed |-> FALSE]

Fresh(r) == [NoRenderer EXCEPT !.life = r.life + 1, !.stopping = r.stopping]

-----------------------------------------------------------------------------
(* The helpers every path goes through.                                     *)

\* The effect is completed from an idle callback, never from inside a frame callback.
ReleaseLost(f) == [f EXCEPT !.held = FALSE]   \* mutant: nothing is posted
ReleaseKeeps(f) == IF f.held THEN [f EXCEPT !.posted = @ + 1] ELSE f   \* mutant: map_actor not cleared
Release(f) == IF f.held THEN [f EXCEPT !.held = FALSE, !.posted = @ + 1] ELSE f

\* The built-in frame comes back; the role's actor is hidden.
Fallback(f) == [f EXCEPT !.external = FALSE]

Detach(f) == Release([Fallback(f) EXCEPT !.timer = FALSE, !.res = FALSE, !.role = FALSE,
                                         !.pixels = None, !.key = NoKey])

Key(v) == <<v.size, v.focus>>

Configure(v, f) ==
  IF f.res /\ f.key # Key(v)
  THEN [f EXCEPT !.key = Key(v), !.serial = @ + 1, !.timer = TRUE]
  ELSE f

Offer(f, r) == IF r.manager /\ f.named /\ ~f.res THEN [f EXCEPT !.res = TRUE] ELSE f

\* A frame follows the registry: another renderer, or none, detaches it first.
Follow(f, r) == IF f.named = r.listed THEN f ELSE [Detach(f) EXCEPT !.named = r.listed]

\* update_frame: a window without border hides the frame and goes no further.
Update(v, f, r) ==
  LET g == [Follow(f, r) EXCEPT !.size = v.size]
  IN  IF ~v.border THEN Release([g EXCEPT !.shown = FALSE])
      ELSE Configure(v, Offer([g EXCEPT !.shown = TRUE], r))

\* update_frame launches the command when a visible frame wants it and no try is pending.
Wants(f, r) == /\ f.named /\ f.shown
               /\ ~r.client /\ ~r.retry /\ r.attempts < MaxAttempts

\* Starting the command may fail; every frame that asked has then used up a try.
Launched(r, ok, tries) ==
  [r EXCEPT !.attempts = IF ok THEN @ + 1 ELSE Min({@ + tries, MaxAttempts}),
            !.client = ok, !.proc = IF ok THEN "running" ELSE "none", !.conn = ok]

\* What the two ends of the frame object hold once f has become g.
Rewired(w, f, g) ==
  LET base == IF f.res THEN wire[w] ELSE [NoWire EXCEPT !.out = <<None>>]
  IN  IF ~g.res THEN NoWire
      ELSE IF g.serial = f.serial THEN base
      ELSE [base EXCEPT !.in = Append(@, [serial |-> g.serial, size |-> g.key[1]])]

Becomes(g) == /\ frame' = g
              /\ wire' = [w \in Windows |-> Rewired(w, frame[w], g[w])]

\* The frames of ws, as they were before, are updated against the windows v and the renderer r.
UpdateAll(v, before, r, ws) ==
  LET after == [w \in Windows |-> IF w \in ws THEN Update(v[w], before[w], r) ELSE before[w]]
      asking == {w \in ws : Wants(after[w], r)}
  IN  /\ Becomes(after)
      /\ IF asking = {} THEN rend' = r
         ELSE \E ok \in BOOLEAN : rend' = Launched(r, ok, Cardinality(asking))

Made == {w \in Windows : frame[w].made}

Outside == /\ env < MaxEnv
           /\ env' = env + 1

-----------------------------------------------------------------------------
(* Windows: geometry, focus, the map effect, and the end of the actor.      *)

\* meta_gnoblin_frame_renderer_sync: a committed layout and size reach the frame,
\* which is created with the first border.
Synced(v, w) ==
  IF frame[w].made \/ v[w].border
  THEN UpdateAll(v, [frame EXCEPT ![w].made = TRUE], rend, {w})
  ELSE UNCHANGED <<frame, wire, rend>>

Sync(w) ==
  /\ Outside /\ ~win[w].gone
  /\ \E border \in BOOLEAN, size \in Sizes :
       /\ win' = [win EXCEPT ![w].border = border, ![w].size = size]
       /\ Synced(win', w)

\* window_changed: focus (or the title) is part of what the renderer draws.
Focus(w) ==
  /\ Outside /\ ~win[w].gone
  /\ win' = [win EXCEPT ![w].focus = ~@]
  /\ IF frame[w].made THEN UpdateAll(win', frame, rend, {w}) ELSE UNCHANGED <<frame, wire, rend>>

\* Mutter ends the effects of an actor before it starts another one, so a map begins
\* with cancel_map; prepare_map then brings the frame up to date and holds the effect
\* once per window, when a renderer process exists.  A map not held is completed at once.
Holds(f, r) == f.made /\ ~f.external /\ f.named /\ r.client /\ f.shown /\ ~f.started

Map(w) ==
  /\ Outside /\ ~win[w].gone
  /\ LET f == [frame EXCEPT ![w] = Release(@)]
         synced == (f[w].made \/ win[w].border) /\ ~f[w].started
         g == IF synced THEN [f EXCEPT ![w] = Update(win[w], [@ EXCEPT !.made = TRUE], rend)]
              ELSE f
         held(r) == [g EXCEPT ![w] = IF Holds(@, r)
                                     THEN [@ EXCEPT !.held = TRUE, !.started = TRUE] ELSE @]
     IN  IF synced /\ Wants(g[w], rend)
         THEN \E ok \in BOOLEAN : LET r == Launched(rend, ok, 1)
                                  IN  rend' = r /\ Becomes(held(r))
         ELSE rend' = rend /\ Becomes(held(rend))
  /\ win' = [win EXCEPT ![w].owed = IF frame'[w].held THEN @ + 1 ELSE @]

\* meta_gnoblin_frame_renderer_cancel_map
CancelMap(w) ==
  /\ Outside /\ frame[w].held
  /\ Becomes([frame EXCEPT ![w] = Release(@)])
  /\ UNCHANGED <<win, rend>>

\* initial_frame_timeout, two seconds after prepare_map
MapTimeout(w) ==
  /\ frame[w].held
  /\ Becomes([frame EXCEPT ![w] = Release(@)])
  /\ UNCHANGED <<win, rend, env>>

\* complete_map_idle
CompleteMap(w) ==
  /\ frame[w].posted > 0
  /\ Becomes([frame EXCEPT ![w].posted = @ - 1])
  /\ win' = [win EXCEPT ![w].owed = @ - 1]
  /\ UNCHANGED <<rend, env>>

DestroyedPosted(f) == [NewFrame EXCEPT !.posted = f.posted]   \* mutant: the idle forgets the actor
Destroyed(f) == NewFrame

\* frame_destroyed: the actor takes its frame and its effects with it.
ActorDestroyed(w) ==
  /\ Outside /\ ~win[w].gone
  /\ win' = [win EXCEPT ![w].gone = TRUE, ![w].owed = 0]
  /\ Becomes([frame EXCEPT ![w] = Destroyed(@)])
  /\ UNCHANGED rend

\* renderer_timeout: a frame never presented stays native, one presented keeps its pixels.
FrameTimeout(w) ==
  /\ frame[w].timer
  /\ Becomes([frame EXCEPT ![w].timer = FALSE])
  /\ UNCHANGED <<win, rend, env>>

-----------------------------------------------------------------------------
(* The renderer process and its connection.                                 *)

\* What the end of the connection does to the frames offered on it.
DisconnectedQuiet(before) == before   \* mutant: frames are not detached
Disconnected(before) ==
  [w \in Windows |-> IF rend.manager /\ before[w].named THEN Detach(before[w]) ELSE before[w]]

LoseConnection(r) == [r EXCEPT !.conn = FALSE, !.manager = FALSE]

\* bind_manager: every frame of this renderer is offered and configured.
Bind ==
  /\ rend.proc = "running" /\ rend.conn /\ ~rend.manager
  /\ UpdateAll(win, frame, [rend EXCEPT !.manager = TRUE], {w \in Made : frame[w].named})
  /\ UNCHANGED <<win, env>>

\* The renderer reads one configure, draws it and commits it with its acknowledgement.
Draw(w) ==
  /\ rend.proc = "running" /\ wire[w].in # <<>>
  /\ wire' = [wire EXCEPT ![w] = [in |-> Tail(@.in), out |-> Append(@.out, Head(@.in)),
                                  cur |-> Head(@.in)]]
  /\ UNCHANGED <<win, frame, rend, env>>

\* Hover and theme changes repaint what was last configured.
Repaint(w) ==
  /\ Outside /\ rend.proc = "running" /\ wire[w].cur # None
  /\ wire' = [wire EXCEPT ![w].out = Append(@, wire[w].cur)]
  /\ UNCHANGED <<win, frame, rend>>

\* A null buffer: the serial of the last configure, and no pixels.
CommitNull(w) ==
  /\ NullCommits /\ Outside /\ rend.proc = "running" /\ wire[w].cur # None
  /\ wire' = [wire EXCEPT ![w].out = Append(@, [wire[w].cur EXCEPT !.size = 0])]
  /\ UNCHANGED <<win, frame, rend>>

Crash ==
  /\ Outside /\ rend.proc = "running"
  /\ rend' = [rend EXCEPT !.proc = "dead"]
  /\ UNCHANGED <<win, frame, wire>>

\* A renderer whose connection was closed ends.
Quit ==
  /\ rend.proc = "running" /\ ~rend.conn
  /\ rend' = [rend EXCEPT !.proc = "dead"]
  /\ UNCHANGED <<win, frame, wire, env>>

\* The compositor reads the end of the connection before the exit is reported.
Hangup ==
  /\ rend.proc = "dead" /\ rend.conn
  /\ Becomes(Disconnected(frame))
  /\ rend' = LoseConnection(rend)
  /\ UNCHANGED <<win, env>>

LetGoBound(f) == f      \* mutant: only frames of a bound manager are let go
LetGo(f) == IF f.named THEN Release(f) ELSE f

\* renderer_exited: the client goes, waiting windows are let go, a retry is armed.
Exited ==
  /\ rend.proc = "dead" /\ rend.client
  /\ Becomes([w \in Windows |-> LetGo(Disconnected(frame)[w])])
  /\ rend' = [LoseConnection(rend) EXCEPT !.client = FALSE, !.proc = "none",
                                          !.retry = @ \/ rend.attempts < MaxAttempts]
  /\ UNCHANGED <<win, env>>

\* retry_renderer, after a backoff: start_renderer alone, the frames come with Bind.
Retry ==
  /\ rend.retry
  /\ \E ok \in BOOLEAN : rend' = [Launched(rend, ok, 1) EXCEPT !.retry = FALSE]
  /\ UNCHANGED <<win, frame, wire, env>>

-----------------------------------------------------------------------------
(* Requests of the renderer, applied in the order they were sent.           *)

\* attach_surface: the role of the frame's surface.
Attached(f) == [f EXCEPT !.role = TRUE]

\* role_post_apply with a buffer made for the newest serial and size
Presented(f, b) == Release([f EXCEPT !.external = TRUE, !.presented = b.serial, !.timer = FALSE])

\* The surface shows what is committed to it, whatever the frame then decides.
Committed(f, b) == [f EXCEPT !.pixels = b]

Applied(f, b) ==
  LET g == Committed(f, b)
  IN  IF b.size = 0 THEN IF g.external THEN g ELSE Fallback(g)
      ELSE IF b.serial = g.serial /\ b.size = g.size THEN Presented(g, b) ELSE g

\* A mismatched buffer of a renderer that is not yet presenting is a protocol error.
Offends(f, b) == b.size # 0 /\ b.serial = f.serial /\ b.size # f.size /\ ~f.external

Apply(w) ==
  /\ rend.conn /\ wire[w].out # <<>>
  /\ LET b == Head(wire[w].out)
         f == IF b = None THEN Attached(frame[w]) ELSE Applied(frame[w], b)
     IN  IF b # None /\ Offends(frame[w], b)
         THEN /\ Becomes(Disconnected([frame EXCEPT ![w] = Committed(@, b)]))
              /\ rend' = [LoseConnection(rend) EXCEPT !.killed = TRUE]
         ELSE /\ frame' = [frame EXCEPT ![w] = f]
              /\ wire' = [wire EXCEPT ![w].out = Tail(@)]
              /\ UNCHANGED rend
  /\ UNCHANGED <<win, env>>

-----------------------------------------------------------------------------
(* The registry.                                                            *)

\* retire_renderer: frames let go, the process ended, the record dropped.
Retired == [w \in Windows |-> IF frame[w].named THEN [Detach(frame[w]) EXCEPT !.named = FALSE]
                              ELSE frame[w]]

\* meta_gnoblin_frame_renderers_configure, as a reload calls it: a listed renderer
\* whose command is the same stays, any other is retired and replaced.
Reload(listed, same) ==
  /\ Outside /\ ~rend.stopping
  /\ IF rend.listed /\ listed /\ same
     THEN UpdateAll(win, frame, rend, Made)
     ELSE UpdateAll(win, Retired, [Fresh(rend) EXCEPT !.listed = listed], Made)
  /\ UNCHANGED win

\* prepare_shutdown
Shutdown ==
  /\ Outside /\ ~rend.stopping
  /\ Becomes(Retired)
  /\ rend' = [Fresh(rend) EXCEPT !.listed = FALSE, !.stopping = TRUE]
  /\ UNCHANGED win

-----------------------------------------------------------------------------
Init == /\ win = [w \in Windows |-> [border |-> TRUE, size |-> Min(Sizes), focus |-> FALSE,
                                     gone |-> FALSE, owed |-> 0]]
        /\ frame = [w \in Windows |-> NewFrame]
        /\ rend = NoRenderer
        /\ wire = [w \in Windows |-> NoWire]
        /\ env = 0

WindowStep(w) == \/ Sync(w) \/ Focus(w) \/ Map(w) \/ CancelMap(w) \/ MapTimeout(w)
                 \/ CompleteMap(w) \/ ActorDestroyed(w) \/ FrameTimeout(w)

RendererStep(w) == Draw(w) \/ Repaint(w) \/ CommitNull(w) \/ Apply(w)

ProcessStep == Bind \/ Crash \/ Quit \/ Hangup \/ Exited \/ Retry

Next == \/ \E w \in Windows : WindowStep(w) \/ RendererStep(w)
        \/ ProcessStep
        \/ \E listed, same \in BOOLEAN : Reload(listed, same)
        \/ Shutdown

\* Timers, idle callbacks and child watches of the main loop run; a renderer that lives reads.
Fairness == /\ \A w \in Windows : /\ WF_vars(MapTimeout(w)) /\ WF_vars(CompleteMap(w))
                                  /\ WF_vars(Draw(w)) /\ WF_vars(Apply(w))
            /\ WF_vars(Bind) /\ WF_vars(Quit) /\ WF_vars(Hangup) /\ WF_vars(Exited)
            /\ WF_vars(Retry)

Spec == Init /\ [][Next]_vars /\ Fairness
-----------------------------------------------------------------------------
(* Properties.                                                              *)

FrameRecord == [made : BOOLEAN, shown : BOOLEAN, size : Sizes \cup {0}, named : BOOLEAN,
                res : BOOLEAN, role : BOOLEAN, pixels : [serial : Nat, size : Sizes \cup {0}],
                external : BOOLEAN, presented : Nat, serial : Nat,
                key : {NoKey} \cup (Sizes \X BOOLEAN), timer : BOOLEAN, held : BOOLEAN,
                started : BOOLEAN, posted : Nat]

\* Every variable keeps its type; the launches of one command stay within their limit.
TypeOK ==
  /\ \A w \in Windows : /\ frame[w] \in FrameRecord
                        /\ win[w].owed \in Nat
                        /\ \A i \in DOMAIN wire[w].in : wire[w].in[i].size \in Sizes
  /\ rend.attempts \in 0..MaxAttempts
  /\ env \in 0..MaxEnv

\* A frame object, its surface and the renderer's pixels live only on the connection of the
\* renderer the frame names: whatever ends it (exit, hangup, protocol error, reload, shutdown,
\* in any order) brings the built-in frame back on every window.
FramesOnLiveConnection ==
  \A w \in Windows : (frame[w].res \/ frame[w].role \/ frame[w].external)
                       => rend.conn /\ rend.manager /\ frame[w].named

\* Each map effect held back is completed once: an unanswered effect is still held or has one
\* idle completion posted, through timeouts, cancels, second maps and detached frames.
MapsAnsweredOnce ==
  \A w \in Windows : win[w].owed = frame[w].posted + (IF frame[w].held THEN 1 ELSE 0)

\* No window waits for a renderer whose exit was already handled.
NobodyWaitsForTheDead == \A w \in Windows : frame[w].held => rend.client

\* However a renderer ends, no frame, pixel or held map is left that belongs to it.
FramesSound ==
  TypeOK /\ FramesOnLiveConnection /\ MapsAnsweredOnce /\ NobodyWaitsForTheDead

\* A window whose map was held back is shown in the end.
MapsEnd == \A w \in Windows : (win[w].owed > 0) ~> (win[w].owed = 0)

\* gnoblin-window-frame-v1.xml: a renderer that acknowledges each serial and commits the size
\* of that configure meets the protocol, and is not disconnected for it.
PoliteNotKilled == ~rend.killed

\* gnoblin-window-frame-v1.xml: "Stale generations are not displayed": the pixels on a frame are
\* those of the generation presented last, which also set its regions.
StaleNotShown == \A w \in Windows : frame[w].external /\ frame[w].shown
                                      => frame[w].pixels.serial = frame[w].presented

\* docs/window-frame-renderers.md: the last presented frame stays "until a matching replacement
\* arrives": a frame behind its newest configure catches up.
CatchesUp == \A w \in Windows :
  (frame[w].external /\ frame[w].shown /\ frame[w].presented # frame[w].serial)
    ~> (~frame[w].external \/ ~frame[w].shown \/ frame[w].presented = frame[w].serial)

\* docs/window-frame-renderers.md: a reload restarts configured services, even when the path
\* of an executable is unchanged.
ReloadRestarts ==
  [][(\E same \in BOOLEAN : Reload(TRUE, same)) /\ rend.client => rend'.life # rend.life]_vars
=============================================================================
