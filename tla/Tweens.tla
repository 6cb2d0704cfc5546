------------------------------- MODULE Tweens -------------------------------
(***************************************************************************)
(* One tween from gnoblin.tween() (config/lua/gnoblin-lua-tween.c) to the  *)
(* player in the compositor's render loop (control/                        *)
(* gnoblin-control-tweens.c) and back, with the windows it moves.          *)
(*                                                                         *)
(* The runtime and the player run in two processes.  While a reload is     *)
(* pending the runtime takes the end of a tween at once and puts aside     *)
(* events and states, the tween's own callbacks among them.                *)
(*                                                                         *)
(* Left out: curves, and other writers of a window's transform.  A value   *)
(* is a track and how far it has come.                                     *)
(***************************************************************************)
EXTENDS Integers, Sequences, FiniteSets, Functions, SequencesExt

CONSTANTS
  Steps,        \* the timeline: a sequence of [kind, window, seconds, parallel]
  MaxCalls,     \* bound of the model: calls of the runtime
  MaxEvents     \* bound of the model: locks, closed windows and reloads

VARIABLES
  tween,        \* the Tween object
  player,       \* the timeline and its TweenPlayer
  shown,        \* the windows' visual overrides
  gone,         \* windows that are closed
  locked,       \* the session lock is active
  wire, back,   \* the channel, to and from the compositor
  aside,        \* runtime->deferred_packets
  loading,      \* the reload of the runtime
  tweenEvents   \* bound of the model

vars == <<tween, player, shown, gone, locked, wire, back, aside, loading, tweenEvents>>

-----------------------------------------------------------------------------
(* The timeline.                                                             *)

Most(a, b) == IF a > b THEN a ELSE b
Least(a, b) == IF a < b THEN a ELSE b

\* A step after a group begins when the step before it ends.
JoinedToLast(acc, step) ==
  LET at == IF step.parallel THEN acc.at ELSE acc.at + acc.longest
  IN [at |-> at, longest |-> step.seconds,
      items |-> Append(acc.items, [kind |-> step.kind, window |-> step.window, start |-> at,
                                   length |-> step.seconds])]

\* add_step, and its part in what lua_tween_play compiles: parallel() keeps a step in the group,
\* another group begins when the longest step of this one ends.
Joined(acc, step) ==
  LET at == IF step.parallel THEN acc.at ELSE acc.at + acc.longest
  IN [at |-> at, longest |-> IF step.parallel THEN Most(acc.longest, step.seconds) ELSE step.seconds,
      items |-> Append(acc.items, [kind |-> step.kind, window |-> step.window, start |-> at,
                                   length |-> step.seconds])]

Compiled ==
  LET folded == FoldLeft(Joined, [at |-> 0, longest |-> 0, items |-> <<>>], Steps)
      ofKind(kind) == SelectSeq(folded.items, LAMBDA item : item.kind = kind)
      calls == ofKind("callback")
  IN [items |-> folded.items, tracks |-> ofKind("track"),
      times |-> [i \in DOMAIN calls |-> calls[i].start],
      duration |-> Most(1, folded.at + folded.longest)]

Moved == {Steps[i].window : i \in {j \in DOMAIN Steps : Steps[j].kind = "track"}}
Tracks == player.timeline.tracks
Times == player.timeline.times
Duration == player.timeline.duration
Points == 0 .. Duration
TweensAssumption ==
  /\ MaxCalls \in Nat /\ MaxEvents \in Nat
  /\ \A i \in DOMAIN Steps : LET step == Steps[i] IN
       /\ step.kind \in {"track", "interval", "callback"} /\ step.parallel \in BOOLEAN
       /\ step.seconds \in Nat /\ (step.kind = "callback" => step.seconds = 0)
  /\ \E i \in DOMAIN Steps : Steps[i].kind = "track"

Identity == <<0, 0>>
Still == [w \in Moved |-> Identity]

Init ==
  /\ tween = [status |-> "idle", held |-> FALSE, raised |-> 0, closed |-> <<>>, heard |-> <<>>,
              missed |-> {}, knows |-> Still, calls |-> 0]
  /\ player = [timeline |-> Compiled, at |-> "none", elapsed |-> 0, fired |-> <<>>, outcome |-> "none"]
  /\ shown = Still /\ gone = {} /\ locked = FALSE
  /\ wire = <<>> /\ back = <<>> /\ aside = <<>> /\ loading = "none" /\ tweenEvents = 0

Playing == player.at \in {"playing", "paused"}

-----------------------------------------------------------------------------
(* The player.                                                               *)

Value(i, t) == <<i, Least(t - Tracks[i].start, Tracks[i].length)>>
Begun(w, t) == {i \in DOMAIN Tracks : Tracks[i].window = w /\ w \notin gone /\ Tracks[i].start <= t}

\* A track that is over no longer writes.
DrawnRunning(w, t) ==
  LET on == {i \in Begun(w, t) : t < Tracks[i].start + Tracks[i].length}
  IN IF on = {} THEN shown[w] ELSE Value(CHOOSE i \in on : \A j \in on : j <= i, t)

\* The tracks write in order, so the last that has begun is seen.
Drawn(w, t) ==
  IF Begun(w, t) = {} THEN shown[w]
  ELSE Value(CHOOSE i \in Begun(w, t) : \A j \in Begun(w, t) : j <= i, t)

Due(t) == {i \in DOMAIN Times : Times[i] <= t}

\* Every callback whose time has come is fired, also those of an earlier frame.
FiresAgain(t) == SetToSortSeq(Due(t), <)
Fires(t) == SetToSortSeq(Due(t) \ Range(player.fired), <)

Calls(seq) == [i \in DOMAIN seq |-> <<"callback", seq[i]>>]

\* tween_render
Render(t) == [shown |-> [w \in Moved |-> Drawn(w, t)], calls |-> Calls(Fires(t)),
              fired |-> player.fired \o Fires(t)]

\* The end is told before the windows are published.
EndsFirst(drawn, outcome) == <<<<"ended", outcome>>, <<"state", drawn>>>>

\* tween_finish: the windows are published first.
Ends(drawn, outcome) == <<<<"state", drawn>>, <<"ended", outcome>>>>

Finished(drawn, calls, outcome) ==
  /\ player' = [player EXCEPT !.at = "over", !.outcome = outcome,
                              !.fired = @ \o [i \in DOMAIN calls |-> calls[i][2]]]
  /\ shown' = drawn
  /\ back' = back \o calls \o Ends(drawn, outcome)

\* gnoblin_control_tween_play: refused under the lock or for a window that is gone.
TakePlay ==
  /\ wire # <<>> /\ Head(wire)[1] = "play" /\ wire' = Tail(wire)
  /\ IF locked \/ Moved \intersect gone # {}
     THEN back' = Append(back, <<"ended", "cancelled">>) /\ UNCHANGED <<player, shown>>
     ELSE /\ player' = [player EXCEPT !.at = "playing", !.fired = Render(0).fired]
          /\ shown' = Render(0).shown /\ back' = back \o Render(0).calls
  /\ UNCHANGED <<tween, gone, locked, aside, loading, tweenEvents>>

\* tween_new_frame, and tween_completed in the last one.
Frame(t) ==
  /\ player.at = "playing" /\ t >= player.elapsed
  /\ IF locked THEN Finished(shown, <<>>, "cancelled")
     ELSE IF t = Duration \/ Moved \subseteq gone
     THEN Finished(Render(t).shown, Render(t).calls, "finished")
     ELSE /\ player' = [player EXCEPT !.elapsed = t, !.fired = Render(t).fired]
          /\ shown' = Render(t).shown /\ back' = back \o Render(t).calls
  /\ UNCHANGED <<tween, gone, locked, wire, aside, loading, tweenEvents>>

\* gnoblin_control_tween_control: it seeks under the lock too, and of an end it knows nothing.
TakeControl ==
  /\ wire # <<>> /\ Head(wire)[1] \in {"pause", "resume", "seek", "kill"} /\ wire' = Tail(wire)
  /\ LET msg == Head(wire) IN
     IF ~Playing \/ (msg[1] = "resume" /\ locked) THEN UNCHANGED <<player, shown, back>>
     ELSE CASE msg[1] = "pause" -> player' = [player EXCEPT !.at = "paused"] /\ UNCHANGED <<shown, back>>
            [] msg[1] = "resume" -> player' = [player EXCEPT !.at = "playing"] /\ UNCHANGED <<shown, back>>
            [] msg[1] = "seek" ->
                 /\ player' = [player EXCEPT !.elapsed = msg[2], !.fired = Render(msg[2]).fired]
                 /\ shown' = Render(msg[2]).shown /\ back' = back \o Render(msg[2]).calls
            [] msg[1] = "kill" -> Finished(shown, <<>>, "killed")
  /\ UNCHANGED <<tween, gone, locked, aside, loading, tweenEvents>>

\* A paused tween is left where it is.
CancelsPlaying == player.at = "playing"
Cancels == Playing

\* gnoblin_control_tweens_cancel and gnoblin_control_window_visuals_reset, with what else a new
\* generation brings.
NewGeneration(also) ==
  /\ player' = IF Cancels THEN [player EXCEPT !.at = "over", !.outcome = "cancelled"] ELSE player
  /\ shown' = Still
  /\ back' = back \o (IF Cancels THEN Ends(shown, "cancelled") ELSE <<>>) \o also

TakeCandidate ==
  /\ wire # <<>> /\ Head(wire)[1] = "candidate" /\ wire' = Tail(wire)
  /\ \/ NewGeneration(<<<<"accepted">>>>)
     \/ back' = Append(back, <<"refused">>) /\ UNCHANGED <<player, shown>>
  /\ UNCHANGED <<tween, gone, locked, aside, loading, tweenEvents>>

-----------------------------------------------------------------------------
(* The runtime.                                                              *)

Runs == loading \in {"none", "waiting"}
MayCall == Runs /\ tween.calls < MaxCalls
Sends(msg, status) ==
  /\ tween' = [tween EXCEPT !.status = status, !.calls = @ + 1]
  /\ wire' = Append(wire, msg)
Leaves == UNCHANGED <<player, shown, gone, locked, back, aside, loading, tweenEvents>>

\* lua_object_end
Closes(q, reason) == IF q.closed # <<>> THEN q ELSE [q EXCEPT !.closed = <<reason>>]

\* lua_tween_ended: while a candidate is out a cancelled tween ends with the reload.
Ended(q, outcome) ==
  Closes([q EXCEPT !.status = outcome, !.held = FALSE,
                   !.raised = @ + (IF outcome = "finished" THEN 1 ELSE 0)],
         IF outcome = "cancelled" /\ loading = "sent" THEN "config_reloaded" ELSE outcome)

\* Tween:play, for the first time; its dispatch may be rejected and the call with it.
Play(rejected) ==
  /\ MayCall /\ tween.status = "idle" /\ tween.closed = <<>>
  /\ IF rejected
     THEN tween' = [Ended(tween, "cancelled") EXCEPT !.calls = @ + 1] /\ UNCHANGED wire
     ELSE /\ tween' = [tween EXCEPT !.status = "playing", !.held = TRUE, !.calls = @ + 1]
          /\ wire' = Append(wire, <<"play">>)
  /\ Leaves

\* Tween:play again
Resume == MayCall /\ tween.status = "paused" /\ Sends(<<"resume">>, "playing") /\ Leaves

\* lua_tween_control
Pause == MayCall /\ tween.status \in {"playing", "paused"} /\ Sends(<<"pause">>, "paused") /\ Leaves
Kill == MayCall /\ tween.status \in {"playing", "paused"} /\ Sends(<<"kill">>, tween.status) /\ Leaves
Seek(t) ==
  MayCall /\ tween.status \in {"playing", "paused"} /\ Sends(<<"seek", t>>, tween.status) /\ Leaves

\* lua_tween_dispatch_event, and the windows' state.
Dispatched(q, msg) ==
  CASE msg[1] = "state" -> [q EXCEPT !.knows = msg[2]]
    [] msg[1] = "callback" /\ q.held -> [q EXCEPT !.heard = Append(@, msg[2])]
    [] OTHER -> [q EXCEPT !.missed = @ \union {msg[2]}]

\* What came first is put aside, what comes after it is not.
WaitsShort == loading # "none"

\* runtime_channel_ready: events and states keep their order behind what is put aside.
Waits == loading # "none" \/ aside # <<>>

Receive ==
  /\ back # <<>> /\ back' = Tail(back)
  /\ LET msg == Head(back) IN
     CASE msg[1] \in {"callback", "state"} ->
            /\ IF Waits THEN aside' = Append(aside, msg) /\ UNCHANGED tween
               ELSE tween' = Dispatched(tween, msg) /\ UNCHANGED aside
            /\ UNCHANGED loading
       [] msg[1] = "ended" -> tween' = Ended(tween, msg[2]) /\ UNCHANGED <<aside, loading>>
       [] msg[1] = "refused" -> loading' = "none" /\ UNCHANGED <<tween, aside>>
       [] msg[1] = "accepted" -> /\ loading' = "replaced"
                                 /\ tween' = Closes(tween, "config_reloaded")
                                 /\ UNCHANGED aside
  /\ UNCHANGED <<player, shown, gone, locked, wire, tweenEvents>>

\* runtime_dispatch_deferred_packets
Catch ==
  /\ loading = "none" /\ aside # <<>>
  /\ aside' = Tail(aside) /\ tween' = Dispatched(tween, Head(aside))
  /\ UNCHANGED <<player, shown, gone, locked, wire, back, loading, tweenEvents>>

-----------------------------------------------------------------------------
(* Reloads, the lock and the windows.                                        *)

Happens == tweenEvents < MaxEvents /\ tweenEvents' = tweenEvents + 1

BeginReload ==
  /\ Happens /\ loading = "none" /\ aside = <<>> /\ loading' = "waiting"
  /\ UNCHANGED <<tween, player, shown, gone, locked, wire, back, aside>>

\* runtime_reload_progress: it waits for every call but play.
SendCandidate ==
  /\ loading = "waiting" /\ \A i \in DOMAIN wire : wire[i][1] = "play"
  /\ loading' = "sent" /\ wire' = Append(wire, <<"candidate">>)
  /\ UNCHANGED <<tween, player, shown, gone, locked, back, aside, tweenEvents>>

\* runtime_reload_timeout before the candidate was sent
GiveUp ==
  /\ loading = "waiting" /\ loading' = "none"
  /\ UNCHANGED <<tween, player, shown, gone, locked, wire, back, aside, tweenEvents>>

\* native_runtime_suspend_worker: nothing reaches the runtime any more.
WorkerStops ==
  /\ Happens /\ loading \in {"none", "waiting", "sent"} /\ loading' = "stopped"
  /\ player' = IF Cancels THEN [player EXCEPT !.at = "over", !.outcome = "cancelled"] ELSE player
  /\ shown' = Still /\ wire' = <<>> /\ back' = <<>> /\ aside' = <<>>
  /\ UNCHANGED <<tween, gone, locked>>

SessionLock ==
  /\ Happens /\ locked' = ~locked
  /\ UNCHANGED <<tween, player, shown, gone, wire, back, aside, loading>>

WindowCloses(w) ==
  /\ Happens /\ w \notin gone /\ gone' = gone \union {w}
  /\ UNCHANGED <<tween, player, shown, locked, wire, back, aside, loading>>

Next ==
  \/ TakePlay \/ TakeControl \/ TakeCandidate \/ Receive \/ Catch
  \/ \E rejected \in BOOLEAN : Play(rejected)
  \/ \E t \in Points : Frame(t) \/ Seek(t)
  \/ Resume \/ Pause \/ Kill
  \/ BeginReload \/ SendCandidate \/ GiveUp \/ WorkerStops \/ SessionLock
  \/ \E w \in Moved : WindowCloses(w)

-----------------------------------------------------------------------------
Says(seq, kind) == \E i \in DOMAIN seq : seq[i][1] = kind
Lives == loading \in {"none", "waiting", "sent"}
Outcomes == {"finished", "killed", "cancelled"}
Numbers(seq) ==
  LET calls == SelectSeq(seq, LAMBDA msg : msg[1] = "callback")
  IN [i \in DOMAIN calls |-> calls[i][2]]

\* A tween that plays for the runtime will end for it: its play or its end is on the way, or a
\* player has it; and it closes once, with its outcome or with the reload that stopped it.
PlayEnds ==
  /\ Lives /\ tween.status \in {"playing", "paused"} =>
       tween.held /\ (Says(wire, "play") \/ Playing \/ Says(back, "ended"))
  /\ tween.raised = (IF tween.status = "finished" THEN 1 ELSE 0)
  /\ Lives => (tween.closed # <<>> <=> tween.status \in Outcomes)
  /\ tween.status \in {"finished", "killed"} => tween.closed = <<tween.status>>

\* Each callback the compositor fires reaches the runtime once and in order, and before the end of
\* the tween, except one that a reload has put aside.
CallbacksCome ==
  Lives =>
    /\ LET seen == tween.heard \o Numbers(aside) \o Numbers(back) IN
         /\ IsInjective(seen)
         /\ Range(player.fired) = Range(seen) \union tween.missed
         /\ Range(seen) \intersect tween.missed = {}
         /\ tween.missed = {} => seen = player.fired
    /\ tween.missed # {} => tweenEvents > 0
    /\ tween.status = "finished" /\ tweenEvents = 0 =>
         Range(tween.heard) = DOMAIN Times

\* A tween that came to its end leaves each window where its last track ends, and the runtime that
\* is told of an end knows where the windows are, unless a reload has put that aside.
WindowsEnd ==
  /\ player.outcome = "finished" /\ Lives /\ ~Says(back, "accepted") =>
       \A w \in Moved \ gone : \E i \in DOMAIN Tracks :
         /\ shown[w] = <<i, Tracks[i].length>> /\ Tracks[i].window = w
         /\ \A j \in DOMAIN Tracks : Tracks[j].window = w => j <= i
  /\ Lives /\ tween.status \in {"finished", "killed"} /\ ~Says(aside, "state") /\ ~Says(back, "accepted") =>
       \A w \in Moved \ gone : tween.knows[w] = shown[w]

\* When the runtime and the player have nothing to tell each other they agree, but for a tween
\* that the lock did not let resume; and a window moves for a runtime that lives only.
StatusAgrees ==
  /\ Lives /\ wire = <<>> /\ back = <<>> /\ tween.status \in {"playing", "paused"} =>
       player.at = tween.status \/ (tween.status = "playing" /\ player.at = "paused" /\ tweenEvents > 0)
  /\ ~Lives \/ Says(back, "accepted") => ~Playing /\ shown = Still

\* A step begins when everything before its group is over, and no track runs past the end: the
\* player would refuse it.
TimelineFits ==
  LET items == player.timeline.items IN
  \A i \in DOMAIN Steps : LET item == items[i] IN
    /\ item.start + item.length <= Duration
    /\ ~Steps[i].parallel => \A j \in 1 .. (i - 1) :
         items[j].start + items[j].length <= item.start

TweensSound == TimelineFits /\ PlayEnds /\ CallbacksCome /\ WindowsEnd /\ StatusAgrees

Spec == Init /\ [][Next]_vars
=============================================================================
