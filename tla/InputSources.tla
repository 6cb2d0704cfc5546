----------------------------- MODULE InputSources -----------------------------
(***************************************************************************)
(* Input sources (input/gnoblin-control-input-sources.c): which keyboard   *)
(* layout or IBus engine is current, its selection through Mutter or IBus, *)
(* both asynchronous, the source remembered for each window, and what      *)
(* subscribers are told.                                                   *)
(*                                                                         *)
(* A source is a model value.  The generation counters are compared for    *)
(* equality only, with a copy taken when a call was made: the model keeps  *)
(* the comparison's outcome in the call (`moved') and forgets calls whose  *)
(* answer the counters would discard.  The IBus connection is FIFO.        *)
(***************************************************************************)
EXTENDS Naturals, Sequences, FiniteSets, Functions, SequencesExt

CONSTANTS
  Windows,
  Documents,    \* input_sources tables: [xkb, ibus: sequences, perWindow]
  Engines,      \* the engines that IBus has
  None,
  MaxEvents     \* bound of the model: what the user, IBus and reloads do

VARIABLES
  c,            \* the fields of GnoblinNativeControl
  daemon,       \* IBus: its bus is up, it owns its name, its engine
  wire,         \* messages on the bus: calls to IBus, answers and signals from it
  wish,         \* for each window the source its user chose for it
  excuse,       \* why a promise is off
  sourceEvents  \* bound of the model

vars == <<c, daemon, wire, wish, excuse, sourceEvents>>

InputSourcesAssumption == MaxEvents \in Nat /\ None \notin Windows \union Engines

Doc == Documents[c.doc]
NoPending == [kind |-> "none", id |-> None, target |-> None, internal |-> FALSE, moved |-> FALSE,
              ids |-> <<>>, group |-> 0]
Listed(s, id) == id \in Range(Documents[s.doc].xkb) \union Range(Documents[s.doc].ibus)
Reselected(s) == [s EXCEPT !.query = IF @ = "fresh" THEN "reselected" ELSE @]
IsIbus(s, id) == id \in Range(Documents[s.doc].ibus)

Layout(s) == IF s.keymap.mine /\ s.keymap.group <= Len(s.keymap.ids) THEN s.keymap.ids[s.keymap.group] ELSE None

\* gnoblin_control_current_input_source
Current(s) ==
     CASE s.active # "xkb" /\ s.engine # None -> IF IsIbus(s, s.engine) THEN s.engine ELSE None
       [] s.active = "ibus" /\ s.engine = None -> None
       [] OTHER -> IF Layout(s) \in Range(Documents[s.doc].xkb) THEN Layout(s) ELSE None

Remember(s, w, id) ==
  IF Documents[s.doc].perWindow /\ w \in s.managed /\ Listed(s, id)
  THEN [s EXCEPT !.memory[w] = id] ELSE s
Prune(s) ==
  [s EXCEPT !.memory = [w \in Windows |-> IF Documents[s.doc].perWindow /\ Listed(s, @[w]) THEN @[w] ELSE None]]

\* The event is held back while a selection is out.
MayTellNoEngine(s) == s.pending = NoPending /\ s.active # "ibus"
MayTell(s) == s.pending = NoPending
Publish(s) ==
  LET p == Prune(s) IN [p EXCEPT !.told = IF MayTell(p) THEN Current(p) ELSE @]

Init ==
  /\ c = [doc |-> 1, active |-> "none", engine |-> None,
          keymap |-> [mine |-> FALSE, ids |-> <<>>, group |-> 1],
          pending |-> [NoPending EXCEPT !.kind = "xkb", !.id = Documents[1].xkb[1],
                                        !.ids = Documents[1].xkb, !.group = 1],
          query |-> "none", bus |-> FALSE, retry |-> TRUE, focused |-> None, managed |-> Windows,
          memory |-> [w \in Windows |-> None], told |-> None, due |-> TRUE]
  /\ daemon = [up |-> FALSE, owner |-> FALSE, engine |-> None]
  /\ wire = [calls |-> <<>>, back |-> <<>>]
  /\ wish = [w \in Windows |-> None]
  /\ excuse = [memory |-> FALSE, hurried |-> {}, muted |-> FALSE, blind |-> FALSE, dropped |-> FALSE]
  /\ sourceEvents = 0

Happens == sourceEvents < MaxEvents /\ sourceEvents' = sourceEvents + 1
Excused(kinds) == [excuse EXCEPT !.memory = @ \/ "memory" \in kinds, !.blind = @ \/ "blind" \in kinds,
                                 !.dropped = @ \/ "dropped" \in kinds]

-----------------------------------------------------------------------------
(* Selecting and restoring.                                                  *)

CanSelect(s, id) == Listed(s, id) /\ s.pending = NoPending /\ (IsIbus(s, id) => s.bus)
IndexOf(list, id) == CHOOSE i \in DOMAIN list : list[i] = id

\* select_ibus_source, gnoblin_control_select_xkb_source
Select(s, id, internal) ==
  LET xkb == Documents[s.doc].xkb
      op == [NoPending EXCEPT !.id = id, !.target = s.focused, !.internal = internal]
  IN IF ~CanSelect(s, id) THEN s
     ELSE [s EXCEPT !.pending = IF IsIbus(s, id) THEN [op EXCEPT !.kind = "set"]
             ELSE [op EXCEPT !.kind = "xkb", !.ids = xkb, !.group = IndexOf(xkb, id)]]

Inherits(s) == /\ Documents[s.doc].perWindow /\ s.pending = NoPending /\ s.focused \in s.managed
               /\ s.memory[s.focused] = None /\ Current(s) # None

\* gnoblin_control_input_source_restore_focused
Restore(s) ==
  IF ~Documents[s.doc].perWindow \/ s.pending # NoPending \/ s.focused \notin s.managed THEN s
  ELSE LET kept == s.memory[s.focused] IN
       CASE kept = None -> IF Inherits(s) THEN Remember(s, s.focused, Current(s)) ELSE s
         [] kept # None /\ ~Listed(s, kept) -> [s EXCEPT !.memory[s.focused] = None]
         [] kept # None /\ Listed(s, kept) -> IF Current(s) = kept THEN s ELSE Select(s, kept, TRUE)

\* A new pending IBus selection is a call on the bus.
Sends(old, new) == IF new.pending # old.pending /\ new.pending.kind = "set" THEN <<[kind |-> "set", id |-> new.pending.id]>> ELSE <<>>
Calls(new) == [wire EXCEPT !.calls = @ \o Sends(c, new)]

ReconcilesNever(op, s) == FALSE
Reconciles(op, s) == ~op.internal \/ op.target # s.focused
RemembersFocused(op, s) == s.focused
RemembersFor(op, s) == op.target

\* After the answer: what the focused window inherits is its user's choice too.
WishAfter(op, ok, before) ==
  LET chosen == IF ok /\ ~op.internal /\ op.target \in Windows THEN [wish EXCEPT ![op.target] = op.id] ELSE wish
  IN IF Reconciles(op, before) /\ Inherits(before)
     THEN [chosen EXCEPT ![before.focused] = Current(before)] ELSE chosen

-----------------------------------------------------------------------------
(* What the user does.                                                       *)

SelectSource(id) ==
  LET n == Select(c, id, FALSE) IN
  /\ Happens
  /\ CanSelect(c, id)
  /\ c' = n
  /\ wire' = Calls(n)
  /\ UNCHANGED <<daemon, wish, excuse>>

\* gnoblin_control_input_source_focus_changed
Departs(s) == IF s.focused # None /\ Current(s) # None THEN Remember(s, s.focused, Current(s)) ELSE s
FocusChanges(w) ==
  LET moved == [Departs(c) EXCEPT !.focused = w, !.due = TRUE]
      n == Restore(moved)
  IN
  /\ Happens
  /\ w # c.focused /\ w \in c.managed \union {None}
  /\ c' = n
  /\ wire' = Calls(n)
  /\ wish' = IF Inherits(moved) THEN [wish EXCEPT ![w] = Current(moved)] ELSE wish
  /\ excuse' = [excuse EXCEPT !.hurried = IF c.pending # NoPending /\ c.pending.target # c.focused
                                          THEN @ \union {c.focused} ELSE @]
  /\ UNCHANGED daemon

WindowUnmanaged(w) ==
  /\ Happens
  /\ w \in c.managed
  /\ c' = [c EXCEPT !.managed = @ \ {w}, !.memory[w] = None, !.due = TRUE]
  /\ UNCHANGED <<daemon, wire, wish, excuse>>

\* The keymap's layout is not listed any more, seen or behind an engine.
Hidden(s) == s.pending = NoPending /\ Layout(s) \notin Range(Documents[s.doc].xkb)

\* The layout group moves with a key that the keymap itself knows.
GroupChanges ==
  /\ Happens
  /\ c.keymap.mine /\ c.pending.kind # "xkb" /\ Len(c.keymap.ids) > 1
  /\ c' = [c EXCEPT !.keymap.group = (@ % Len(c.keymap.ids)) + 1, !.due = TRUE]
  /\ excuse' = Excused({"memory"} \union IF Hidden(c') THEN {"dropped"} ELSE {})
  /\ UNCHANGED <<daemon, wire, wish>>

PublishWindows ==
  /\ c.due
  /\ c' = [Publish(c) EXCEPT !.due = FALSE]
  /\ excuse' = [excuse EXCEPT !.muted = FALSE]
  /\ UNCHANGED <<daemon, wire, wish, sourceEvents>>

\* A document with other input sources is accepted.
FirstNever(s) == s
First(s) == IF Current(s) = None /\ s.pending = NoPending /\ Documents[s.doc].xkb # <<>>
            THEN Select(s, Documents[s.doc].xkb[1], FALSE) ELSE s
Reload(d) ==
  LET n == First(Restore(Publish([c EXCEPT !.doc = d]))) IN
  /\ Happens
  /\ d # c.doc
  /\ c' = [n EXCEPT !.due = TRUE]
  /\ wire' = Calls(n)
  /\ excuse' = Excused({"memory", "blind"} \union IF c.pending # NoPending \/ Hidden(n) THEN {"dropped"} ELSE {})
  /\ UNCHANGED <<daemon, wish>>

-----------------------------------------------------------------------------
(* Mutter has set the keymap.                                                *)

\* input_source_keymap_set_done.  "differs": a key moved the group meanwhile.
KeymapDone(outcome) ==
  LET op == c.pending
      ok == outcome = "set" /\ op.id \in Range(Doc.xkb)
      free == [c EXCEPT !.pending = NoPending, !.due = TRUE,
                        !.keymap = IF outcome = "failed" THEN @ ELSE [@ EXCEPT !.mine = FALSE, !.group = op.group]]
      shown == [free EXCEPT !.keymap = [mine |-> TRUE, ids |-> op.ids, group |-> op.group]]
      set == IF ~ok THEN free
             ELSE IF op.moved THEN shown ELSE [Reselected(shown) EXCEPT !.active = "xkb"]
      kept == IF ok THEN Remember(Publish(set), RemembersFor(op, set), op.id) ELSE Publish(set)
      n == IF Reconciles(op, kept) THEN Restore(kept) ELSE kept
  IN
  /\ op.kind = "xkb"
  /\ c' = n
  /\ wire' = Calls(n)
  /\ wish' = WishAfter(op, ok, kept)
  /\ excuse' = [Excused(IF ok THEN IF op.moved THEN {"memory"} ELSE {} ELSE {"memory", "dropped"})
                EXCEPT !.muted = FALSE]
  /\ UNCHANGED <<daemon, sourceEvents>>

-----------------------------------------------------------------------------
(* IBus, as the compositor hears of it.                                      *)

Forget(s, kinds) == SelectSeq(s, LAMBDA m : m.kind \notin kinds)
Rest == [wire EXCEPT !.back = Tail(@)]
Without(w, kinds) == [calls |-> Forget(w.calls, kinds), back |-> Forget(w.back, kinds)]
Call(w, kind) == [w EXCEPT !.calls = Append(@, [kind |-> kind, id |-> None])]
UnlessNever(active, kind) == active
Unless(active, kind) == IF active = kind THEN "none" ELSE active
Heard(kind) == c.bus /\ wire.back # <<>> /\ Head(wire.back).kind = kind
Lost(kind) == ~\E m \in Range(wire.calls) \union Range(wire.back) : m.kind = kind

\* complete_ibus_input_source_selection
Complete(s, ok, queue) ==
  LET op == s.pending
      done == ok /\ IsIbus(s, op.id)
      free == [s EXCEPT !.pending = NoPending]
      set == IF done THEN Publish([Reselected(free) EXCEPT !.active = "ibus"]) ELSE free
      kept == IF done THEN Remember(set, RemembersFor(op, set), op.id) ELSE set
      n == IF Reconciles(op, kept) THEN Restore(kept) ELSE kept
  IN
  /\ c' = n
  /\ wire' = [queue EXCEPT !.calls = @ \o Sends(free, n)]
  /\ wish' = WishAfter(op, done, kept)
  /\ excuse' = [Excused(IF done THEN {} ELSE {"memory", "dropped"})
                EXCEPT !.muted = ~done /\ (@ \/ kept.told # Current(kept))]

\* ibus_input_source_set_done: the engine is asked for before the answer is believed.
SetDone ==
  /\ Heard("set")
  /\ IF Head(wire.back).ok
     THEN /\ c' = [c EXCEPT !.pending.kind = "get", !.pending.moved = FALSE]
          /\ wire' = Call(Rest, "get")
          /\ UNCHANGED <<wish, excuse>>
     ELSE Complete(c, FALSE, Rest)
  /\ UNCHANGED <<daemon, sourceEvents>>

\* ibus_input_source_get_engine_done
ConfirmsListed(op, answer) == IsIbus(c, op.id)
Confirms(op, answer) == answer = op.id /\ (~op.moved \/ c.engine = op.id) /\ IsIbus(c, op.id)
GetDone ==
  LET op == c.pending
      ok == Head(wire.back).ok /\ Confirms(op, Head(wire.back).id)
  IN
  /\ Heard("get")
  /\ Complete(IF ok THEN [c EXCEPT !.engine = op.id] ELSE c, ok, Rest)
  /\ UNCHANGED <<daemon, sourceEvents>>

\* The call times out, or whoever had to answer it is gone; IBus may do it later.
CallFails ==
  /\ c.pending.kind \in {"set", "get"}
  /\ IF Lost(c.pending.kind) THEN UNCHANGED sourceEvents ELSE Happens
  /\ Complete(c, FALSE, [calls |-> [i \in DOMAIN wire.calls |->
                                      IF wire.calls[i].kind = "set" THEN [wire.calls[i] EXCEPT !.kind = "late"] ELSE wire.calls[i]],
                         back |-> Forget(wire.back, {"set", "get"})])
  /\ UNCHANGED daemon

\* ibus_global_engine_query_done
Answered(answer, ok, queue) ==
  LET known == ok /\ IsIbus(c, answer)
      heard == [c EXCEPT !.query = "none", !.engine = IF known THEN answer ELSE None,
                         !.active = IF c.query # "fresh" THEN @
                                    ELSE IF ~known THEN Unless(@, "ibus")
                                    ELSE IF @ = "xkb" THEN @ ELSE "ibus"]
      n == Restore(Publish(heard))
  IN
  /\ c' = n
  /\ wire' = [queue EXCEPT !.calls = @ \o Sends(c, n)]
  /\ excuse' = [Excused({"memory"} \union IF ok THEN {} ELSE {"blind"})
                EXCEPT !.muted = @ /\ ~MayTell(heard)]
  /\ UNCHANGED <<daemon, wish>>

QueryDone == /\ Heard("query")
             /\ Answered(Head(wire.back).id, Head(wire.back).ok, Rest)
             /\ UNCHANGED sourceEvents
QueryFails == /\ c.query # "none"
              /\ IF Lost("query") THEN UNCHANGED sourceEvents ELSE Happens
              /\ Answered(None, FALSE, Without(wire, {"query"}))

\* The engine's generation moves on: an answer to an older question is not believed.
NewEngine(s) == [s EXCEPT !.pending.moved = s.pending # NoPending, !.query = "none"]
Hears(s, queue) ==
  /\ c' = Publish(s)
  /\ wire' = queue
  /\ excuse' = [Excused({"memory"}) EXCEPT !.muted = @ /\ ~MayTell(s)]
  /\ UNCHANGED <<daemon, wish>>

\* ibus_global_engine_changed
EngineChanged ==
  LET id == Head(wire.back).id IN
  /\ Heard("engine")
  /\ Hears([NewEngine(c) EXCEPT !.engine = IF IsIbus(c, id) THEN id ELSE None,
                                !.active = IF IsIbus(c, id) THEN "ibus" ELSE Unless(@, "ibus")],
           Without(Rest, {"query"}))
  /\ UNCHANGED sourceEvents

\* The owner's generation moves on too: the selection under way is lost.
NewOwner(s) == [NewEngine(s) EXCEPT !.engine = None, !.active = Unless(@, "ibus")]
Outdated == {"set", "get", "query"}

\* ibus_name_owner_changed
OwnerChanged ==
  LET queue == Without(Rest, Outdated) IN
  /\ Heard("owner")
  /\ IF Head(wire.back).ok THEN Hears([NewOwner(c) EXCEPT !.query = "fresh"], Call(queue, "query"))
     ELSE Hears(NewOwner(c), queue)
  /\ UNCHANGED sourceEvents

\* ibus_bus_closed
BusClosed ==
  /\ Heard("closed")
  /\ Hears([NewOwner(c) EXCEPT !.bus = FALSE, !.retry = TRUE], [calls |-> <<>>, back |-> <<>>])
  /\ UNCHANGED sourceEvents

\* ibus_retry_connection; while IBus is away the timer is set again.
StartIbus ==
  /\ c.retry /\ daemon.up
  /\ c' = [NewEngine(c) EXCEPT !.bus = TRUE, !.retry = FALSE, !.query = IF daemon.owner THEN "fresh" ELSE "none"]
  /\ wire' = IF daemon.owner THEN Call(wire, "query") ELSE wire
  /\ UNCHANGED <<daemon, wish, excuse, sourceEvents>>

-----------------------------------------------------------------------------
(* IBus itself.                                                              *)

Says(kind, ok, id) == <<[kind |-> kind, ok |-> ok, id |-> id]>>

Serve ==
  LET m == Head(wire.calls)
      sets == m.kind \in {"set", "late"} /\ m.id \in Engines /\ daemon.owner
      now == IF sets THEN m.id ELSE daemon.engine
  IN
  /\ wire.calls # <<>> /\ daemon.up
  /\ daemon' = [daemon EXCEPT !.engine = now]
  /\ wire' = [calls |-> Tail(wire.calls),
              back |-> wire.back \o (IF now # daemon.engine THEN Says("engine", TRUE, now) ELSE <<>>)
                                 \o CASE m.kind = "late" -> <<>>
                                      [] m.kind = "set" -> Says("set", sets, None)
                                      [] OTHER -> Says(m.kind, daemon.owner, now)]
  /\ UNCHANGED <<c, wish, excuse, sourceEvents>>

EngineChosen(e) ==
  /\ Happens
  /\ daemon.owner /\ e # daemon.engine
  /\ daemon' = [daemon EXCEPT !.engine = e]
  /\ wire' = [wire EXCEPT !.back = IF c.bus THEN @ \o Says("engine", TRUE, e) ELSE @]
  /\ UNCHANGED <<c, wish, excuse>>

OwnerComes(e) ==
  /\ Happens
  /\ daemon.up /\ ~daemon.owner
  /\ daemon' = [daemon EXCEPT !.owner = TRUE, !.engine = e]
  /\ wire' = [wire EXCEPT !.back = IF c.bus THEN @ \o Says("owner", TRUE, None) ELSE @]
  /\ UNCHANGED <<c, wish, excuse>>

OwnerGoes ==
  /\ Happens
  /\ daemon.owner
  /\ daemon' = [daemon EXCEPT !.owner = FALSE, !.engine = None]
  /\ wire' = [calls |-> <<>>, back |-> IF c.bus THEN wire.back \o Says("owner", FALSE, None) ELSE <<>>]
  /\ UNCHANGED <<c, wish, excuse>>

BusComes(e) ==
  /\ Happens
  /\ ~daemon.up /\ ~c.bus
  /\ daemon' = [up |-> TRUE, owner |-> TRUE, engine |-> e]
  /\ UNCHANGED <<c, wire, wish, excuse>>

BusGoes ==
  /\ Happens
  /\ daemon.up
  /\ daemon' = [up |-> FALSE, owner |-> FALSE, engine |-> None]
  /\ wire' = [calls |-> <<>>, back |-> IF c.bus THEN wire.back \o Says("closed", TRUE, None) ELSE <<>>]
  /\ UNCHANGED <<c, wish, excuse>>

Next ==
  \/ \E id \in Engines \union UNION {Range(Documents[d].xkb) : d \in DOMAIN Documents} : SelectSource(id)
  \/ \E w \in Windows \union {None} : FocusChanges(w)
  \/ \E w \in Windows : WindowUnmanaged(w)
  \/ GroupChanges \/ PublishWindows
  \/ \E d \in DOMAIN Documents : Reload(d)
  \/ \E outcome \in {"set", "differs", "failed"} : KeymapDone(outcome)
  \/ SetDone \/ GetDone \/ CallFails \/ QueryDone \/ QueryFails
  \/ EngineChanged \/ OwnerChanged \/ BusClosed \/ StartIbus
  \/ Serve \/ OwnerGoes \/ BusGoes
  \/ \E e \in Engines : EngineChosen(e) \/ OwnerComes(e) \/ BusComes(e)

Spec == Init /\ [][Next]_vars

-----------------------------------------------------------------------------
(* Properties.                                                               *)

Settled == c.pending = NoPending
Quiet == Settled /\ c.query = "none" /\ wire.calls = <<>> /\ wire.back = <<>>

\* However the focus moves while selections are out, a window keeps the source its user chose
\* for it, and has it when it is focused (docs/shell-api/input.md:75).  Off after a failure or a
\* change that no selection made; and for a window that lost the focus while the selection of
\* another was out, which then takes what was current (input-sources.c:1030).
MemoryKept ==
  Settled /\ ~excuse.memory =>
    /\ \A w \in c.managed \ excuse.hurried : wish[w] # None => c.memory[w] = wish[w]
    /\ c.focused \in c.managed /\ c.memory[c.focused] # None => Current(c) = c.memory[c.focused]

\* When the bus is quiet, the engine the compositor believes in is IBus's, through restarts of
\* IBus, lost answers and selections; and it knows one that is listed, unless the answer to its
\* question was lost or a reload listed the engine later.
EngineTrue ==
  c.bus /\ Quiet => /\ c.engine \in {None, daemon.engine}
                    /\ daemon.owner /\ IsIbus(c, daemon.engine) /\ ~excuse.blind => c.engine = daemon.engine

\* Subscribers were told of the source that is current.  A selection of an engine that fails
\* withholds what happened meanwhile until the next publication (excuse.muted).
ToldCurrent == Settled /\ ~c.due /\ ~excuse.muted => c.told = Current(c)

\* With a layout configured some source is current (docs/config/configure/input_sources.md),
\* unless a selection failed or a reload met one.
SomeCurrent == Settled /\ ~excuse.dropped /\ Doc.xkb # <<>> => Current(c) # None

\* While the bus is away a retry is armed.
Reconnects == c.bus \/ c.retry

SourcesSound == MemoryKept /\ EngineTrue /\ ToldCurrent /\ SomeCurrent /\ Reconnects
=============================================================================
