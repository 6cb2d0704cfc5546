---------------------------- MODULE LayerSurface ----------------------------
(***************************************************************************)
(* Layer surfaces: panels, wallpapers and menus of the shell               *)
(* (protocols/layer-shell/meta-wayland-layer-shell.c).                     *)
(*                                                                         *)
(* A client gives a wl_surface the role, commits it empty, is sent a       *)
(* configure, acknowledges it and attaches a buffer; a null buffer hides   *)
(* the surface and starts the handshake again.  Meanwhile outputs change   *)
(* mode or go away, the compositor closes surfaces, and clients destroy    *)
(* the layer surface and ask for another one on the same wl_surface.       *)
(*                                                                         *)
(* Every surface belongs to a client that keeps to the protocol.  Requests *)
(* are handled as they are made; events wait in the surface's wire until   *)
(* the client reads them.  A configure whose serial the compositor still   *)
(* knows is "live", one it forgot is "dead".                               *)
(***************************************************************************)
EXTENDS Naturals, Sequences, FiniteSets, SequencesExt

CONSTANTS Surfaces,
          Outputs,
          Modes,       \* sizes an output may have, positive numbers
          MaxWire      \* events that may wait for a client

Fixed == 0             \* a size the client asks for, whatever the mode
Unset == 99            \* nothing sent, nothing drawn
NoAttach == 98         \* a commit that attaches no buffer
Null == 97             \* a commit that attaches the null buffer

LayerAssumption == Modes \subseteq 1..96 /\ MaxWire \in Nat /\ "none" \notin Outputs

\* What a client asks for: a fixed size or the whole output, an exclusive zone, the keyboard.
Asked == [size : {"fixed", "fill"}, zone : {0, 1}, keyboard : {"none", "exclusive"}]
Fresh == [size |-> "unset", zone |-> 0, keyboard |-> "none"]

VARIABLES ls,         \* per wl_surface, its MetaWaylandLayerSurface and what hangs on it
          wire,       \* per surface, the events its client has not read
          client,     \* per surface, what its client knows
          handlers,   \* the seat's menu keyboard handlers, the newest last
          preserve,   \* preserve_active_window
          outputs,    \* the connected outputs
          mode        \* the size of the monitors

vars == <<ls, wire, client, handlers, preserve, outputs, mode>>

(* resource    the layer surface object exists    window   a MetaWindow is attached     *)
(* desktop     the window's type is DESKTOP       strut    the mode it reserved, or 0   *)
(* output      asked for and followed             timer    the closed window's timeout  *)
(* ready       the window was shown once                                                *)
Absent == [resource |-> FALSE, window |-> FALSE, ready |-> FALSE, desktop |-> FALSE, closed |-> FALSE,
           configured |-> FALSE, acked |-> FALSE, pending |-> Fresh, current |-> Fresh,
           changed |-> FALSE, last |-> Unset, buffer |-> Unset, strut |-> 0,
           output |-> "none", timer |-> FALSE]

(* committed  the initial commit is made     size  of the last configure it acknowledged *)
(* behind     and has not drawn yet                                                      *)
NewClient == [committed |-> FALSE, acked |-> FALSE, size |-> Unset, behind |-> FALSE,
              closed |-> FALSE, killed |-> "no"]

Sizes == Modes \cup {Fixed}

Mapped(l) == l.buffer # Unset
Size(l) == IF l.current.size = "fixed" THEN Fixed ELSE mode
Valid(state) == state.size # "unset"

-----------------------------------------------------------------------------
(* Parts of the handlers.                                                    *)

\* reset_layer_surface_state: a new handshake starts from nothing.
Reset(l) == [l EXCEPT !.pending = Fresh, !.current = Fresh, !.changed = FALSE,
                      !.configured = FALSE, !.acked = FALSE, !.last = Unset]

Forgotten(q) == [i \in DOMAIN q |-> IF q[i].kind = "live" THEN [q[i] EXCEPT !.kind = "dead"]
                                                         ELSE q[i]]

Configure(q, size) == Append(q, [kind |-> "live", size |-> size])

ConfiguredUnacked(l, size) ==            \* mutant: only the latest serial allows a buffer
  [l EXCEPT !.configured = TRUE, !.last = size, !.acked = FALSE]
ConfiguredTo(l, size) == [l EXCEPT !.configured = TRUE, !.last = size]

\* release_menu_keyboard, of each surface in `gone': its handler is detached, the others stay.
Detached(hs, gone) ==
  LET kept[i \in 0..Len(hs)] == IF i = 0 THEN <<>>
                                ELSE IF hs[i] \in gone THEN kept[i - 1]
                                ELSE Append(kept[i - 1], hs[i])
  IN  kept[Len(hs)]
Released(hs, s) == Detached(hs, {s})

\* focus_exclusive_layer_surface: borrow the keyboard once, or give it back.
Borrows(l) == preserve /\ l.current.keyboard = "exclusive" /\ Mapped(l)
FocusAgain(hs, s, l) == IF Borrows(l) THEN Append(hs, s) ELSE Released(hs, s)   \* mutant
FocusKeeps(hs, s, l) ==                  \* mutant: never gives back
  IF Borrows(l) /\ s \notin {hs[i] : i \in DOMAIN hs} THEN Append(hs, s) ELSE hs
Focus(hs, s, l) ==
  IF ~Borrows(l) THEN Released(hs, s)
  ELSE IF s \in {hs[i] : i \in DOMAIN hs} THEN hs ELSE Append(hs, s)

\* update_exclusive_zone_struts
StrutOnce(l) == IF l.current.zone = 0 THEN 0           \* mutant: a strut that is there stays
                ELSE IF l.strut # 0 THEN l.strut ELSE mode
Strut(l) == IF l.current.zone > 0 THEN mode ELSE 0

\* post_apply_state of a surface with a buffer
Placed(l) == [l EXCEPT !.strut = Strut(l), !.ready = TRUE]

\* close_layer_surface, with the output followed no more
CloseKeepsStrut(l) == [l EXCEPT !.closed = TRUE, !.timer = l.window]   \* mutant
CloseLeaves(l) == [l EXCEPT !.closed = TRUE, !.strut = 0]              \* mutant: no timeout
Close(l) == [l EXCEPT !.closed = TRUE, !.strut = 0, !.timer = l.window]
ClosedEvent(q) == Append(q, [kind |-> "closed", size |-> Unset])

WindowGone(l) == [l EXCEPT !.window = FALSE, !.ready = FALSE, !.desktop = FALSE, !.strut = 0]

-----------------------------------------------------------------------------
(* Requests.                                                                 *)

Room(s) == Len(wire[s]) < MaxWire
Runs(s) == client[s].killed = "no"

\* layer_shell.get_layer_surface, on a wl_surface without a buffer
GetReuses(l) == l                        \* mutant: the role object keeps its old state
GetClears(l) == Reset(l)

GetLayerSurface(s, o, low) ==
  /\ Runs(s) /\ ~ls[s].resource /\ ls[s].buffer = Unset
  /\ o \in outputs \cup {"none"}
  /\ ls' = [ls EXCEPT ![s] = [GetClears(@) EXCEPT !.resource = TRUE, !.window = TRUE,
                                !.ready = FALSE, !.desktop = low, !.closed = FALSE, !.output = o,
                                !.timer = FALSE]]
  /\ client' = [client EXCEPT ![s] = NewClient]
  /\ UNCHANGED <<wire, handlers, preserve, outputs, mode>>

\* set_size, set_anchor, set_exclusive_zone, set_margin, set_keyboard_interactivity, set_layer
SetState(s, state) ==
  /\ Runs(s) /\ ls[s].resource
  /\ ls' = IF ls[s].closed THEN ls
           ELSE [ls EXCEPT ![s].pending = state, ![s].changed = TRUE]
  /\ UNCHANGED <<wire, client, handlers, preserve, outputs, mode>>

\* The buffer is the wl_surface's, whatever the role makes of the commit.
Attached(l, buffer) == IF buffer = NoAttach THEN l
                       ELSE [l EXCEPT !.buffer = IF buffer = Null THEN Unset ELSE buffer]

\* What a client that keeps to the protocol commits: an empty initial commit with a state that
\* places it, once the configures of an earlier appearance are read; buffers once it
\* acknowledged a configure; a null buffer to hide.
Polite(s, buffer) ==
  LET c == client[s]
  IN  \/ buffer = NoAttach /\ c.committed
      \/ /\ buffer = NoAttach \/ (buffer = Null /\ ~ls[s].ready)
         /\ ~c.committed /\ wire[s] = <<>>
         /\ Valid(ls[s].pending) \/ ls[s].closed
      \/ buffer = Null /\ c.acked
      \/ buffer \in Sizes /\ c.acked /\ buffer = c.size

\* What the client knows after its own commit.
After(c, buffer) ==
  IF buffer = Null /\ c.acked THEN [NewClient EXCEPT !.closed = c.closed]
  ELSE [c EXCEPT !.committed = TRUE, !.behind = @ /\ buffer \notin Sizes]

\* apply_state and post_apply_state of a surface without a window, or a closed one
CommitIgnored(s, buffer) ==
  /\ ~ls[s].window \/ ls[s].closed
  /\ ls' = [ls EXCEPT ![s] = Attached(@, buffer)]
  /\ client' = [client EXCEPT ![s] = After(@, buffer)]
  /\ UNCHANGED <<wire, handlers>>

\* A buffer before the handshake, or a state that places nothing, is a protocol error.
CommitRejected(s, buffer) ==
  LET l == ls[s]
  IN  /\ l.window /\ ~l.closed
      /\ \/ buffer \in Sizes /\ ~(l.configured /\ l.acked)
         \/ /\ ~(buffer = Null /\ l.configured)
            /\ ~Valid(IF l.changed THEN l.pending ELSE l.current)
      /\ client' = [client EXCEPT ![s].killed = IF Polite(s, buffer) THEN "polite" ELSE "rude"]
      /\ UNCHANGED <<ls, wire, handlers>>

\* A null buffer after the handshake began: the surface is hidden and starts again.
CommitUnmaps(s, buffer) ==
  /\ ls[s].window /\ ~ls[s].closed /\ ls[s].configured /\ buffer = Null
  /\ ls' = [ls EXCEPT ![s] = [Reset(@) EXCEPT !.buffer = Unset, !.strut = 0]]
  /\ wire' = [wire EXCEPT ![s] = Forgotten(@)]
  /\ handlers' = Released(handlers, s)
  /\ client' = [client EXCEPT ![s] = After(@, buffer)]

\* The pending state becomes current; a configure answers a new state or a new size; with a
\* buffer the window takes its layer, and the zone is reserved.
CommitApplies(s, buffer) ==
  LET applied == IF ls[s].changed THEN ls[s].pending ELSE ls[s].current
      l == [Attached(ls[s], buffer) EXCEPT !.current = applied, !.changed = FALSE]
      answer == ~l.configured \/ applied # ls[s].current \/ Size(l) # l.last
      m == IF answer THEN ConfiguredTo(l, Size(l)) ELSE l
  IN  /\ l.window /\ ~l.closed /\ Valid(applied)
      /\ buffer \in Sizes => l.configured /\ l.acked
      /\ ~(buffer = Null /\ l.configured)
      /\ ls' = [ls EXCEPT ![s] = IF Mapped(m) THEN Placed(m) ELSE m]
      /\ wire' = [wire EXCEPT ![s] = IF answer THEN Configure(@, Size(l)) ELSE @]
      /\ handlers' = Focus(handlers, s, l)
      /\ client' = [client EXCEPT ![s] = After(@, buffer)]

Commit(s, buffer) ==
  /\ Runs(s) /\ ls[s].resource /\ Room(s)
  /\ \/ CommitRejected(s, buffer)
     \/ /\ Polite(s, buffer)
        /\ CommitIgnored(s, buffer) \/ CommitUnmaps(s, buffer) \/ CommitApplies(s, buffer)
  /\ UNCHANGED <<preserve, outputs, mode>>

\* The null commit toolkits make once the layer surface is destroyed.
CommitBare(s) ==
  /\ Runs(s) /\ ~ls[s].resource /\ Mapped(ls[s])
  /\ ls' = [ls EXCEPT ![s] = Attached(@, Null)]
  /\ UNCHANGED <<wire, client, handlers, preserve, outputs, mode>>

\* ack_configure: an unknown serial is a protocol error.
Read(s) ==
  /\ Runs(s) /\ wire[s] # <<>>
  /\ LET e == Head(wire[s])
         acks == e.kind # "closed" /\ client[s].committed
     IN  /\ client' = [client EXCEPT ![s] =
              IF e.kind = "closed" THEN [@ EXCEPT !.closed = TRUE]
              ELSE IF ~acks THEN @
              ELSE IF e.kind = "dead" /\ ~ls[s].closed THEN [@ EXCEPT !.killed = "polite"]
              ELSE [@ EXCEPT !.acked = TRUE, !.size = e.size, !.behind = TRUE]]
         /\ ls' = IF acks /\ e.kind = "live" /\ ~ls[s].closed
                  THEN [ls EXCEPT ![s].acked = TRUE] ELSE ls
  /\ wire' = [wire EXCEPT ![s] = Tail(@)]
  /\ UNCHANGED <<handlers, preserve, outputs, mode>>

\* layer_surface_resource_destroy
Destroy(s) ==
  /\ Runs(s) /\ ls[s].resource
  /\ ls' = [ls EXCEPT ![s] = [WindowGone(@) EXCEPT !.resource = FALSE, !.output = "none",
                                                   !.timer = FALSE]]
  /\ wire' = [wire EXCEPT ![s] = <<>>]
  /\ client' = [client EXCEPT ![s] = NewClient]
  /\ handlers' = Released(handlers, s)
  /\ UNCHANGED <<preserve, outputs, mode>>

\* The client is gone, by a protocol error or by itself; another one may come.
Disconnect(s) ==
  /\ ls[s] # Absent
  /\ ls' = [ls EXCEPT ![s] = Absent]
  /\ wire' = [wire EXCEPT ![s] = <<>>]
  /\ client' = [client EXCEPT ![s] = NewClient]
  /\ handlers' = Released(handlers, s)
  /\ UNCHANGED <<preserve, outputs, mode>>

-----------------------------------------------------------------------------
(* The compositor.                                                           *)

\* Dismissed by the shell, or closed as a window is.
Closes(s) ==
  /\ ls[s].resource /\ ls[s].window /\ ~ls[s].closed /\ Room(s)
  /\ \E o \in {ls[s].output, "none"} : ls' = [ls EXCEPT ![s] = [Close(@) EXCEPT !.output = o]]
  /\ wire' = [wire EXCEPT ![s] = ClosedEvent(@)]
  /\ handlers' = Released(handlers, s)
  /\ UNCHANGED <<client, preserve, outputs, mode>>

\* destroy_closed_layer_window_idle, 250 ms later
DestroyWindow(s) ==
  /\ ls[s].timer
  /\ ls' = [ls EXCEPT ![s] = [(IF @.closed THEN WindowGone(@) ELSE @) EXCEPT !.timer = FALSE]]
  /\ UNCHANGED <<wire, client, handlers, preserve, outputs, mode>>

\* Mutter configures a dock window it placed, shown or hidden again.
Configures(s) ==
  LET l == ls[s]
  IN  /\ l.resource /\ l.window /\ l.ready /\ ~l.desktop /\ ~l.closed /\ Room(s)
      /\ ~l.configured \/ Size(l) # l.last
      /\ ls' = [ls EXCEPT ![s] = ConfiguredTo(@, Size(l))]
      /\ wire' = [wire EXCEPT ![s] = Configure(@, Size(l))]
      /\ UNCHANGED <<client, handlers, preserve, outputs, mode>>

\* output-destroyed closes what was asked for on the output, before monitors are rebuilt.
Follows(l, o) == l.output = o

Unplug(o) ==
  LET closing == {s \in Surfaces : Follows(ls[s], o) /\ ~ls[s].closed}
  IN  /\ o \in outputs /\ \A s \in closing : Room(s)
      /\ outputs' = outputs \ {o}
      /\ ls' = [s \in Surfaces |->
                  IF s \in closing THEN [Close(ls[s]) EXCEPT !.output = "none"]
                  ELSE IF ls[s].output = o THEN [ls[s] EXCEPT !.output = "none"] ELSE ls[s]]
      /\ wire' = [s \in Surfaces |-> IF s \in closing THEN ClosedEvent(wire[s]) ELSE wire[s]]
      /\ handlers' = Detached(handlers, closing)
      /\ UNCHANGED <<client, preserve, mode>>

Plug(o) ==
  /\ o \notin outputs
  /\ outputs' = outputs \cup {o}
  /\ UNCHANGED <<ls, wire, client, handlers, preserve, mode>>

\* monitors-changed: desktop windows, which Mutter leaves alone, are configured.
Resized(l, m) == /\ l.resource /\ l.configured /\ ~l.closed /\ l.window /\ l.desktop
                 /\ (IF l.current.size = "fixed" THEN Fixed ELSE m) # l.last

ModeChange(m) ==
  LET resized == {s \in Surfaces : Resized(ls[s], m)}
  IN  /\ m # mode /\ \A s \in resized : Room(s)
      /\ mode' = m
      /\ ls' = [s \in Surfaces |-> IF s \in resized THEN ConfiguredTo(ls[s], m) ELSE ls[s]]
      /\ wire' = [s \in Surfaces |-> IF s \in resized THEN Configure(wire[s], m) ELSE wire[s]]
      /\ UNCHANGED <<client, handlers, preserve, outputs>>

\* set_preserve_active_window, when the configuration changes
SetPreserve ==
  /\ preserve' = ~preserve
  /\ UNCHANGED <<ls, wire, client, handlers, outputs, mode>>

-----------------------------------------------------------------------------
Init ==
  /\ ls = [s \in Surfaces |-> Absent]
  /\ wire = [s \in Surfaces |-> <<>>]
  /\ client = [s \in Surfaces |-> NewClient]
  /\ handlers = <<>>
  /\ preserve = TRUE
  /\ outputs = Outputs
  /\ mode \in Modes

Buffers == Sizes \cup {NoAttach, Null}

SurfaceStep(s) ==
  \/ \E o \in Outputs \cup {"none"}, low \in BOOLEAN : GetLayerSurface(s, o, low)
  \/ \E state \in Asked : SetState(s, state)
  \/ \E buffer \in Buffers : Commit(s, buffer)
  \/ CommitBare(s) \/ Read(s) \/ Destroy(s) \/ Disconnect(s)
  \/ Closes(s) \/ DestroyWindow(s) \/ Configures(s)

Next ==
  \/ \E s \in Surfaces : SurfaceStep(s)
  \/ \E o \in Outputs : Unplug(o) \/ Plug(o)
  \/ \E m \in Modes : ModeChange(m)
  \/ SetPreserve

Spec == Init /\ [][Next]_vars

-----------------------------------------------------------------------------
(* Properties.                                                               *)

TypeOK ==
  /\ \A s \in Surfaces : /\ ls[s].pending \in Asked \cup {Fresh}
                         /\ ls[s].current \in Asked \cup {Fresh}
                         /\ ls[s].strut \in Modes \cup {0}
                         /\ Len(wire[s]) <= MaxWire
  /\ handlers \in Seq(Surfaces) /\ IsInjective(handlers)
  /\ outputs \subseteq Outputs /\ mode \in Modes

\* The keyboard is borrowed only for surfaces that are shown, open and ask for it: whatever
\* ends one of the three also gives the keyboard back.
KeyboardReturns ==
  \A s \in Range(handlers) :
    ls[s].resource /\ ~ls[s].closed /\ Mapped(ls[s]) /\ ls[s].current.keyboard = "exclusive"

\* No screen edge stays reserved for a surface that is closed, hidden or gone.
NothingReservedForNobody ==
  \A s \in Surfaces : ls[s].strut # 0 =>
    ls[s].window /\ ~ls[s].closed /\ Mapped(ls[s]) /\ ls[s].current.zone = 1

\* The edge of a panel that fills its output is the one of the present mode, once the panel
\* has answered what it was sent.
ReservedAsDrawn ==
  \A s \in Surfaces :
    LET l == ls[s]
    IN  /\ l.window /\ ~l.closed /\ Mapped(l) /\ l.current.size = "fill" /\ l.current.zone = 1
        /\ l.last = Size(l) /\ wire[s] = <<>> /\ client[s].acked /\ ~client[s].behind
        => l.strut = mode

\* A client that made its initial commit is sent a configure, or told that it is closed; also
\* when the wl_surface had a layer surface before.
HandshakeAnswered ==
  \A s \in Surfaces :
    ls[s].resource /\ Runs(s) /\ client[s].committed /\ ~client[s].acked /\ ~client[s].closed
      => \E i \in DOMAIN wire[s] : wire[s][i].kind \in {"live", "closed"}

\* A client that keeps to the protocol meets no protocol error, also when configures of a
\* resize are under way.
PoliteNeverKilled == \A s \in Surfaces : client[s].killed # "polite"

\* A closed surface that still has its window has the timeout that takes it away: its client
\* need not do anything, and nothing that happens meanwhile may cancel it.
ClosedTimed == \A s \in Surfaces : ls[s].closed /\ ls[s].window => ls[s].timer

-----------------------------------------------------------------------------
(* The inductive invariant: of each surface l, its wire q and its client c.  *)

Layers == [resource : BOOLEAN, window : BOOLEAN, ready : BOOLEAN, desktop : BOOLEAN,
           closed : BOOLEAN, configured : BOOLEAN, acked : BOOLEAN, pending : Asked \cup {Fresh},
           current : Asked \cup {Fresh}, changed : BOOLEAN, last : Sizes \cup {Unset},
           buffer : Sizes \cup {Unset}, strut : Modes \cup {0}, output : Outputs \cup {"none"},
           timer : BOOLEAN]
Events == [kind : {"live", "dead", "closed"}, size : Sizes \cup {Unset}]
Clients == [committed : BOOLEAN, acked : BOOLEAN, size : Sizes \cup {Unset}, behind : BOOLEAN,
            closed : BOOLEAN, killed : {"no", "polite", "rude"}]

Carries(q, kinds) == \E i \in DOMAIN q : q[i].kind \in kinds

\* Without its object a surface has nothing; with it, it has its window until it is closed, and is
\* closed with a timeout and a word to the client.
LifeKept(l, q, c) ==
  /\ ~l.resource => ~l.window /\ l.output = "none" /\ q = <<>> /\ c = NewClient
  /\ l.resource /\ ~l.closed => l.window
  /\ l.closed /\ l.window => l.timer
  /\ l.closed /\ l.resource => c.closed \/ Carries(q, {"closed"})
  /\ l.strut # 0 =>
       l.window /\ ~l.closed /\ Mapped(l) /\ l.current.zone = 1 /\ l.configured

\* What the client may commit next is allowed, the configure it waits for is on its way, and what
\* it drew last is what is reserved.
HandshakeKept(l, q, c) ==
  /\ ~l.changed => l.pending = l.current
  /\ l.resource /\ ~l.closed =>
       /\ IF c.committed THEN Valid(IF l.changed THEN l.pending ELSE l.current)
                              /\ ~Carries(q, {"dead"}) /\ (c.acked \/ Carries(q, {"live"}))
          ELSE ~c.acked /\ l.current = Fresh /\ (l.configured => l.ready)
       /\ c.acked => l.configured /\ l.acked
       /\ Carries(q, {"live"}) => l.configured
       /\ /\ Mapped(l) /\ l.current.size = "fill" /\ l.current.zone = 1
          /\ c.acked /\ ~c.behind /\ ~Carries(q, {"live"})
          => l.strut = l.last

SurfaceKept(l, q, c) ==
  /\ l \in Layers /\ q \in Seq(Events) /\ Len(q) <= MaxWire /\ c \in Clients
  /\ c.killed # "polite" /\ LifeKept(l, q, c) /\ HandshakeKept(l, q, c)

IInv ==
  /\ ls \in [Surfaces -> Layers] /\ wire \in [Surfaces -> Seq(Events)]
  /\ client \in [Surfaces -> Clients]
  /\ \A s \in Surfaces : SurfaceKept(ls[s], wire[s], client[s])
  /\ handlers \in Seq(Surfaces) /\ IsInjective(handlers) /\ KeyboardReturns
  /\ outputs \subseteq Outputs /\ mode \in Modes
=============================================================================
