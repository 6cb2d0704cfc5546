--------------------------- MODULE ForeignToplevels ---------------------------
(***************************************************************************)
(* The windows that taskbars see and control                               *)
(* (protocols/foreign-toplevel-list, -management and -common).             *)
(*                                                                         *)
(* A manager object announces every normal window with a handle object;    *)
(* both protocols do, and management also acts on windows and takes the    *)
(* place of a dock entry, to which the window is minimised.  Handles       *)
(* outlive their manager and their window, clients drop either at any      *)
(* time, and a window keeps one minimise target although several clients   *)
(* may set one.                                                            *)
(***************************************************************************)
EXTENDS Naturals

CONSTANTS Windows,
          Management, Lists,    \* clients of each protocol; each binds once and has a dock
          MaxChanges            \* bound: changes of titles and states and moves of docks

None == "none"
ToplevelsAssumption == MaxChanges \in Nat /\ Management \cap Lists = {} /\ None \notin Management
Clients == Management \cup Lists

VARIABLES window,       \* per window: open, title, state, and its phase of life
          manager,      \* per client: "unbound", "bound", "stopped" or "gone"
          handle,       \* per client and window, see Absent
          dock,         \* per client: the surface of set_rectangle, alive, mapped, and where
          target,       \* per window: its target owner, and the icon geometry as <<client, where>>
          crashed,      \* a null manager was used
          changes

vars == <<window, manager, handle, dock, target, crashed, changes>>

(* made     a handle was announced once                                      *)
(* live     its resource exists                                              *)
(* win      its window pointer is set                                        *)
(* mgr      its manager pointer is set                                       *)
(* title, state   as last told                                               *)
(* closed   closed events sent                                               *)
(* aims     target_surface is set                                            *)
Absent == [made |-> FALSE, live |-> FALSE, win |-> FALSE, mgr |-> FALSE,
           title |-> 0, state |-> 0, closed |-> 0, aims |-> FALSE]
NoTarget == [owner |-> None, icon |-> None]

Up == ~crashed
Change == changes < MaxChanges /\ changes' = changes + 1

-----------------------------------------------------------------------------
\* update_target: only the handle that set the window's target last may move it.
UpdateAny(t, h, c, s) ==        \* mutant: any handle with a dock moves it
  IF ~h.win \/ ~h.aims THEN t
  ELSE [t EXCEPT !.icon = IF s.mapped THEN <<c, s.at>> ELSE None]
Update(t, h, c, s) ==
  IF ~h.win \/ ~h.aims \/ t.owner # c THEN t
  ELSE [t EXCEPT !.icon = IF s.mapped THEN <<c, s.at>> ELSE None]

\* clear_target, on the window's side and on the handle's
ClearKeepsIcon(t, h, c) == IF h.win /\ t.owner = c THEN [t EXCEPT !.owner = None] ELSE t   \* mutant
Clear(t, h, c) == IF h.win /\ t.owner = c THEN NoTarget ELSE t
Aimless(h) == [h EXCEPT !.aims = FALSE]

\* handle_disconnect_window
Disconnected(h) == [Aimless(h) EXCEPT !.win = FALSE]

\* The handle is told what changed; an announcement tells everything.
ToldTitle(h, w) == IF h.win THEN [h EXCEPT !.title = w.title] ELSE h
ToldState(h, w, c) == IF h.win /\ c \in Management THEN [h EXCEPT !.state = w.state] ELSE h

Advertised(c, w) ==
  ToldState(ToldTitle([Absent EXCEPT !.made = TRUE, !.live = TRUE, !.win = TRUE, !.mgr = TRUE], w), w, c)

\* The resource of a manager is destroyed: its handles forget it.  Management keeps only
\* those with a window in its table, and no other uses the pointer again.
DetachedNot(h, c) == h      \* mutant: the handles are not detached
Detached(h, c) == IF h.live /\ (c \in Lists \/ h.win) THEN [h EXCEPT !.mgr = FALSE] ELSE h

-----------------------------------------------------------------------------
Bind(c) ==
  /\ manager[c] = "unbound" /\ manager' = [manager EXCEPT ![c] = "bound"]
  /\ handle' = [handle EXCEPT ![c] =
       [w \in Windows |-> IF window[w].open THEN Advertised(c, window[w]) ELSE @[w]]]
  /\ UNCHANGED <<window, dock, target, crashed, changes>>

\* on_window_created, for each manager
CreateTells(c) == manager[c] = "bound"

Create(w) ==
  /\ ~window[w].open /\ ~window[w].was
  /\ window' = [window EXCEPT ![w].open = TRUE, ![w].was = TRUE]
  /\ handle' = [c \in Clients |-> IF CreateTells(c)
                                  THEN [handle[c] EXCEPT ![w] = Advertised(c, window[w])]
                                  ELSE handle[c]]
  /\ UNCHANGED <<manager, dock, target, crashed, changes>>

\* on_window_unmanaged, for each handle with the window
Closed(h) == IF h.live /\ h.win THEN [Disconnected(h) EXCEPT !.closed = @ + 1] ELSE h

Unmanage(w) ==
  /\ window[w].open /\ window' = [window EXCEPT ![w].open = FALSE]
  /\ handle' = [c \in Clients |-> [handle[c] EXCEPT ![w] = Closed(@)]]
  /\ target' = [target EXCEPT ![w] = IF @.owner # None THEN Clear(@, handle[@.owner][w], @.owner)
                                     ELSE @]
  /\ UNCHANGED <<manager, dock, crashed, changes>>

SetTitle(w) ==
  /\ Change /\ window[w].open
  /\ window' = [window EXCEPT ![w].title = 1 - @]
  /\ handle' = [c \in Clients |-> [handle[c] EXCEPT ![w] = ToldTitle(@, window'[w])]]
  /\ UNCHANGED <<manager, dock, target, crashed>>

\* The window is minimised, focused, ...: by the user, or by the request of a handle.
StateChanges(w) ==
  /\ window' = [window EXCEPT ![w].state = 1 - @]
  /\ handle' = [c \in Clients |-> [handle[c] EXCEPT ![w] = ToldState(@, window'[w], c)]]
  /\ UNCHANGED <<manager, dock, target, crashed>>

SetState(w) == Change /\ window[w].open /\ StateChanges(w)

\* set_maximized and the others act on the window alone.
Maximize(c, w) == Change /\ handle[c][w].live /\ handle[c][w].win /\ StateChanges(w)

\* activate and close ask the manager's display for the time.
Activate(c, w) ==
  /\ Change /\ handle[c][w].live /\ handle[c][w].win
  /\ IF handle[c][w].mgr
     THEN StateChanges(w)
     ELSE crashed' = TRUE /\ UNCHANGED <<window, manager, handle, dock, target>>

-----------------------------------------------------------------------------
\* manager_handle_stop destroys the manager of management; that of the list waits for its own
\* destroy.
Stop(c) ==
  /\ manager[c] = "bound"
  /\ IF c \in Management
     THEN /\ manager' = [manager EXCEPT ![c] = "gone"]
          /\ handle' = [handle EXCEPT ![c] = [w \in Windows |-> Detached(@[w], c)]]
     ELSE manager' = [manager EXCEPT ![c] = "stopped"] /\ UNCHANGED handle
  /\ UNCHANGED <<window, dock, target, crashed, changes>>

\* The list is destroyed, or the client goes away; its handles may have gone before or go after.
DestroyManager(c) ==
  /\ manager[c] \in {"bound", "stopped"}
  /\ manager' = [manager EXCEPT ![c] = "gone"]
  /\ handle' = [handle EXCEPT ![c] = [w \in Windows |-> Detached(@[w], c)]]
  /\ UNCHANGED <<window, dock, target, crashed, changes>>

DestroyHandle(c, w) ==
  /\ handle[c][w].live
  /\ target' = [target EXCEPT ![w] = Clear(@, handle[c][w], c)]
  /\ handle' = [handle EXCEPT ![c][w] = [Disconnected(@) EXCEPT !.live = FALSE]]
  /\ UNCHANGED <<window, manager, dock, crashed, changes>>

-----------------------------------------------------------------------------
(* The minimise target.                                                      *)

\* An empty rectangle only clears.
SetRectangle(c, w, empty) ==
  /\ handle[c][w].live /\ dock[c].alive
  /\ LET h == handle[c][w]
         cleared == Clear(target[w], h, c)
         aimed == [h EXCEPT !.aims = TRUE]
     IN  IF ~h.win \/ empty
         THEN /\ target' = [target EXCEPT ![w] = cleared]
              /\ handle' = [handle EXCEPT ![c][w] = Aimless(h)]
         ELSE /\ target' = [target EXCEPT ![w] =
                              Update([cleared EXCEPT !.owner = c], aimed, c, dock[c])]
              /\ handle' = [handle EXCEPT ![c][w] = aimed]
  /\ UNCHANGED <<window, manager, dock, crashed, changes>>

\* The dock is mapped, unmapped or moved: every handle that aims at it updates.
DockBecomes(c, s) ==
  /\ dock' = [dock EXCEPT ![c] = s]
  /\ target' = [w \in Windows |-> Update(target[w], handle[c][w], c, s)]
  /\ UNCHANGED <<window, manager, handle, crashed>>

DockMaps(c) == Change /\ dock[c].alive /\ DockBecomes(c, [dock[c] EXCEPT !.mapped = ~@])
DockMoves(c) == Change /\ dock[c].mapped /\ DockBecomes(c, [dock[c] EXCEPT !.at = 1 - @])

\* on_target_destroy
DockDestroyed(c) ==
  /\ dock[c].alive /\ dock' = [dock EXCEPT ![c].alive = FALSE, ![c].mapped = FALSE]
  /\ target' = [w \in Windows |-> IF handle[c][w].aims THEN Clear(target[w], handle[c][w], c)
                                  ELSE target[w]]
  /\ handle' = [handle EXCEPT ![c] = [w \in Windows |-> Aimless(@[w])]]
  /\ UNCHANGED <<window, manager, crashed, changes>>

-----------------------------------------------------------------------------
Init ==
  /\ window = [w \in Windows |-> [open |-> FALSE, was |-> FALSE, title |-> 0, state |-> 0]]
  /\ manager = [c \in Clients |-> "unbound"]
  /\ handle = [c \in Clients |-> [w \in Windows |-> Absent]]
  /\ dock = [c \in Management |-> [alive |-> TRUE, mapped |-> FALSE, at |-> 0]]
  /\ target = [w \in Windows |-> NoTarget]
  /\ crashed = FALSE /\ changes = 0

WindowStep(w) == Create(w) \/ Unmanage(w) \/ SetTitle(w) \/ SetState(w)
ClientStep(c) == Bind(c) \/ Stop(c) \/ DestroyManager(c) \/ \E w \in Windows : DestroyHandle(c, w)
ControlStep(c) ==
  \/ \E w \in Windows : Maximize(c, w) \/ Activate(c, w)
                        \/ \E empty \in BOOLEAN : SetRectangle(c, w, empty)
  \/ DockMaps(c) \/ DockMoves(c) \/ DockDestroyed(c)

Next == Up /\ (\/ \E w \in Windows : WindowStep(w)
               \/ \E c \in Clients : ClientStep(c)
               \/ \E c \in Management : ControlStep(c))

Spec == Init /\ [][Next]_vars

-----------------------------------------------------------------------------
(* Properties.                                                               *)

TypeOK ==
  /\ manager \in [Clients -> {"unbound", "bound", "stopped", "gone"}]
  /\ \A c \in Clients, w \in Windows : handle[c][w].closed \in 0..1 /\ handle[c][w].title \in {0, 1}
  /\ \A w \in Windows : target[w].owner \in Management \cup {None}
  /\ changes \in 0..MaxChanges

\* A client that listens has a handle for every window that is open, and each
\* handle tells its window's present title and state until the one closed event that says the
\* window is gone.
HandlesTell ==
  \A c \in Clients, w \in Windows :
    LET h == handle[c][w]
    IN  /\ manager[c] = "bound" /\ window[w].open => h.made
        /\ h.live => h.win = window[w].open /\ h.closed = (IF window[w].open THEN 0 ELSE 1)
        /\ h.live /\ h.win => /\ h.title = window[w].title
                              /\ c \in Management => h.state = window[w].state

\* A handle dereferences its manager when it goes (the list) or while it has its window
\* (management): it must not be a manager that was freed.
ManagersNotFreed ==
  \A c \in Clients, w \in Windows :
    LET h == handle[c][w]
    IN  h.live /\ h.mgr /\ (c \in Lists \/ h.win) => manager[c] # "gone"

\* A window is minimised to where the dock entry set last is now, or to none: never to an
\* entry whose handle, surface or dock is gone.
TargetsFollow ==
  \A w \in Windows :
    LET t == target[w]
    IN  /\ t.owner # None => handle[t.owner][w].live /\ handle[t.owner][w].win
                               /\ handle[t.owner][w].aims /\ dock[t.owner].alive
        /\ t.icon = IF t.owner # None /\ dock[t.owner].mapped
                    THEN <<t.owner, dock[t.owner].at>> ELSE None

\* Both protocols tell the truth about windows and clean up after each other.
ToplevelsSound == TypeOK /\ HandlesTell /\ ManagersNotFreed /\ TargetsFollow

\* meta-wayland-foreign-toplevel-management.c:490: "Detach surviving handles so their
\* destructors do not touch freed state": a handle may be used after its manager.
HandlesOutliveManager == ~crashed

\* The inductive invariant: beyond what is promised, a handle is one of a window that was
\* opened and of a manager that was bound, and it lives while it has its window.
WindowRecords == [open : BOOLEAN, was : BOOLEAN, title : {0, 1}, state : {0, 1}]
HandleRecords == [made : BOOLEAN, live : BOOLEAN, win : BOOLEAN, mgr : BOOLEAN,
                  title : {0, 1}, state : {0, 1}, closed : {0, 1}, aims : BOOLEAN]
DockRecords == [alive : BOOLEAN, mapped : BOOLEAN, at : {0, 1}]
Managers == {"unbound", "bound", "stopped", "gone"}

\* The handle h of client c, whose manager is m, for a window as w says
HandleRight(c, h, w, m) ==
  /\ h.live => w.was /\ m # "unbound"
  /\ h.win => h.live
  /\ m = "bound" /\ w.open => h.made
  /\ h.live => (h.win <=> w.open) /\ h.closed = (IF w.open THEN 0 ELSE 1)
  /\ h.win => h.title = w.title /\ (c \in Management => h.state = w.state)
  /\ h.live /\ h.mgr /\ (c \in Lists \/ h.win) => m # "gone"

\* The target t of a window is where the dock s of client o is, which aims with its handle h
AimedAt(t, o, h, s) ==
  /\ t = [owner |-> o, icon |-> IF s.mapped THEN <<o, s.at>> ELSE None]
  /\ h.live /\ h.win /\ h.aims /\ s.alive

IInv ==
  /\ window \in [Windows -> WindowRecords] /\ manager \in [Clients -> Managers]
  /\ handle \in [Clients -> [Windows -> HandleRecords]] /\ dock \in [Management -> DockRecords]
  /\ DOMAIN target = Windows /\ changes \in 0..MaxChanges
  /\ \A w \in Windows : window[w].open => window[w].was
  /\ \A c \in Clients, w \in Windows : HandleRight(c, handle[c][w], window[w], manager[c])
  /\ \A w \in Windows : \/ target[w] = NoTarget
                        \/ \E o \in Management : AimedAt(target[w], o, handle[o][w], dock[o])
=============================================================================
